---- MODULE SharedMsgProofs ----
(* Invariants of SharedMsg for any clients, runs of the server and writes. *)
EXTENDS SharedMsg, FiniteSetTheorems, TLAPS

(* What a process has opened, and what there is while the server runs.     *)
Opened ==
  /\ pc[Server] \in ServerPC
  /\ pc[Server] # "down" => starts >= 1
  /\ pc[Server] \in {"msgget", "semget", "setval"} \/ Serving => shm # None
  /\ pc[Server] \in {"semget", "setval"} \/ Serving => msq # None
  /\ pc[Server] = "setval" \/ Serving => sem # None
  /\ \A c \in Clients :
       /\ pc[c] \in ClientPC
       /\ pc[c] \notin {"new", "gone"} => at[c].shm # None
       /\ pc[c] \in {"p", "inside", "v", "send"} => cmd[c] >= 1

(* An id is of a run of the server that has begun; a run that has not made *)
(* its semaphore yet has given its number to none.                         *)
Fresh ==
  /\ sem # None => sem <= starts
  /\ pc[Server] \in {"msgget", "semget"} => sem # starts
  /\ \A c \in Clients :
       /\ at[c].sem # None => at[c].sem <= starts
       /\ pc[Server] \in {"msgget", "semget"} => at[c].sem # starts

(* Who is inside has what SEM_UNDO would give back, and nobody else does.  *)
Counted ==
  ~reset =>
    /\ val <= 1
    /\ \A p \in Procs : adj[p] = IF Inside(p) THEN 1 ELSE 0
    /\ \A p \in Procs : Inside(p) => val = 0

IInv == MsgTypeOK /\ Opened /\ Fresh /\ Counted /\ Exclusive

(* A step that lets nobody in or out.                                      *)
LEMMA OutsideKeeps ==
  ASSUME IInv, UNCHANGED <<val, adj, reset>>,
         \A p \in Procs : Inside(p)' <=> Inside(p)
  PROVE  Counted' /\ Exclusive'
BY DEF IInv, Counted, Exclusive

(* A step of p from here to there that leaves the semaphores known to      *)
(* everybody alone, with p outside before and after.                       *)
LEMMA StaysOutside ==
  ASSUME IInv, NEW p \in Procs, NEW here, NEW there, Goto(p, here, there),
         here \notin {"inside", "v"}, there \notin {"inside", "v"}, UNCHANGED sem,
         \A c \in Clients : c # p => at'[c].sem = at[c].sem
  PROVE  \A q \in Procs : Inside(q)' <=> Inside(q)
<1> SUFFICES ASSUME NEW q \in Procs PROVE Inside(q)' <=> Inside(q)
  OBVIOUS
<1>1. CASE q = p
  BY <1>1 DEF Goto, Inside, IInv, MsgTypeOK
<1>2. CASE q # p
  BY <1>2 DEF Goto, Inside, Has, semid, Procs, IInv, MsgTypeOK
<1> QED
  BY <1>1, <1>2

(* Such a step keeps the count and the exclusion.                          *)
LEMMA MoveOutside ==
  ASSUME IInv, NEW p \in Procs, NEW here, NEW there, Goto(p, here, there),
         here \notin {"inside", "v"}, there \notin {"inside", "v"},
         UNCHANGED <<sem, val, adj, reset>>,
         \A c \in Clients : c # p => at'[c].sem = at[c].sem
  PROVE  Counted' /\ Exclusive'
BY StaysOutside, OutsideKeeps

(* A step of p inside the semaphore.                                       *)
LEMMA StaysInside ==
  ASSUME IInv, NEW p \in Procs, Goto(p, "inside", "v"), UNCHANGED <<sem, at>>
  PROVE  \A q \in Procs : Inside(q)' <=> Inside(q)
BY DEF Goto, Inside, Has, semid, IInv, MsgTypeOK

(* It keeps the count and the exclusion too.                               *)
LEMMA MoveInside ==
  ASSUME IInv, NEW p \in Procs, Goto(p, "inside", "v"),
         UNCHANGED <<sem, val, adj, reset, at>>
  PROVE  Counted' /\ Exclusive'
BY StaysInside, OutsideKeeps

(* Both programs, step by step, killed at any point (Server.c, Client.c),  *)
(* keep the typing, the freshness of ids and the count of the semaphore.   *)
THEOREM SharedMsgInductive == MsgSpec => []IInv
<1> USE SharedMsgAssumption DEF Procs, Ids
<1>1. MsgInit => IInv
  <2> SUFFICES ASSUME MsgInit PROVE IInv
    OBVIOUS
  <2>1. \A p \in Procs : pc[p] = IF p = Server THEN "down" ELSE "new"
    BY DEF MsgInit
  <2>2. MsgTypeOK
    <3>1. pc \in [Procs -> ServerPC \union ClientPC] /\ ~Serving
      BY <2>1 DEF MsgInit, ServerPC, ClientPC, Serving
    <3>2. queue \in Seq(Message) /\ adj \in [Procs -> Int]
      BY DEF MsgInit
    <3>3. at \in [Clients -> [shm : Ids \union {None}, msq : Ids \union {None},
                            sem : Ids \union {None}]]
      BY DEF MsgInit
    <3>4. /\ starts \in 0 .. MaxStarts /\ sent \in 0 .. MaxSends
          /\ cmd \in [Clients -> 0 .. MaxSends]
      BY DEF MsgInit
    <3> QED
      BY <3>1, <3>2, <3>3, <3>4 DEF MsgInit, MsgTypeOK
  <2>3. Opened /\ Fresh
    BY <2>1 DEF MsgInit, Opened, Fresh, ServerPC, ClientPC, Serving
  <2>4. Counted /\ Exclusive
    BY <2>1 DEF MsgInit, Counted, Exclusive, Inside
  <2> QED
    BY <2>2, <2>3, <2>4 DEF IInv
<1>2. IInv /\ [MsgNext]_msgVars => IInv'
  <2> SUFFICES ASSUME IInv, [MsgNext]_msgVars PROVE IInv'
    OBVIOUS
  <2>0. CASE UNCHANGED msgVars
    <3>1. MsgTypeOK' /\ Opened' /\ Fresh'
      BY <2>0 DEF IInv, MsgTypeOK, Opened, Fresh, Serving, msgVars, objects, semaphore
    <3>2. Counted' /\ Exclusive'
      BY <2>0 DEF IInv, Counted, Exclusive, Inside, Has, semid, msgVars, objects, semaphore
    <3> QED
      BY <3>1, <3>2 DEF IInv
  <2>1. CASE ServerShmget
    <3>1. MsgTypeOK'
      <4>1. starts \in Nat /\ starts' = starts + 1 /\ starts' \in Ids
        BY <2>1 DEF ServerShmget, IInv, MsgTypeOK
      <4>2. shm' \in Ids \union {None} /\ stored' \subseteq 1 .. MaxSends
        BY <2>1, <4>1 DEF ServerShmget, IInv, MsgTypeOK
      <4>3. pc' \in [Procs -> ServerPC \union ClientPC] /\ ~Serving'
        BY <2>1 DEF ServerShmget, Goto, IInv, MsgTypeOK, Serving, ServerPC
      <4> QED
        BY <2>1, <4>1, <4>2, <4>3 DEF ServerShmget, IInv, MsgTypeOK, semaphore
    <3>2. Opened'
      BY <2>1 DEF ServerShmget, Goto, IInv, MsgTypeOK, Opened, Serving, ServerPC
    <3>3. Fresh'
      BY <2>1 DEF ServerShmget, Goto, IInv, MsgTypeOK, Fresh
    <3>4. Counted' /\ Exclusive'
      BY <2>1, MoveOutside DEF ServerShmget, semaphore
    <3> QED
      BY <3>1, <3>2, <3>3, <3>4 DEF IInv
  <2>2. CASE ServerMsgget
    <3>1. MsgTypeOK'
      BY <2>2 DEF ServerMsgget, Goto, IInv, MsgTypeOK, Opened, Serving, semaphore, ServerPC
    <3>2. Opened'
      BY <2>2 DEF ServerMsgget, Goto, IInv, MsgTypeOK, Opened, Serving, ServerPC
    <3>3. Fresh'
      BY <2>2 DEF ServerMsgget, Goto, IInv, MsgTypeOK, Fresh
    <3>4. Counted' /\ Exclusive'
      BY <2>2, MoveOutside DEF ServerMsgget, semaphore
    <3> QED
      BY <3>1, <3>2, <3>3, <3>4 DEF IInv
  <2>3. CASE creat_sem
    <3>1. MsgTypeOK'
      BY <2>3 DEF creat_sem, Goto, IInv, MsgTypeOK, Opened, Serving, semaphore, ServerPC
    <3>2. Opened'
      BY <2>3 DEF creat_sem, Goto, IInv, MsgTypeOK, Opened, Serving, ServerPC
    <3>3. Fresh'
      BY <2>3 DEF creat_sem, Goto, IInv, MsgTypeOK, Fresh
    <3>4. ASSUME NEW q \in Procs PROVE Inside(q)' <=> Inside(q)
      BY <2>3 DEF creat_sem, Goto, Inside, Has, semid, IInv, MsgTypeOK, Fresh
    <3>5. Counted' /\ Exclusive'
      BY <2>3, <3>4, OutsideKeeps DEF creat_sem, semaphore
    <3> QED
      BY <3>1, <3>2, <3>3, <3>5 DEF IInv
  <2>4. CASE init_sem
    <3>1. MsgTypeOK'
      BY <2>4 DEF init_sem, Goto, IInv, MsgTypeOK, Opened, Serving, objects, ServerPC
    <3>2. Opened'
      BY <2>4 DEF init_sem, Goto, IInv, MsgTypeOK, Opened, Serving, ServerPC, objects
    <3>3. Fresh'
      BY <2>4 DEF init_sem, Goto, IInv, MsgTypeOK, Fresh, objects
    <3>4. ASSUME NEW q \in Procs PROVE Inside(q)' <=> Inside(q)
      BY <2>4 DEF init_sem, Goto, Inside, Has, semid, IInv, MsgTypeOK, objects
    <3>5. Counted'
      <4>1. val' = 1 /\ (~reset' => \A p \in Procs : ~Inside(p)')
        BY <2>4, <3>4 DEF init_sem, IInv, MsgTypeOK
      <4>2. \A p \in Procs : adj'[p] = 0
        BY <2>4 DEF init_sem
      <4> QED
        BY <4>1, <4>2 DEF Counted
    <3>6. Exclusive'
      BY <2>4, <3>4 DEF init_sem, Exclusive
    <3> QED
      BY <3>1, <3>2, <3>3, <3>5, <3>6 DEF IInv
  <2>5. CASE msgrcv
    <3> DEFINE there == IF Head(queue).mtext = "q" THEN "rmshm" ELSE "p"
    <3>1. /\ Goto(Server, "msgrcv", there) /\ there \in {"rmshm", "p"}
          /\ queue' \in Seq(Message)
          /\ UNCHANGED <<starts, objects, stored, semaphore, at, cmd, sent, reset>>
      BY <2>5 DEF msgrcv, IInv, MsgTypeOK
    <3> HIDE DEF there
    <3>2. MsgTypeOK'
      BY <3>1 DEF Goto, IInv, MsgTypeOK, Serving, semaphore, objects, ServerPC
    <3>3. Opened'
      BY <3>1 DEF Goto, IInv, MsgTypeOK, Opened, Serving, ServerPC, objects
    <3>4. Fresh'
      BY <3>1 DEF Goto, IInv, MsgTypeOK, Fresh, objects
    <3>5. Counted' /\ Exclusive'
      BY <3>1, MoveOutside DEF semaphore, objects
    <3> QED
      BY <3>2, <3>3, <3>4, <3>5 DEF IInv
  <2>6. ASSUME NEW p \in Procs, sem_p(p) PROVE IInv'
    <3>1. /\ Goto(p, "p", "inside")
          /\ IF Has(p) THEN val > 0 /\ val' = val - 1 /\ adj' = [adj EXCEPT ![p] = adj[p] + 1]
                       ELSE val' = val /\ adj' = adj
          /\ UNCHANGED <<starts, objects, stored, queue, at, cmd, sent, reset>>
      BY <2>6 DEF sem_p, semaphore
    <3>2. MsgTypeOK'
      <4>1. val' \in Nat /\ adj' \in [Procs -> Int]
        BY <3>1 DEF IInv, MsgTypeOK
      <4>2. pc' \in [Procs -> ServerPC \union ClientPC] /\ (Serving' => Serving)
        BY <3>1 DEF Goto, IInv, MsgTypeOK, Serving, ServerPC, ClientPC
      <4> QED
        BY <3>1, <4>1, <4>2 DEF IInv, MsgTypeOK, objects
    <3>3. Opened'
      BY <3>1 DEF Goto, IInv, MsgTypeOK, Opened, Serving, ServerPC, ClientPC, objects
    <3>4. Fresh'
      BY <3>1 DEF Goto, IInv, MsgTypeOK, Fresh, objects
    <3>5. ASSUME NEW q \in Procs
          PROVE  /\ Has(q)' <=> Has(q)
                 /\ Inside(q)' <=> IF q = p THEN Has(p) ELSE Inside(q)
                 /\ q = p => ~Inside(q)
      BY <3>1 DEF Goto, Inside, Has, semid, IInv, MsgTypeOK, objects
    <3>6. CASE Has(p)
      <4>1. ~reset => \A q \in Procs : ~Inside(q)
        BY <3>1, <3>6 DEF IInv, Counted
      <4>2. Counted'
        BY <3>1, <3>5, <3>6, <4>1 DEF IInv, MsgTypeOK, Counted
      <4>3. Exclusive'
        BY <3>1, <3>5, <4>1 DEF Exclusive
      <4> QED
        BY <3>2, <3>3, <3>4, <4>2, <4>3 DEF IInv
    <3>7. CASE ~Has(p)
      <4>1. ASSUME NEW q \in Procs PROVE Inside(q)' <=> Inside(q)
        BY <3>5, <3>7
      <4>2. Counted' /\ Exclusive'
        BY <3>1, <3>7, <4>1, OutsideKeeps
      <4> QED
        BY <3>2, <3>3, <3>4, <4>2 DEF IInv
    <3> QED
      BY <3>6, <3>7
  <2>7. ASSUME NEW p \in Procs, sem_v(p) PROVE IInv'
    <3> DEFINE there == IF p = Server THEN "msgrcv" ELSE "send"
    <3>1. /\ Goto(p, "v", there)
          /\ IF Has(p) THEN val' = val + 1 /\ adj' = [adj EXCEPT ![p] = adj[p] - 1]
                       ELSE val' = val /\ adj' = adj
          /\ UNCHANGED <<starts, objects, stored, queue, at, cmd, sent, reset>>
      BY <2>7 DEF sem_v, semaphore
    <3>2. MsgTypeOK'
      <4>1. val' \in Nat /\ adj' \in [Procs -> Int]
        BY <3>1 DEF IInv, MsgTypeOK
      <4>2. pc' \in [Procs -> ServerPC \union ClientPC] /\ (Serving' => Serving)
        BY <3>1 DEF Goto, IInv, MsgTypeOK, Serving, ServerPC, ClientPC
      <4> QED
        BY <3>1, <4>1, <4>2 DEF IInv, MsgTypeOK, objects
    <3>3. Opened'
      BY <3>1 DEF Goto, IInv, MsgTypeOK, Opened, Serving, ServerPC, ClientPC, objects
    <3>4. Fresh'
      BY <3>1 DEF Goto, IInv, MsgTypeOK, Fresh, objects
    <3>5. ASSUME NEW q \in Procs
          PROVE  /\ Inside(q)' <=> q # p /\ Inside(q)
                 /\ q = p => (Inside(q) <=> Has(p))
      BY <3>1 DEF Goto, Inside, Has, semid, IInv, MsgTypeOK, objects
    <3>6. CASE Has(p)
      <4>1. ~reset => /\ val = 0 /\ adj[p] = 1
                      /\ \A q \in Procs : Inside(q) => q = p
        BY <3>5, <3>6 DEF IInv, Counted, Exclusive
      <4>2. ~reset => \A q \in Procs : q # p => adj[q] = 0
        BY <4>1 DEF IInv, Counted
      <4>3. Counted'
        BY <3>1, <3>5, <3>6, <4>1, <4>2 DEF IInv, MsgTypeOK, Counted
      <4>4. Exclusive'
        BY <3>1, <3>5, <4>1 DEF Exclusive
      <4> QED
        BY <3>2, <3>3, <3>4, <4>3, <4>4 DEF IInv
    <3>7. CASE ~Has(p)
      <4>1. ASSUME NEW q \in Procs PROVE Inside(q)' <=> Inside(q)
        BY <3>5, <3>7
      <4>2. Counted' /\ Exclusive'
        BY <3>1, <3>7, <4>1, OutsideKeeps
      <4> QED
        BY <3>2, <3>3, <3>4, <4>2 DEF IInv
    <3> QED
      BY <3>6, <3>7
  <2>8. CASE PrintSegment
    <3>1. MsgTypeOK'
      BY <2>8 DEF PrintSegment, Goto, IInv, MsgTypeOK, Serving, semaphore, objects, ServerPC
    <3>2. Opened'
      BY <2>8 DEF PrintSegment, Goto, IInv, MsgTypeOK, Opened, Serving, ServerPC, objects
    <3>3. Fresh'
      BY <2>8 DEF PrintSegment, Goto, IInv, MsgTypeOK, Fresh, objects
    <3>4. Counted' /\ Exclusive'
      BY <2>8, MoveInside DEF PrintSegment, semaphore, objects
    <3> QED
      BY <3>1, <3>2, <3>3, <3>4 DEF IInv
  <2>9. CASE RemoveShm \/ RemoveMsq
    <3>1. PICK there \in {"rmmsq", "rmsem"} :
            /\ Goto(Server, IF there = "rmmsq" THEN "rmshm" ELSE "rmmsq", there)
            /\ shm' \in {shm, None} /\ msq' \in {msq, None} /\ queue' \in {queue, <<>>}
            /\ UNCHANGED <<starts, sem, stored, val, adj, at, cmd, sent, reset>>
      BY <2>9 DEF RemoveShm, RemoveMsq, semaphore
    <3>2. MsgTypeOK'
      <4>1. queue' \in Seq(Message)
        <5>1. queue \in Seq(Message) /\ <<>> \in Seq(Message)
          BY DEF IInv, MsgTypeOK
        <5> QED
          BY <3>1, <5>1
      <4>2. pc' \in [Procs -> ServerPC \union ClientPC] /\ ~Serving'
        BY <3>1 DEF Goto, IInv, MsgTypeOK, Serving, ServerPC
      <4> QED
        BY <3>1, <4>1, <4>2 DEF IInv, MsgTypeOK
    <3>3. Opened'
      BY <3>1 DEF Goto, IInv, MsgTypeOK, Opened, Serving, ServerPC
    <3>4. Fresh'
      BY <3>1 DEF Goto, IInv, MsgTypeOK, Fresh
    <3>5. Counted' /\ Exclusive'
      BY <3>1, MoveOutside
    <3> QED
      BY <3>2, <3>3, <3>4, <3>5 DEF IInv
  <2>10. CASE del_sem
    <3>1. MsgTypeOK'
      BY <2>10 DEF del_sem, Goto, IInv, MsgTypeOK, Serving, ServerPC
    <3>2. Opened'
      BY <2>10 DEF del_sem, Goto, IInv, MsgTypeOK, Opened, Serving, ServerPC
    <3>3. Fresh'
      BY <2>10 DEF del_sem, Goto, IInv, MsgTypeOK, Fresh
    <3>4. \A q \in Procs : ~Inside(q)'
      BY <2>10 DEF del_sem, Inside, Has
    <3>5. Counted' /\ Exclusive'
      BY <2>10, <3>4 DEF del_sem, Counted, Exclusive
    <3> QED
      BY <3>1, <3>2, <3>3, <3>5 DEF IInv
  <2>11. ASSUME NEW c \in Clients, ClientShmget(c) \/ ClientMsgget(c) \/ ClientSemget(c)
         PROVE  IInv'
    <3>1. PICK here \in {"new", "msgget", "semget"}, there \in {"gone", "msgget", "semget", "command"} :
            /\ Goto(c, here, there)
            /\ here = "new" => at' = [at EXCEPT ![c].shm = shm] /\ (there = "gone" \/ shm # None)
            /\ here = "msgget" => at' = [at EXCEPT ![c].msq = msq]
            /\ here = "semget" => at' = [at EXCEPT ![c].sem = sem]
            /\ UNCHANGED <<starts, objects, stored, queue, semaphore, cmd, sent, reset>>
      BY <2>11 DEF ClientShmget, ClientMsgget, ClientSemget
    <3>2. /\ at' \in [Clients -> [shm : Ids \union {None}, msq : Ids \union {None},
                                  sem : Ids \union {None}]]
          /\ \A d \in Clients : d # c => at'[d] = at[d]
          /\ at'[c].sem \in {at[c].sem, sem}
          /\ here # "semget" => at'[c].sem = at[c].sem
          /\ at'[c].shm = IF here = "new" THEN shm ELSE at[c].shm
      <4> DEFINE Id == Ids \union {None}
                 Known == [shm : Id, msq : Id, sem : Id]
      <4>1. at \in [Clients -> Known] /\ shm \in Id /\ msq \in Id /\ sem \in Id
        BY DEF IInv, MsgTypeOK
      <4> HIDE DEF Id
      <4>2. PICK known \in Known :
              /\ at' = [at EXCEPT ![c] = known]
              /\ known.sem \in {at[c].sem, sem}
              /\ here # "semget" => known.sem = at[c].sem
              /\ known.shm = IF here = "new" THEN shm ELSE at[c].shm
        <5>0. at[c] \in Known
          BY <4>1
        <5>1. CASE here = "new"
          <6>1. at' = [at EXCEPT ![c] = [at[c] EXCEPT !.shm = shm]]
            BY <3>1, <5>1
          <6> DEFINE k == [at[c] EXCEPT !.shm = shm]
          <6>2. k \in Known /\ k.sem = at[c].sem /\ k.shm = shm
            BY <4>1, <5>0
          <6>3. at' = [at EXCEPT ![c] = k]
            BY <6>1
          <6> HIDE DEF k, Known
          <6> QED
            BY <5>1, <6>3, <6>2
        <5>2. CASE here = "msgget"
          <6>1. at' = [at EXCEPT ![c] = [at[c] EXCEPT !.msq = msq]]
            BY <3>1, <5>2
          <6> DEFINE k == [at[c] EXCEPT !.msq = msq]
          <6>2. k \in Known /\ k.sem = at[c].sem /\ k.shm = at[c].shm
            BY <4>1, <5>0
          <6>3. at' = [at EXCEPT ![c] = k]
            BY <6>1
          <6> HIDE DEF k, Known
          <6> QED
            BY <5>2, <6>3, <6>2
        <5>3. CASE here = "semget"
          <6>1. at' = [at EXCEPT ![c] = [at[c] EXCEPT !.sem = sem]]
            BY <3>1, <5>3
          <6> DEFINE k == [at[c] EXCEPT !.sem = sem]
          <6>2. k \in Known /\ k.sem = sem /\ k.shm = at[c].shm
            BY <4>1, <5>0
          <6>3. at' = [at EXCEPT ![c] = k]
            BY <6>1
          <6> HIDE DEF k, Known
          <6> QED
            BY <5>3, <6>3, <6>2
        <5> QED
          BY <5>1, <5>2, <5>3
      <4> QED
        BY <4>1, <4>2 DEF Id
    <3>3. /\ pc' \in [Procs -> ServerPC \union ClientPC] /\ pc'[Server] = pc[Server]
          /\ \A d \in Clients : pc'[d] = IF d = c THEN there ELSE pc[d]
      BY <3>1 DEF Goto, IInv, MsgTypeOK, ClientPC
    <3>4. MsgTypeOK'
      BY <3>1, <3>2, <3>3 DEF IInv, MsgTypeOK, Serving, objects, semaphore
    <3>5. Opened'
      <4>1. ASSUME NEW d \in Clients
            PROVE  /\ pc'[d] \in ClientPC
                   /\ pc'[d] \notin {"new", "gone"} => at'[d].shm # None
                   /\ pc'[d] \in {"p", "inside", "v", "send"} => cmd'[d] >= 1
        <5>1. CASE d = c
          BY <3>1, <3>2, <3>3, <5>1 DEF Goto, IInv, Opened, ClientPC
        <5>2. CASE d # c
          BY <3>1, <3>2, <3>3, <5>2 DEF IInv, Opened
        <5> QED
          BY <5>1, <5>2
      <4> QED
        BY <3>1, <3>3, <4>1 DEF IInv, Opened, Serving, objects
    <3>6. Fresh'
      BY <3>1, <3>2, <3>3 DEF IInv, Fresh, objects
    <3>7. ASSUME NEW d \in Clients, d # c PROVE at'[d].sem = at[d].sem
      <4>1. at'[d] = at[d]
        BY <3>7, <3>2
      <4> QED
        BY <4>1
    <3>8. Counted' /\ Exclusive'
      BY <3>1, <3>7, MoveOutside DEF objects, semaphore
    <3> QED
      BY <3>4, <3>5, <3>6, <3>8 DEF IInv
  <2>12. ASSUME NEW c \in Clients, Command(c) PROVE IInv'
    <3>1. MsgTypeOK'
      BY <2>12 DEF Command, Goto, IInv, MsgTypeOK, Serving, objects, semaphore, ClientPC
    <3>2. Opened'
      <4>1. sent \in Nat /\ cmd' = [cmd EXCEPT ![c] = sent + 1] /\ at' = at
            /\ pc' = [pc EXCEPT ![c] = "p"] /\ pc[c] = "command" /\ pc'[Server] = pc[Server]
        BY <2>12 DEF Command, Goto, IInv, MsgTypeOK
      <4>2. ASSUME NEW d \in Clients
            PROVE  /\ pc'[d] \in ClientPC
                   /\ pc'[d] \notin {"new", "gone"} => at'[d].shm # None
                   /\ pc'[d] \in {"p", "inside", "v", "send"} => cmd'[d] >= 1
        <5>1. CASE d = c
          <6>1. cmd'[c] = sent + 1 /\ pc'[c] = "p" /\ at'[c] = at[c]
            BY <4>1 DEF IInv, MsgTypeOK
          <6>2. at[c].shm # None
            BY <4>1 DEF IInv, Opened
          <6> QED
            BY <4>1, <5>1, <6>1, <6>2 DEF ClientPC
        <5>2. CASE d # c
          BY <4>1, <5>2 DEF IInv, MsgTypeOK, Opened
        <5> QED
          BY <5>1, <5>2
      <4> QED
        BY <2>12, <4>1, <4>2 DEF Command, IInv, Opened, Serving, objects
    <3>3. Fresh'
      BY <2>12 DEF Command, Goto, IInv, MsgTypeOK, Fresh, objects
    <3>4. Counted' /\ Exclusive'
      BY <2>12, MoveOutside DEF Command, objects, semaphore
    <3> QED
      BY <3>1, <3>2, <3>3, <3>4 DEF IInv
  <2>13. ASSUME NEW c \in Clients, Write(c) PROVE IInv'
    <3>1. stored' \subseteq 1 .. MaxSends
      <4>1. cmd[c] \in 1 .. MaxSends
        BY <2>13 DEF Write, Goto, IInv, MsgTypeOK, Opened
      <4> QED
        BY <2>13, <4>1 DEF Write, IInv, MsgTypeOK
    <3>2. MsgTypeOK'
      BY <2>13, <3>1 DEF Write, Goto, IInv, MsgTypeOK, Serving, objects, semaphore, ClientPC
    <3>3. Opened'
      BY <2>13 DEF Write, Goto, IInv, MsgTypeOK, Opened, Serving, ClientPC, objects
    <3>4. Fresh'
      BY <2>13 DEF Write, Goto, IInv, MsgTypeOK, Fresh, objects
    <3>5. Counted' /\ Exclusive'
      BY <2>13, MoveInside DEF Write, objects, semaphore
    <3> QED
      BY <3>2, <3>3, <3>4, <3>5 DEF IInv
  <2>14. ASSUME NEW c \in Clients, Announce(c) PROVE IInv'
    <3>1. queue' \in Seq(Message)
      <4> DEFINE m == [mtext |-> "r", write |-> cmd'[c], shm |-> at[c].shm]
      <4>1. queue \in Seq(Message) /\ queue' \in {queue, Append(queue, m)}
        BY <2>14 DEF Announce, msgsnd, IInv, MsgTypeOK
      <4>2. m \in Message
        BY <2>14 DEF Announce, Goto, Message, IInv, MsgTypeOK, Opened
      <4> QED
        BY <4>1, <4>2
    <3>2. MsgTypeOK'
      BY <2>14, <3>1 DEF Announce, Goto, IInv, MsgTypeOK, Serving, objects, semaphore, ClientPC
    <3>3. Opened'
      BY <2>14 DEF Announce, Goto, IInv, MsgTypeOK, Opened, Serving, ClientPC, objects
    <3>4. Fresh'
      BY <2>14 DEF Announce, Goto, IInv, MsgTypeOK, Fresh, objects
    <3>5. Counted' /\ Exclusive'
      BY <2>14, MoveOutside DEF Announce, objects, semaphore
    <3> QED
      BY <3>2, <3>3, <3>4, <3>5 DEF IInv
  <2>15. ASSUME NEW p \in Procs, NEW there \in {"down", "gone"},
                there = "down" <=> p = Server,
                pc' = [pc EXCEPT ![p] = there], Undo(p), queue' \in Seq(Message),
                UNCHANGED <<starts, objects, stored, at, cmd, sent, reset>>
         PROVE  IInv'
    <3>1. val' \in Nat /\ adj' \in [Procs -> Int]
      BY <2>15 DEF Undo, IInv, MsgTypeOK
    <3>2. MsgTypeOK'
      BY <2>15, <3>1 DEF IInv, MsgTypeOK, Serving, objects, ServerPC, ClientPC
    <3>3. Opened'
      BY <2>15 DEF IInv, MsgTypeOK, Opened, Serving, ServerPC, ClientPC, objects
    <3>4. Fresh'
      BY <2>15 DEF IInv, MsgTypeOK, Fresh, objects
    <3>5. ASSUME NEW q \in Procs PROVE Inside(q)' <=> q # p /\ Inside(q)
      BY <2>15 DEF Inside, Has, semid, IInv, MsgTypeOK, objects
    <3>6. ASSUME ~reset, Inside(p)
          PROVE  /\ val = 0 /\ val' = 1
                 /\ \A q \in Procs : ~Inside(q)'
                 /\ \A q \in Procs : adj'[q] = 0
      <4>1. val = 0 /\ adj[p] = 1 /\ \A q \in Procs : Inside(q) => q = p
        BY <3>6 DEF IInv, Counted, Exclusive
      <4>2. \A q \in Procs : q # p => adj[q] = 0
        BY <3>6, <4>1 DEF IInv, Counted
      <4> QED
        BY <2>15, <3>5, <4>1, <4>2 DEF Undo, IInv, MsgTypeOK
    <3>7. ASSUME ~reset, ~Inside(p)
          PROVE  val' = val /\ \A q \in Procs : adj'[q] = adj[q] /\ (Inside(q)' <=> Inside(q))
      <4>1. adj[p] = 0
        BY <3>7 DEF IInv, Counted
      <4> QED
        BY <2>15, <3>5, <3>7, <4>1 DEF Undo, IInv, MsgTypeOK
    <3>8. Counted'
      BY <2>15, <3>6, <3>7 DEF IInv, Counted
    <3>9. Exclusive'
      BY <2>15, <3>5 DEF IInv, Exclusive
    <3> QED
      BY <3>2, <3>3, <3>4, <3>8, <3>9 DEF IInv
  <2>16. ASSUME NEW c \in Clients, QuitCommand(c) PROVE IInv'
    <3>1. queue' \in Seq(Message)
      <4> DEFINE m == [mtext |-> "q", write |-> cmd'[c], shm |-> at[c].shm]
      <4>1. queue \in Seq(Message) /\ queue' \in {queue, Append(queue, m)}
        BY <2>16 DEF QuitCommand, msgsnd, IInv, MsgTypeOK
      <4>2. m \in Message
        BY <2>16 DEF QuitCommand, Goto, Message, IInv, MsgTypeOK, Opened
      <4> QED
        BY <4>1, <4>2
    <3>2. pc' = [pc EXCEPT ![c] = "gone"] /\ Undo(c)
          /\ UNCHANGED <<starts, objects, stored, at, cmd, sent, reset>>
      BY <2>16 DEF QuitCommand, Goto
    <3> QED
      BY <3>1, <3>2, <2>15
  <2>17. ASSUME NEW p \in Procs, Crash(p) PROVE IInv'
    <3> DEFINE there == IF p = Server THEN "down" ELSE "gone"
    <3>1. /\ there \in {"down", "gone"} /\ (there = "down" <=> p = Server)
          /\ pc' = [pc EXCEPT ![p] = there] /\ Undo(p) /\ queue' \in Seq(Message)
          /\ UNCHANGED <<starts, objects, stored, at, cmd, sent, reset>>
      BY <2>17 DEF Crash, IInv, MsgTypeOK
    <3> HIDE DEF there
    <3> QED
      BY <3>1, <2>15
  <2> QED
    BY <2>0, <2>1, <2>2, <2>3, <2>4, <2>5, <2>6, <2>7, <2>8, <2>9, <2>10, <2>11, <2>12,
       <2>13, <2>14, <2>16, <2>17 DEF MsgNext, ServerStep, ClientStep
<1> QED
  BY <1>1, <1>2, PTL DEF MsgSpec

(* Every reachable state is typed: no read of an id is of an object that   *)
(* was never opened.                                                       *)
THEOREM SharedMsgTyping == MsgSpec => []MsgTypeOK
<1>1. IInv => MsgTypeOK
  BY DEF IInv
<1> QED
  BY <1>1, SharedMsgInductive, PTL

(* Whoever is killed wherever, two processes are never between sem_p and   *)
(* sem_v, unless a server was started over somebody inside (Server.c:92).  *)
THEOREM SegmentIsExclusive == MsgSpec => []Exclusive
<1>1. IInv => Exclusive
  BY DEF IInv
<1> QED
  BY <1>1, SharedMsgInductive, PTL

-----------------------------------------------------------------------------
(* While the server runs its loop the semaphore is free or taken.          *)
Free == ~reset /\ Serving => val = 1 \/ \E p \in Procs : Inside(p)

Within == {p \in Procs : Inside(p)}

(* A step that lets nobody in or out and does not begin the loop.          *)
LEMMA FreeKept ==
  ASSUME Free, UNCHANGED <<val, reset>>, Serving' => Serving,
         \A p \in Procs : Inside(p)' <=> Inside(p)
  PROVE  Free'
BY DEF Free

(* While the server serves, the semaphore is 1 or one process is inside it *)
(* (Server.c:81-130, Client.c:63-99): SEM_UNDO gives back exactly what a   *)
(* process that was killed had taken.                                      *)
THEOREM SemaphoreIsCounted == MsgSpec => []SemaphoreCounts
<1> USE SharedMsgAssumption DEF Procs, Ids
<1>1. MsgInit => Free
  BY DEF MsgInit, Free, Serving
<1>2. IInv /\ Free /\ [MsgNext]_msgVars => Free'
  <2> SUFFICES ASSUME IInv, Free, [MsgNext]_msgVars PROVE Free'
    OBVIOUS
  <2>a. MsgTypeOK /\ Opened /\ Counted
    BY DEF IInv
  <2>0. CASE UNCHANGED msgVars
    BY <2>0 DEF Free, Inside, Has, semid, Serving, msgVars, objects, semaphore
  <2>1. CASE ServerShmget \/ ServerMsgget \/ creat_sem \/ RemoveShm \/ RemoveMsq \/ del_sem
    <3>1. pc'[Server] \in {"msgget", "semget", "setval", "rmmsq", "rmsem", "down"}
      BY <2>1, <2>a DEF ServerShmget, ServerMsgget, creat_sem, RemoveShm, RemoveMsq, del_sem,
                        Goto, MsgTypeOK
    <3> QED
      BY <3>1 DEF Free, Serving
  <2>2. CASE init_sem
    BY <2>2 DEF init_sem, Free
  <2>3. CASE msgrcv
    <3> DEFINE there == IF Head(queue).mtext = "q" THEN "rmshm" ELSE "p"
    <3>1. /\ Goto(Server, "msgrcv", there) /\ there \in {"rmshm", "p"}
          /\ UNCHANGED <<sem, val, adj, reset, at>>
      BY <2>3 DEF msgrcv, objects, semaphore
    <3> HIDE DEF there
    <3>2. \A q \in Procs : Inside(q)' <=> Inside(q)
      BY <3>1, StaysOutside
    <3>3. Serving
      BY <3>1 DEF Goto, Serving
    <3> QED
      BY <3>1, <3>2, <3>3, FreeKept
  <2>4. ASSUME NEW p \in Procs, sem_p(p) PROVE Free'
    <3>1. /\ Goto(p, "p", "inside")
          /\ ~Has(p) => UNCHANGED val
          /\ UNCHANGED <<objects, at, reset>>
      BY <2>4 DEF sem_p, semaphore
    <3>2. Serving' => Serving
      BY <3>1, <2>a DEF Goto, MsgTypeOK, Serving
    <3>3. ASSUME NEW q \in Procs
          PROVE  /\ q # p => (Inside(q)' <=> Inside(q))
                 /\ ~Inside(p) /\ (Inside(p)' <=> Has(p))
      BY <3>1, <2>a DEF Goto, Inside, Has, semid, MsgTypeOK, objects
    <3>4. CASE Has(p)
      BY <3>3, <3>4 DEF Free
    <3>5. CASE ~Has(p)
      <4>1. \A q \in Procs : Inside(q)' <=> Inside(q)
        BY <3>3, <3>5
      <4> QED
        BY <3>1, <3>2, <3>5, <4>1, FreeKept
    <3> QED
      BY <3>4, <3>5
  <2>5. ASSUME NEW p \in Procs, sem_v(p) PROVE Free'
    <3>1. /\ Goto(p, "v", IF p = Server THEN "msgrcv" ELSE "send")
          /\ IF Has(p) THEN val' = val + 1 ELSE UNCHANGED val
          /\ UNCHANGED <<objects, at, reset>>
      BY <2>5 DEF sem_v, semaphore
    <3>2. Serving' => Serving
      BY <3>1, <2>a DEF Goto, MsgTypeOK, Serving
    <3>3. ASSUME NEW q \in Procs
          PROVE  /\ q # p => (Inside(q)' <=> Inside(q))
                 /\ ~Inside(p)' /\ (Inside(p) <=> Has(p))
      BY <3>1, <2>a DEF Goto, Inside, Has, semid, MsgTypeOK, objects
    <3>4. CASE Has(p)
      <4>1. ~reset => val = 0
        BY <3>3, <3>4, <2>a DEF Counted
      <4> QED
        BY <3>1, <3>4, <4>1 DEF Free
    <3>5. CASE ~Has(p)
      <4>1. \A q \in Procs : Inside(q)' <=> Inside(q)
        BY <3>3, <3>5
      <4> QED
        BY <3>1, <3>2, <3>5, <4>1, FreeKept
    <3> QED
      BY <3>4, <3>5
  <2>6. ASSUME NEW p \in Procs, Goto(p, "inside", "v"),
               UNCHANGED <<sem, val, adj, reset, at>>
        PROVE  Free'
    <3>1. \A q \in Procs : Inside(q)' <=> Inside(q)
      BY <2>6, StaysInside
    <3>2. Serving' => Serving
      BY <2>6, <2>a DEF Goto, MsgTypeOK, Serving
    <3> QED
      BY <2>6, <3>1, <3>2, FreeKept
  <2>7. ASSUME NEW c \in Clients, NEW here, NEW there, Goto(c, here, there),
               here \notin {"inside", "v"}, there \notin {"inside", "v"},
               UNCHANGED <<sem, val, adj, reset>>,
               \A d \in Clients : d # c => at'[d].sem = at[d].sem
        PROVE  Free'
    <3>1. \A q \in Procs : Inside(q)' <=> Inside(q)
      BY <2>7, StaysOutside
    <3>2. pc'[Server] = pc[Server]
      BY <2>7, <2>a DEF Goto, MsgTypeOK
    <3>3. Serving' => Serving
      BY <3>2 DEF Serving
    <3> QED
      BY <2>7, <3>1, <3>3, FreeKept
  <2>8. ASSUME NEW c \in Clients, ClientShmget(c) \/ ClientMsgget(c) \/ ClientSemget(c)
        PROVE  Free'
    <3>1. PICK here \in {"new", "msgget", "semget"}, there \in {"gone", "msgget", "semget", "command"} :
            /\ Goto(c, here, there)
            /\ \/ at' = [at EXCEPT ![c].shm = shm]
               \/ at' = [at EXCEPT ![c].msq = msq]
               \/ at' = [at EXCEPT ![c].sem = sem]
            /\ UNCHANGED <<sem, val, adj, reset>>
      BY <2>8 DEF ClientShmget, ClientMsgget, ClientSemget, objects, semaphore
    <3>2. \A d \in Clients : d # c => at'[d] = at[d]
      BY <3>1, <2>a DEF MsgTypeOK
    <3>3. \A d \in Clients : d # c => at'[d].sem = at[d].sem
      BY <3>2
    <3> QED
      BY <3>1, <3>3, <2>7
  <2>9. ASSUME NEW c \in Clients, Command(c) PROVE Free'
    BY <2>9, <2>7 DEF Command, objects, semaphore
  <2>10. ASSUME NEW c \in Clients, Announce(c) PROVE Free'
    BY <2>10, <2>7 DEF Announce, objects, semaphore
  <2>11. ASSUME NEW p \in Procs, NEW there \in {"down", "gone"},
                pc' = [pc EXCEPT ![p] = there], Undo(p), UNCHANGED <<sem, at, reset>>
         PROVE  Free'
    <3>1. ASSUME NEW q \in Procs PROVE Inside(q)' <=> q # p /\ Inside(q)
      BY <2>11, <2>a DEF Inside, Has, semid, MsgTypeOK
    <3>2. Serving' => Serving
      BY <2>11, <2>a DEF MsgTypeOK, Serving
    <3>3. ASSUME ~reset, Inside(p) PROVE val' = 1
      <4>1. val = 0 /\ adj[p] = 1
        BY <3>3, <2>a DEF Counted
      <4> QED
        BY <2>11, <4>1 DEF Undo
    <3>4. ASSUME ~reset, ~Inside(p)
          PROVE  val' = val /\ \A q \in Procs : Inside(q)' <=> Inside(q)
      <4>1. adj[p] = 0 /\ val \in Nat
        BY <3>4, <2>a DEF Counted, MsgTypeOK
      <4> QED
        BY <2>11, <3>1, <3>4, <4>1 DEF Undo
    <3> QED
      BY <2>11, <3>2, <3>3, <3>4 DEF Free
  <2>12. ASSUME NEW c \in Clients, QuitCommand(c) PROVE Free'
    <3>1. pc' = [pc EXCEPT ![c] = "gone"] /\ Undo(c) /\ UNCHANGED <<sem, at, reset>>
      BY <2>12 DEF QuitCommand, Goto, objects
    <3> QED
      BY <3>1, <2>11
  <2>13. ASSUME NEW p \in Procs, Crash(p) PROVE Free'
    <3> DEFINE there == IF p = Server THEN "down" ELSE "gone"
    <3>1. /\ there \in {"down", "gone"} /\ pc' = [pc EXCEPT ![p] = there]
          /\ Undo(p) /\ UNCHANGED <<sem, at, reset>>
      BY <2>13 DEF Crash, objects
    <3> HIDE DEF there
    <3> QED
      BY <3>1, <2>11
  <2>14. CASE PrintSegment
    BY <2>14, <2>6 DEF PrintSegment, objects, semaphore
  <2>15. ASSUME NEW c \in Clients, Write(c) PROVE Free'
    BY <2>15, <2>6 DEF Write, objects, semaphore
  <2> QED
    BY <2>0, <2>1, <2>2, <2>3, <2>4, <2>5, <2>8, <2>9, <2>10, <2>12, <2>13, <2>14, <2>15
    DEF MsgNext, ServerStep, ClientStep
<1>3. IInv /\ Free => SemaphoreCounts
  <2> SUFFICES ASSUME IInv, Free, ~reset, Serving PROVE val + Cardinality(Within) = 1
    BY DEF SemaphoreCounts, Within
  <2>1. CASE \E p \in Procs : Inside(p)
    <3>1. PICK p \in Procs : Inside(p)
      BY <2>1
    <3>2. Within = {p}
      BY <3>1 DEF Within, IInv, Exclusive
    <3>3. Cardinality(Within) = 1
      BY <3>2, FS_Singleton
    <3>4. val = 0
      BY <3>1 DEF IInv, Counted
    <3> QED
      BY <3>3, <3>4
  <2>2. CASE ~\E p \in Procs : Inside(p)
    <3>1. Within = {}
      BY <2>2 DEF Within
    <3>2. Cardinality(Within) = 0
      BY <3>1, FS_EmptySet
    <3> QED
      BY <3>2, <2>2 DEF Free
  <2> QED
    BY <2>1, <2>2
<1> QED
  BY <1>1, <1>2, <1>3, SharedMsgInductive, PTL DEF MsgSpec

-----------------------------------------------------------------------------
(* A segment is of a run of the server that has begun, wherever its id is. *)
Segments ==
  /\ shm # None => shm <= starts
  /\ \A c \in Clients : at[c].shm # None => at[c].shm <= starts
  /\ \A i \in 1 .. Len(queue) : queue[i].shm <= starts

(* A client that is past its write has made it, in the segment it has.     *)
Written ==
  \A c \in Clients :
    pc[c] \in {"v", "send"} /\ at[c].shm = shm => cmd[c] \in stored

(* The queue, numbered and typed.                                          *)
LEMMA QueueTyped ==
  ASSUME MsgTypeOK
  PROVE  /\ Len(queue) \in Nat /\ DOMAIN queue = 1 .. Len(queue)
         /\ \A i \in 1 .. Len(queue) : queue[i] \in Message
BY DEF MsgTypeOK

(* What a step that only takes messages away leaves.                       *)
LEMMA FewerMessages ==
  ASSUME MsgTypeOK, Segments, AnnouncedIsStored, UNCHANGED <<starts, shm, stored>>,
         queue' = queue \/ queue' = <<>> \/ (queue # <<>> /\ queue' = Tail(queue))
  PROVE  /\ \A i \in 1 .. Len(queue') : queue'[i].shm <= starts
         /\ AnnouncedIsStored'
<1>1. CASE queue' = queue
  BY <1>1 DEF Segments, AnnouncedIsStored
<1>2. CASE queue' = <<>>
  <2>1. Len(queue') = 0 /\ DOMAIN queue' = {}
    BY <1>2
  <2> QED
    BY <2>1 DEF AnnouncedIsStored
<1>3. CASE queue # <<>> /\ queue' = Tail(queue)
  <2>1. queue \in Seq(Message)
    BY DEF MsgTypeOK
  <2>2. /\ Len(queue) \in Nat /\ Len(queue) >= 1 /\ Len(queue') = Len(queue) - 1
        /\ DOMAIN queue' = 1 .. Len(queue) - 1
        /\ \A i \in 1 .. Len(queue) - 1 : queue'[i] = queue[i + 1]
    BY <1>3, <2>1
  <2>3. \A i \in 1 .. Len(queue) - 1 : i + 1 \in 1 .. Len(queue)
    BY <2>2
  <2>4. \A i \in 1 .. Len(queue') : queue'[i].shm <= starts
    BY <2>2, <2>3 DEF Segments
  <2>5. AnnouncedIsStored'
    BY <2>2, <2>3, QueueTyped DEF AnnouncedIsStored
  <2> QED
    BY <2>4, <2>5
<1> QED
  BY <1>1, <1>2, <1>3

(* msgsnd adds at most one message, at the end (Client.c:88-97).            *)
LEMMA OneMoreMessage ==
  ASSUME MsgTypeOK, Segments, AnnouncedIsStored, UNCHANGED <<starts, shm, stored>>,
         NEW m, m \in Message, m.shm <= starts,
         m.mtext = "r" /\ m.shm = shm => m.write \in stored,
         queue' = queue \/ queue' = Append(queue, m)
  PROVE  /\ \A i \in 1 .. Len(queue') : queue'[i].shm <= starts
         /\ AnnouncedIsStored'
<1>1. CASE queue' = queue
  BY <1>1, FewerMessages
<1>2. CASE queue' = Append(queue, m)
  <2>1. queue \in Seq(Message)
    BY DEF MsgTypeOK
  <2>2. /\ Len(queue) \in Nat /\ Len(queue') = Len(queue) + 1
        /\ DOMAIN queue' = 1 .. Len(queue) + 1 /\ queue'[Len(queue) + 1] = m
        /\ \A i \in 1 .. Len(queue) : queue'[i] = queue[i]
    BY <1>2, <2>1
  <2>3. \A i \in 1 .. Len(queue') : queue'[i].shm <= starts
    BY <2>2 DEF Segments
  <2>4. AnnouncedIsStored'
    BY <2>2, QueueTyped DEF AnnouncedIsStored
  <2> QED
    BY <2>3, <2>4
<1> QED
  BY <1>1, <1>2

(* An 'r' in the queue stands for a write that has been made, unless it is *)
(* of the segment of an earlier server (Client.c:63-97, Server.c:108-130).  *)
THEOREM AnnouncementsAreStored == MsgSpec => []AnnouncedIsStored
<1> USE SharedMsgAssumption DEF Procs, Ids
<1>1. MsgInit => Segments /\ Written /\ AnnouncedIsStored
  <2> SUFFICES ASSUME MsgInit PROVE Segments /\ Written /\ AnnouncedIsStored
    OBVIOUS
  <2>1. Len(queue) = 0 /\ DOMAIN queue = {}
    BY DEF MsgInit
  <2>2. \A c \in Clients : pc[c] = "new" /\ at[c].shm = None
    BY DEF MsgInit
  <2> QED
    BY <2>1, <2>2 DEF MsgInit, Segments, Written, AnnouncedIsStored
<1>2. IInv /\ IInv' /\ Segments /\ Written /\ AnnouncedIsStored /\ [MsgNext]_msgVars
        => Segments' /\ Written' /\ AnnouncedIsStored'
  <2> SUFFICES ASSUME IInv, IInv', Segments, Written, AnnouncedIsStored, [MsgNext]_msgVars
               PROVE  Segments' /\ Written' /\ AnnouncedIsStored'
    OBVIOUS
  <2>a. MsgTypeOK /\ MsgTypeOK' /\ Opened
    BY DEF IInv
  <2>b. \A c \in Clients : at[c].shm \in Ids \union {None} /\ at'[c].shm \in Ids \union {None}
    BY <2>a DEF MsgTypeOK
  <2>1. ASSUME UNCHANGED <<starts, stored, at, cmd>>, shm' \in {shm, None},
               queue' = queue \/ queue' = <<>> \/ (queue # <<>> /\ queue' = Tail(queue)),
               shm' = shm \/ queue' = queue,
               \A c \in Clients : pc'[c] \in {"v", "send"} => pc[c] \in {"v", "send"}
        PROVE  Segments' /\ Written' /\ AnnouncedIsStored'
    <3>1. CASE shm' = shm
      <4>1. (\A i \in 1 .. Len(queue') : queue'[i].shm <= starts) /\ AnnouncedIsStored'
        BY <2>1, <3>1, <2>a, FewerMessages
      <4> QED
        BY <2>1, <3>1, <4>1 DEF Segments, Written
    <3>2. CASE shm' = None /\ queue' = queue
      <4>1. \A i \in DOMAIN queue : queue[i].shm # None
        BY <2>a, QueueTyped DEF Message
      <4>2. AnnouncedIsStored'
        BY <3>2, <4>1 DEF AnnouncedIsStored
      <4>3. Written'
        BY <2>1, <3>2, <2>a DEF Written, Opened
      <4> QED
        BY <2>1, <3>2, <4>2, <4>3 DEF Segments
    <3> QED
      BY <2>1, <3>1, <3>2
  <2>3. ASSUME NEW c \in Clients, NEW text \in {"r", "q"}, msgsnd(c, text), UNCHANGED cmd,
               pc' = [pc EXCEPT ![c] = IF text = "r" THEN "command" ELSE "gone"],
               text = "r" => pc[c] = "send", pc[c] \in {"send", "command"},
               UNCHANGED <<starts, shm, stored, at>>
        PROVE  Segments' /\ Written' /\ AnnouncedIsStored'
    <3> DEFINE m == [mtext |-> text, write |-> cmd[c], shm |-> at[c].shm]
    <3>1. queue' = queue \/ queue' = Append(queue, m)
      BY <2>3 DEF msgsnd
    <3>2. at[c].shm # None /\ at[c].shm \in Ids /\ cmd[c] \in 0 .. MaxSends
      BY <2>3, <2>a, <2>b DEF Opened, MsgTypeOK
    <3>3. m \in Message /\ m.shm <= starts
      BY <3>2 DEF Message, Segments
    <3>4. m.mtext = "r" /\ m.shm = shm => m.write \in stored
      BY <2>3 DEF Written
    <3> HIDE DEF m
    <3>5. (\A i \in 1 .. Len(queue') : queue'[i].shm <= starts) /\ AnnouncedIsStored'
      BY <2>3, <2>a, <3>1, <3>3, <3>4, OneMoreMessage
    <3>6. \A d \in Clients : pc'[d] \in {"v", "send"} => pc[d] \in {"v", "send"}
      BY <2>3, <2>a DEF MsgTypeOK
    <3> QED
      BY <2>3, <3>5, <3>6 DEF Segments, Written
  <2>4. CASE UNCHANGED msgVars
    BY <2>4, <2>1 DEF msgVars, objects, semaphore
  <2>5. CASE ServerShmget
    <3>1. /\ UNCHANGED <<queue, at, cmd>> /\ starts' = starts + 1 /\ starts \in Nat
          /\ shm' = (IF shm = None THEN starts + 1 ELSE shm)
          /\ shm' = shm => stored' = stored
          /\ \A c \in Clients : pc'[c] = pc[c]
      BY <2>5, <2>a DEF ServerShmget, Goto, MsgTypeOK
    <3>2. CASE shm = None
      <4>1. Len(queue) \in Nat /\ \A i \in 1 .. Len(queue) : queue[i].shm \in Nat
        BY <2>a, QueueTyped DEF Message
      <4>2. \A i \in 1 .. Len(queue) : queue[i].shm # shm' /\ queue[i].shm <= starts'
        BY <3>1, <3>2, <4>1 DEF Segments
      <4>3. \A c \in Clients : at[c].shm # shm' /\ (at[c].shm # None => at[c].shm <= starts')
        BY <3>1, <3>2, <2>b DEF Segments
      <4>4. AnnouncedIsStored'
        BY <3>1, <4>2, <2>a, QueueTyped DEF AnnouncedIsStored
      <4> QED
        BY <3>1, <3>2, <4>2, <4>3, <4>4 DEF Segments, Written
    <3>3. CASE shm # None
      <4>1. UNCHANGED <<shm, stored>>
        BY <3>1, <3>3
      <4>2. shm \in Nat /\ \A i \in 1 .. Len(queue) : queue[i].shm \in Nat
        <5>1. shm \in Ids
          BY <3>3, <2>a DEF MsgTypeOK
        <5> QED
          BY <5>1, <2>a, QueueTyped DEF Message
      <4>3. Segments'
        BY <3>1, <4>1, <4>2, <2>b DEF Segments
      <4> QED
        BY <3>1, <4>1, <4>3 DEF Written, AnnouncedIsStored
    <3> QED
      BY <3>2, <3>3
  <2>6. CASE ServerMsgget \/ creat_sem \/ init_sem \/ PrintSegment \/ RemoveShm \/ del_sem
    <3>1. /\ UNCHANGED <<starts, stored, at, cmd, queue>> /\ shm' \in {shm, None}
          /\ \A c \in Clients : pc'[c] = pc[c]
      BY <2>6, <2>a DEF ServerMsgget, creat_sem, init_sem, PrintSegment, RemoveShm, del_sem, Goto,
                        objects, MsgTypeOK
    <3> QED
      BY <3>1, <2>1
  <2>7. CASE msgrcv \/ RemoveMsq
    <3>1. /\ UNCHANGED <<starts, stored, at, cmd, shm>>
          /\ queue' = <<>> \/ (queue # <<>> /\ queue' = Tail(queue))
          /\ \A c \in Clients : pc'[c] = pc[c]
      BY <2>7, <2>a DEF msgrcv, RemoveMsq, Goto, objects, MsgTypeOK
    <3> QED
      BY <3>1, <2>1
  <2>8. ASSUME NEW p \in Procs, sem_p(p) \/ sem_v(p) PROVE Segments' /\ Written' /\ AnnouncedIsStored'
    <3>1. /\ UNCHANGED <<starts, shm, stored, at, cmd, queue>>
          /\ \A c \in Clients : c # p => pc'[c] = pc[c]
          /\ \/ pc[p] = "p" /\ pc'[p] = "inside"
             \/ pc[p] = "v" /\ pc'[p] \in {"msgrcv", "send"}
      BY <2>8, <2>a DEF sem_p, sem_v, Goto, objects, MsgTypeOK
    <3> QED
      BY <3>1, <2>1
  <2>9. ASSUME NEW c \in Clients, ClientShmget(c) \/ ClientMsgget(c) \/ ClientSemget(c)
        PROVE  Segments' /\ Written' /\ AnnouncedIsStored'
    <3>1. /\ UNCHANGED <<starts, shm, stored, cmd, queue>>
          /\ \/ at' = [at EXCEPT ![c].shm = shm]
             \/ at' = [at EXCEPT ![c].msq = msq]
             \/ at' = [at EXCEPT ![c].sem = sem]
          /\ pc'[c] \in {"gone", "msgget", "semget", "command"}
          /\ \A d \in Clients : d # c => pc'[d] = pc[d]
      BY <2>9, <2>a DEF ClientShmget, ClientMsgget, ClientSemget, Goto, objects, MsgTypeOK
    <3>2. /\ \A d \in Clients : d # c => at'[d] = at[d]
          /\ at'[c].shm \in {shm, at[c].shm}
      <4> DEFINE Id == Ids \union {None}
      <4>1. at \in [Clients -> [shm : Id, msq : Id, sem : Id]]
        BY <2>a DEF MsgTypeOK
      <4> HIDE DEF Id
      <4>2. at[c] \in [shm : Id, msq : Id, sem : Id] /\ c \in DOMAIN at
        BY <4>1
      <4>3. CASE at' = [at EXCEPT ![c].shm = shm]
        BY <4>1, <4>2, <4>3
      <4>4. CASE at' = [at EXCEPT ![c].msq = msq]
        BY <4>1, <4>2, <4>4
      <4>5. CASE at' = [at EXCEPT ![c].sem = sem]
        BY <4>1, <4>2, <4>5
      <4> QED
        BY <3>1, <4>3, <4>4, <4>5
    <3>3. Segments'
      BY <3>1, <3>2 DEF Segments
    <3>4. \A d \in Clients : d # c => at'[d].shm = at[d].shm
      BY <3>2
    <3>5. Written'
      BY <3>1, <3>4 DEF Written
    <3> QED
      BY <3>1, <3>3, <3>5 DEF AnnouncedIsStored
  <2>10. ASSUME NEW c \in Clients, Command(c) PROVE Segments' /\ Written' /\ AnnouncedIsStored'
    <3>1. /\ UNCHANGED <<starts, shm, stored, at, queue>> /\ pc' = [pc EXCEPT ![c] = "p"]
          /\ \A d \in Clients : d # c => cmd'[d] = cmd[d]
      BY <2>10, <2>a DEF Command, Goto, objects, MsgTypeOK
    <3>2. \A d \in Clients : pc'[d] = IF d = c THEN "p" ELSE pc[d]
      BY <3>1, <2>a DEF MsgTypeOK
    <3>3. Written'
      BY <3>1, <3>2 DEF Written
    <3> QED
      BY <3>1, <3>3 DEF Segments, AnnouncedIsStored
  <2>11. ASSUME NEW c \in Clients, Write(c) PROVE Segments' /\ Written' /\ AnnouncedIsStored'
    <3>1. /\ UNCHANGED <<starts, shm, at, cmd, queue>>
          /\ stored' = IF at[c].shm = shm THEN stored \union {cmd[c]} ELSE stored
          /\ \A d \in Clients : pc'[d] = IF d = c THEN "v" ELSE pc[d]
      BY <2>11, <2>a DEF Write, Goto, objects, MsgTypeOK
    <3> QED
      BY <3>1 DEF Segments, Written, AnnouncedIsStored
  <2>12. ASSUME NEW c \in Clients, Announce(c) PROVE Segments' /\ Written' /\ AnnouncedIsStored'
    BY <2>12, <2>3 DEF Announce, Goto, objects
  <2>13. ASSUME NEW c \in Clients, QuitCommand(c) PROVE Segments' /\ Written' /\ AnnouncedIsStored'
    BY <2>13, <2>3 DEF QuitCommand, Goto, objects
  <2>14. ASSUME NEW p \in Procs, Crash(p) PROVE Segments' /\ Written' /\ AnnouncedIsStored'
    <3>1. /\ UNCHANGED <<starts, shm, stored, at, cmd, queue>>
          /\ \A c \in Clients : pc'[c] = pc[c] \/ pc'[c] = "gone"
      BY <2>14, <2>a DEF Crash, objects, MsgTypeOK
    <3> QED
      BY <3>1, <2>1
  <2> QED
    BY <2>4, <2>5, <2>6, <2>7, <2>8, <2>9, <2>10, <2>11, <2>12, <2>13, <2>14
    DEF MsgNext, ServerStep, ClientStep
<1> QED
  BY <1>1, <1>2, SharedMsgInductive, PTL DEF MsgSpec

====
