---- MODULE PipeProofs ----
(***************************************************************************)
(* The framing of the pipe for every number and length of posts, every     *)
(* size of header, buffer and cache, and every way the stream is cut.      *)
(*                                                                         *)
(* The argument counts positions in the stream, what is in the client's    *)
(* cache followed by what is in the pipe: at[i] is how many bytes of the   *)
(* stream were written up to the end of the i-th accepted post, and        *)
(* written is how many of these have been written whole.  A write that     *)
(* fails takes the post behind them out of accepted and changes no place.  *)
(* That no byte is lost follows from the same positions: the packages of   *)
(* the posts up to there, joined, are the stream.                          *)
(***************************************************************************)
EXTENDS Pipe, SequenceTheorems, FiniteSetTheorems, WellFoundedInduction, TLAPS

Stream(k) ==
  IF k <= Len(m_bufferCache) THEN m_bufferCache[k] ELSE bytes[k - Len(m_bufferCache)]

(* From a place on the stream holds the package of a post.                 *)
Holds(n, place) ==
  \A j \in 1 .. PACKGE_HEADER_SIZE + size[n] : Stream(place + j) = <<n, j>>

(* The stream is the packages of the posts after the last one handled, one *)
(* after the other, up to the last one written.                            *)
Framed(written, at) ==
  /\ handled <= written /\ written <= Len(accepted)
  /\ at[written] = at[handled] + Len(m_bufferCache) + Len(bytes)
  /\ \A i, j \in handled .. written : i <= j => at[i] <= at[j]
  /\ \A i \in handled + 1 .. written :
       /\ at[i] = at[i - 1] + PACKGE_HEADER_SIZE + size[accepted[i]]
       /\ Holds(accepted[i], at[i - 1] - at[handled])

(* While the pipe is not closed the posts that are not written yet are, in *)
(* order, in the hand of the writer and in its queue; WM_QUIT is the last. *)
Waiting(written) ==
  pipe # "closed" =>
    LET before == written + Len(data) IN
    /\ before <= Len(accepted)
    /\ \A i \in 1 .. Len(data) : data[i] = accepted[written + i]
    /\ \A i \in 1 .. Len(messages) :
         messages[i] # Quit => /\ before + i <= Len(accepted)
                               /\ messages[i] = accepted[before + i]
    /\ Len(accepted) <= before + Len(messages)
    /\ Len(messages) > 0 /\ messages[Len(messages)] = Quit
         => Len(accepted) < before + Len(messages)

(* Before a client is connected nothing is accepted, and WM_QUIT is in the *)
(* queue only once the destructor has run.                                 *)
Stages ==
  /\ server = "start" => writer = "none"
  /\ writer \in {"none", "create"} => pipe = "none"
  /\ writer \in {"connect", "waiting"} => pipe # "none"
  /\ writer \in {"queue", "get", "write"} => pipe \in {"open", "closed"}
  /\ accepted # <<>> => pipe \in {"open", "closed"}
  /\ ~HasQueue => messages = <<>>
  /\ \A i \in 1 .. Len(messages) :
       messages[i] = Quit => server = "closing" /\ i = Len(messages)

(* After HandleData what is left in the cache is less than a package.      *)
Gathered ==
  /\ reader \in {"start", "create", "read"} => Len(m_bufferCache) < BUFFER_MAX_LEN
  /\ ~m_funcCallback => delivered = <<>>

(* A post is accepted once, so that a failed write leaves out just one.    *)
Ascending ==
  \A i, j \in 1 .. Len(accepted) : i < j => accepted[i] < accepted[j]

Positions == [Nat -> Nat]

IInv ==
  /\ TypeOK /\ Stages /\ Gathered /\ Ascending /\ Framing
  /\ \E written \in Nat, at \in Positions : Framed(written, at) /\ Waiting(written)

-----------------------------------------------------------------------------
(* The numbers the sequences of a typed state come to.                     *)
LEMMA Numbers ==
  ASSUME TypeOK
  PROVE  /\ Len(size) \in Nat /\ Len(accepted) \in Nat /\ Len(messages) \in Nat
         /\ Len(data) \in Nat /\ Len(bytes) \in Nat /\ Len(m_bufferCache) \in Nat
         /\ Len(delivered) \in Nat /\ handled \in Nat
         /\ DOMAIN delivered = 1 .. Len(delivered)
         /\ \A n \in 1 .. Len(size) : size[n] \in Sizes /\ size[n] \in Nat
         /\ \A i \in 1 .. Len(accepted) : accepted[i] \in 1 .. Len(size)
<1> USE PipeAssumption
<1>1. size \in Seq(Sizes) /\ bytes \in Seq(Byte) /\ m_bufferCache \in Seq(Byte)
  BY DEF TypeOK
<1>2. Len(size) \in Nat /\ \A n \in 1 .. Len(size) : size[n] \in Sizes
  BY <1>1
<1>3. accepted \in Seq(1 .. Len(size))
  BY DEF TypeOK
<1>4. Len(accepted) \in Nat /\ \A i \in 1 .. Len(accepted) : accepted[i] \in 1 .. Len(size)
  BY <1>3
<1>5. messages \in Seq(Posts \union {Quit}) /\ data \in Seq(Posts) /\ delivered \in Seq(Seq(Byte))
  BY DEF TypeOK
<1> DEFINE Bytes == Seq(Byte)
<1>6. Len(delivered) \in Nat /\ DOMAIN delivered = 1 .. Len(delivered)
  <2> HIDE DEF Bytes
  <2>1. delivered \in Seq(Bytes)
    BY <1>5 DEF Bytes
  <2> QED
    BY <2>1
<1>7. Len(bytes) \in Nat /\ Len(m_bufferCache) \in Nat /\ Len(messages) \in Nat /\ Len(data) \in Nat
  <2> HIDE DEF Byte
  <2> QED
    BY <1>1, <1>5
<1> QED
  BY <1>2, <1>4, <1>6, <1>7 DEF TypeOK

(* Of these, the lengths alone.                                            *)
LEMMA Lengths ==
  ASSUME TypeOK
  PROVE  /\ Len(size) \in Nat /\ Len(accepted) \in Nat /\ Len(messages) \in Nat
         /\ Len(data) \in Nat /\ Len(bytes) \in Nat /\ Len(m_bufferCache) \in Nat
         /\ Len(delivered) \in Nat /\ handled \in Nat
BY Numbers

(* A package is its header and its body, numbered (Package.cpp:17-27).      *)
LEMMA PackageIs ==
  ASSUME NEW n, size[n] \in Nat
  PROVE  /\ Package(n) \in Seq({n} \X (1 .. PACKGE_HEADER_SIZE + size[n]))
         /\ Len(Package(n)) = PACKGE_HEADER_SIZE + size[n]
         /\ \A i \in 1 .. PACKGE_HEADER_SIZE + size[n] : Package(n)[i] = <<n, i>>
BY PipeAssumption DEF Package

(* The lengths of posts are never changed, so neither is a package.        *)
LEMMA PackageKept ==
  ASSUME NEW n, size'[n] = size[n]
  PROVE  Package(n)' = Package(n) /\ Body(n)' = Body(n)
BY DEF Package, Body

(* A step that leaves the stream and the posts written alone.              *)
LEMMA StreamKept ==
  ASSUME TypeOK, TypeOK', NEW w \in Nat, NEW at \in Positions, Framed(w, at),
         UNCHANGED <<handled, m_bufferCache, bytes>>,
         w <= Len(accepted'), \A i \in 1 .. w : accepted'[i] = accepted[i],
         \A n \in 1 .. Len(size) : size'[n] = size[n]
  PROVE  Framed(w, at)'
<1>1. handled <= w /\ w <= Len(accepted) /\ handled \in Nat /\ Len(accepted) \in Nat
      /\ Len(accepted') \in Nat
  BY Numbers DEF Framed, TypeOK
<1>2. \A i \in handled + 1 .. w : i \in 1 .. Len(accepted) /\ i \in 1 .. w
  BY <1>1
<1>3. \A i \in handled + 1 .. w : accepted'[i] = accepted[i] /\ size'[accepted[i]] = size[accepted[i]]
  BY <1>2, Numbers
<1>4. \A k : Stream(k)' = Stream(k)
  BY DEF Stream
<1>5. ASSUME NEW i \in handled + 1 .. w
      PROVE  /\ at[i] = at[i - 1] + PACKGE_HEADER_SIZE + size'[accepted'[i]]
             /\ Holds(accepted[i], at[i - 1] - at[handled])'
  <2>1. PICK n : n = accepted[i] /\ n = accepted'[i] /\ size'[n] = size[n]
    BY <1>3
  <2>2. PICK k : k = at[i - 1] - at[handled] /\ k = at[i - 1] - at[handled']
    OBVIOUS
  <2>3. at[i] = at[i - 1] + PACKGE_HEADER_SIZE + size[n] /\ Holds(n, k)
    BY <2>1, <2>2 DEF Framed
  <2>4. Holds(n, k)'
    BY <1>4, <2>1, <2>3 DEF Holds
  <2> QED
    BY <2>1, <2>2, <2>3, <2>4
<1>6. \A i, j \in handled .. w : i <= j => at[i] <= at[j]
  BY DEF Framed
<1>7. at[w] = at[handled] + Len(m_bufferCache) + Len(bytes)
  BY DEF Framed
<1> QED
  BY <1>1, <1>5, <1>6, <1>7 DEF Framed

(* Such a step leaves what was delivered alone too.                        *)
LEMMA FramingKept ==
  ASSUME TypeOK, Framing, UNCHANGED <<handled, delivered>>,
         handled <= Len(accepted'), \A i \in 1 .. handled : accepted'[i] = accepted[i],
         \A n \in 1 .. Len(size) : size'[n] = size[n]
  PROVE  Framing'
<1>1. handled' <= Len(accepted')
  OBVIOUS
<1>2. ASSUME NEW i \in DOMAIN delivered
      PROVE  delivered'[i] = Body(accepted[handled - Len(delivered) + i])'
  <2> DEFINE k == handled - Len(delivered) + i
  <2>1. k \in 1 .. Len(accepted) /\ k \in 1 .. handled
    <3>1. handled <= Len(accepted) /\ Len(delivered) <= handled
      BY DEF Framing, TypeOK
    <3> QED
      BY <3>1, Numbers
  <2>2. PICK n : n = accepted[k] /\ n = accepted'[k] /\ n \in 1 .. Len(size)
    BY <2>1, Numbers
  <2>3. Body(n)' = Body(n)
    BY <2>2, PackageKept
  <2>4. delivered[i] = Body(n)
    BY <2>2 DEF Framing
  <2> QED
    BY <2>2, <2>3, <2>4
<1> QED
  BY <1>1, <1>2 DEF Framing

(* A cache that holds a header begins with the package of the post after   *)
(* the last one handled, whole or not.                                     *)
LEMMA FirstPackage ==
  ASSUME TypeOK, NEW w \in Nat, NEW at \in Positions, Framed(w, at),
         Len(m_bufferCache) >= PACKGE_HEADER_SIZE
  PROVE  LET n == accepted[handled + 1] IN
         /\ handled < w /\ n \in 1 .. Len(size) /\ DataSizes = {size[n]}
         /\ \A j \in 1 .. PACKGE_HEADER_SIZE + size[n] :
              j <= Len(m_bufferCache) => m_bufferCache[j] = <<n, j>>
<1> USE PipeAssumption
<1>0. /\ handled \in Nat /\ Len(m_bufferCache) \in Nat /\ Len(bytes) \in Nat
      /\ at[handled] \in Nat /\ Len(accepted) \in Nat
  BY Numbers DEF Positions
<1>1. handled < w
  BY <1>0 DEF Framed
<1>2. handled + 1 \in 1 .. Len(accepted) /\ handled + 1 \in handled + 1 .. w
  BY <1>0, <1>1 DEF Framed
<1> DEFINE n == accepted[handled + 1]
<1>3. n \in 1 .. Len(size) /\ size[n] \in Nat
  BY <1>2, Numbers
<1>4. \A j \in 1 .. PACKGE_HEADER_SIZE + size[n] : Stream(j) = <<n, j>>
  <2>1. PICK i \in handled + 1 .. w : i = handled + 1
    BY <1>2
  <2>2. Holds(accepted[i], at[i - 1] - at[handled])
    BY DEF Framed
  <2>3. Holds(n, 0)
    <3>1. i - 1 = handled /\ at[i - 1] - at[handled] = 0
      BY <1>0, <2>1
    <3> QED
      BY <2>1, <2>2, <3>1
  <2> HIDE DEF n
  <2> QED
    BY <2>3 DEF Holds
<1>5. \A j \in 1 .. PACKGE_HEADER_SIZE + size[n] :
        j <= Len(m_bufferCache) => m_bufferCache[j] = <<n, j>>
  BY <1>4 DEF Stream
<1>6. DataSizes = {size[n]}
  <2>1. ASSUME NEW i \in 1 .. PACKGE_HEADER_SIZE
        PROVE  m_bufferCache[i] = <<n, i>>
    <3> HIDE DEF n
    <3>1. i \in 1 .. PACKGE_HEADER_SIZE + size[n] /\ i <= Len(m_bufferCache)
      BY <1>0, <1>3
    <3> QED
      BY <1>5, <3>1
  <2>2. m_bufferCache[1][1] = n
    BY <2>1
  <2> QED
    BY <2>1, <2>2 DEF DataSizes
<1> QED
  BY <1>1, <1>3, <1>5, <1>6

-----------------------------------------------------------------------------
(* The stream goes up to the last byte in the pipe.                        *)
LEMMA InStream ==
  ASSUME TypeOK, NEW w \in Nat, NEW at \in Positions, Framed(w, at),
         NEW i \in handled + 1 .. w
  PROVE  /\ accepted[i] \in 1 .. Len(size) /\ size[accepted[i]] \in Nat
         /\ at[i - 1] \in Nat /\ at[i] \in Nat /\ at[handled] \in Nat /\ at[w] \in Nat
         /\ at[handled] <= at[i - 1] /\ at[i] <= at[w]
         /\ \A j \in 1 .. PACKGE_HEADER_SIZE + size[accepted[i]] :
              (at[i - 1] - at[handled]) + j \in 1 .. Len(m_bufferCache) + Len(bytes)
<1>1. /\ handled \in Nat /\ i - 1 \in Nat /\ i \in Nat /\ i \in 1 .. Len(accepted)
      /\ i - 1 \in handled .. w /\ i \in handled .. w /\ handled \in handled .. w
      /\ w \in handled .. w
  BY Numbers DEF Framed
<1>2. accepted[i] \in 1 .. Len(size) /\ size[accepted[i]] \in Nat
  BY <1>1, Numbers
<1>3. at[i - 1] \in Nat /\ at[i] \in Nat /\ at[handled] \in Nat /\ at[w] \in Nat
  BY <1>1 DEF Positions
<1>4. at[handled] <= at[i - 1] /\ at[i] <= at[w]
  BY <1>1 DEF Framed
<1>5. PICK before \in Nat, start \in Nat, end \in Nat, last \in Nat, all \in Nat, long \in Nat :
        /\ before = at[handled] /\ start = at[i - 1] /\ end = at[i] /\ last = at[w]
        /\ all = Len(m_bufferCache) + Len(bytes)
        /\ long = PACKGE_HEADER_SIZE + size[accepted[i]]
  <2>1. PACKGE_HEADER_SIZE + size[accepted[i]] \in Nat
    BY <1>2, PipeAssumption
  <2>2. Len(m_bufferCache) + Len(bytes) \in Nat
    BY Lengths
  <2> QED
    BY <1>3, <2>1, <2>2
<1>6. /\ at[i] = at[i - 1] + PACKGE_HEADER_SIZE + size[accepted[i]]
      /\ at[w] = at[handled] + Len(m_bufferCache) + Len(bytes)
  BY DEF Framed
<1>7. PACKGE_HEADER_SIZE \in Nat /\ Len(m_bufferCache) \in Nat /\ Len(bytes) \in Nat
  BY Lengths, PipeAssumption
<1>8. end = start + long
  <2>1. PICK s \in Nat : s = size[accepted[i]]
    BY <1>2
  <2>2. end = start + PACKGE_HEADER_SIZE + s /\ long = PACKGE_HEADER_SIZE + s
    BY <1>5, <1>6, <2>1
  <2> QED
    BY <1>7, <2>2
<1>9. last = before + all
  BY <1>1, <1>3, <1>5, <1>6, <1>7 DEF Positions
<1>10. before <= start /\ end <= last
  BY <1>4, <1>5
<1>11. \A j \in 1 .. long : (start - before) + j \in 1 .. all
  BY <1>8, <1>9, <1>10
<1> QED
  BY <1>2, <1>3, <1>4, <1>5, <1>11

(* What ReadFile takes from the pipe goes to the end of the cache.         *)
LEMMA ReadKeeps ==
  ASSUME TypeOK, NEW w \in Nat, NEW at \in Positions, Framed(w, at), ReadFile
  PROVE  /\ m_bufferCache' \in Seq(Byte) /\ bytes' \in Seq(Byte)
         /\ Len(m_bufferCache') <= Len(m_bufferCache) + BUFFER_MAX_LEN
         /\ Framed(w, at)'
<1>0. Len(bytes) \in Nat /\ Len(m_bufferCache) \in Nat
  BY Lengths
<1>1. PICK n \in 1 .. BUFFER_MAX_LEN :
        /\ n <= Len(bytes)
        /\ m_bufferCache' = m_bufferCache \o SubSeq(bytes, 1, n)
        /\ bytes' = SubSeq(bytes, n + 1, Len(bytes))
  BY DEF ReadFile
<1>a. n \in Nat /\ 1 <= n /\ n <= BUFFER_MAX_LEN /\ n <= Len(bytes) /\ BUFFER_MAX_LEN \in Nat
  BY <1>1, PipeAssumption
<1>2. UNCHANGED <<size, accepted, handled>>
  BY DEF ReadFile, serverVars
<1>3. bytes \in Seq(Byte) /\ m_bufferCache \in Seq(Byte)
  BY DEF TypeOK
<1>4. /\ SubSeq(bytes, 1, n) \in Seq(Byte) /\ Len(SubSeq(bytes, 1, n)) = n
      /\ \A k \in 1 .. n : SubSeq(bytes, 1, n)[k] = bytes[k]
  <2> HIDE DEF Byte
  <2>1. \A k \in 1 .. n : bytes[k] \in Byte
    BY <1>0, <1>a, <1>3, ElementOfSeq
  <2> QED
    BY <1>a, <2>1, SubSeqProperties
<1>5. /\ bytes' \in Seq(Byte) /\ Len(bytes') = Len(bytes) - n
      /\ \A k \in 1 .. Len(bytes) - n : bytes'[k] = bytes[n + k]
  <2>1. \A k \in n + 1 .. Len(bytes) : bytes[k] \in Byte
    BY <1>0, <1>a, <1>3, ElementOfSeq
  <2>2. Len(bytes) \in Nat /\ n \in Nat /\ n + 1 \in Int /\ Len(bytes) \in Int
    BY <1>0, <1>a
  <2>3. /\ bytes' \in Seq(Byte)
        /\ Len(bytes') = IF n + 1 <= Len(bytes) THEN Len(bytes) - (n + 1) + 1 ELSE 0
        /\ \A k \in 1 .. Len(bytes) - (n + 1) + 1 : bytes'[k] = bytes[(n + 1) + k - 1]
    BY <1>1, <2>1, <2>2, SubSeqProperties
  <2> QED
    BY <1>0, <1>a, <2>2, <2>3
<1>6. /\ m_bufferCache' \in Seq(Byte) /\ Len(m_bufferCache') = Len(m_bufferCache) + n
      /\ \A k \in 1 .. Len(m_bufferCache) + n : m_bufferCache'[k] =
           IF k <= Len(m_bufferCache) THEN m_bufferCache[k] ELSE bytes[k - Len(m_bufferCache)]
  <2>1. /\ m_bufferCache' \in Seq(Byte)
        /\ Len(m_bufferCache') = Len(m_bufferCache) + Len(SubSeq(bytes, 1, n))
        /\ \A k \in 1 .. Len(m_bufferCache) + Len(SubSeq(bytes, 1, n)) :
             m_bufferCache'[k] = IF k <= Len(m_bufferCache) THEN m_bufferCache[k]
                                   ELSE SubSeq(bytes, 1, n)[k - Len(m_bufferCache)]
    BY <1>1, <1>3, <1>4, ConcatProperties
  <2> QED
    BY <1>0, <1>a, <1>4, <2>1
<1>7. \A k \in 1 .. Len(m_bufferCache) + Len(bytes) : Stream(k)' = Stream(k)
  <2> SUFFICES ASSUME NEW k \in 1 .. Len(m_bufferCache) + Len(bytes) PROVE Stream(k)' = Stream(k)
    OBVIOUS
  <2>1. CASE k <= Len(m_bufferCache) + n
    BY <1>0, <1>a, <1>6, <2>1 DEF Stream
  <2>2. CASE k > Len(m_bufferCache) + n
    <3>1. PICK cached \in Nat, m \in Nat : cached = Len(m_bufferCache) /\ m = k - (cached + n)
      BY <1>0, <1>a, <2>2
    <3>2. m \in 1 .. Len(bytes) - n
      BY <1>0, <1>a, <2>2, <3>1
    <3>3. k - Len(m_bufferCache') = m /\ ~(k <= Len(m_bufferCache'))
      BY <1>0, <1>a, <1>6, <2>2, <3>1
    <3>4. k - Len(m_bufferCache) = n + m /\ ~(k <= Len(m_bufferCache))
      BY <1>0, <1>a, <2>2, <3>1
    <3>5. Stream(k)' = bytes'[m] /\ Stream(k) = bytes[n + m]
      BY <3>3, <3>4 DEF Stream
    <3> QED
      BY <1>5, <3>2, <3>5
  <2> QED
    BY <1>0, <1>a, <2>1, <2>2
<1>8. ASSUME NEW i \in handled + 1 .. w
      PROVE  /\ at[i] = at[i - 1] + PACKGE_HEADER_SIZE + size[accepted[i]]
             /\ Holds(accepted[i], at[i - 1] - at[handled])'
  <2>1. PICK p : p = accepted[i] /\ p = accepted'[i] /\ size'[p] = size[p]
    BY <1>2
  <2>2. PICK k : k = at[i - 1] - at[handled] /\ k = at[i - 1] - at[handled']
    BY <1>2
  <2>3. at[i] = at[i - 1] + PACKGE_HEADER_SIZE + size[p] /\ Holds(p, k)
    BY <2>1, <2>2 DEF Framed
  <2>4. at[w] = at[handled] + Len(m_bufferCache) + Len(bytes)
    BY DEF Framed
  <2>5. \A j \in 1 .. PACKGE_HEADER_SIZE + size[p] :
          k + j \in 1 .. Len(m_bufferCache) + Len(bytes)
    BY <2>1, <2>2, InStream
  <2>6. Holds(p, k)'
    BY <1>7, <2>1, <2>3, <2>5 DEF Holds
  <2> QED
    BY <2>1, <2>2, <2>3, <2>6
<1>9. at[w] = at[handled] + Len(m_bufferCache') + Len(bytes')
  <2>1. at[w] = at[handled] + Len(m_bufferCache) + Len(bytes) /\ handled \in Nat
    BY Lengths DEF Framed
  <2>2. at[w] \in Nat /\ at[handled] \in Nat
    BY <2>1 DEF Positions
  <2> QED
    BY <1>0, <1>a, <1>5, <1>6, <2>1, <2>2
<1>10. Framed(w, at)'
  BY <1>2, <1>8, <1>9 DEF Framed
<1> QED
  BY <1>0, <1>a, <1>5, <1>6, <1>10

(* A write puts the package of a post at the end of the stream.            *)
LEMMA WriteStream ==
  ASSUME TypeOK, bytes' = bytes \o Package(Head(data)), UNCHANGED <<size, m_bufferCache>>,
         NEW n \in 1 .. Len(size), n = Head(data),
         NEW long \in Nat, long = PACKGE_HEADER_SIZE + size[n], long <= BUFFER_MAX_LEN,
         NEW end \in Nat, end = Len(m_bufferCache) + Len(bytes)
  PROVE  /\ bytes' \in Seq(Byte) /\ Len(bytes') = Len(bytes) + long
         /\ \A k \in 1 .. end : Stream(k)' = Stream(k)
         /\ \A k \in 1 .. long : Stream(end + k)' = <<n, k>>
<1>1. Len(bytes) \in Nat /\ Len(m_bufferCache) \in Nat /\ Len(size) \in Nat
  BY Lengths
<1>2. bytes' = bytes \o Package(n) /\ UNCHANGED <<size, m_bufferCache>>
  OBVIOUS
<1>3. bytes \in Seq(Byte) /\ Len(size) <= MaxPosts
  BY DEF TypeOK
<1>4. Package(n) \in Seq(Byte) /\ Len(Package(n)) = long /\ \A k \in 1 .. long : Package(n)[k] = <<n, k>>
  <2>1. n \in Posts
    BY <1>1, <1>3, PipeAssumption DEF Posts
  <2>2. {n} \X (1 .. long) \subseteq Byte
    BY <2>1, PipeAssumption DEF Byte
  <2>3. size[n] \in Nat
    BY Numbers
  <2>4. Package(n) \in Seq({n} \X (1 .. long))
    BY <2>3, PackageIs
  <2>5. Package(n) \in Seq(Byte)
    BY <2>2, <2>4, SeqMonotonic
  <2> QED
    BY <2>3, <2>5, PackageIs
<1>5. /\ bytes' \in Seq(Byte) /\ Len(bytes') = Len(bytes) + long
      /\ \A k \in 1 .. Len(bytes) + long :
           bytes'[k] = IF k <= Len(bytes) THEN bytes[k] ELSE Package(n)[k - Len(bytes)]
  <2> HIDE DEF Byte
  <2>1. /\ bytes' \in Seq(Byte) /\ Len(bytes') = Len(bytes) + Len(Package(n))
        /\ \A k \in 1 .. Len(bytes) + Len(Package(n)) :
             bytes'[k] = IF k <= Len(bytes) THEN bytes[k] ELSE Package(n)[k - Len(bytes)]
    BY <1>2, <1>3, <1>4, ConcatProperties
  <2> QED
    BY <1>4, <2>1
<1>6. PICK cached \in Nat, piped \in Nat : cached = Len(m_bufferCache) /\ piped = Len(bytes)
  BY <1>1
<1>7. cached = Len(m_bufferCache') /\ end = cached + piped
  BY <1>2, <1>6
<1>8. ASSUME NEW k \in 1 .. end PROVE Stream(k)' = Stream(k)
  <2>1. CASE k <= cached
    BY <1>2, <1>6, <1>7, <2>1 DEF Stream
  <2>2. CASE ~(k <= cached)
    <3>1. PICK m \in 1 .. piped : m = k - cached
      <4>1. k \in Nat /\ k <= cached + piped /\ k > cached
        BY <1>7, <2>2
      <4>2. k - cached \in 1 .. piped
        BY <4>1
      <4> QED
        BY <4>2
    <3>2. bytes'[m] = bytes[m]
      <4>1. m \in 1 .. Len(bytes) + long /\ m <= Len(bytes)
        <5>1. m \in 1 .. piped + long /\ m <= piped
          OBVIOUS
        <5> QED
          BY <1>6, <5>1
      <4> QED
        BY <1>5, <4>1
    <3>3. Stream(k)' = bytes'[m] /\ Stream(k) = bytes[m]
      BY <1>6, <1>7, <2>2, <3>1 DEF Stream
    <3> QED
      BY <3>2, <3>3
  <2> QED
    BY <2>1, <2>2
<1>9. ASSUME NEW k \in 1 .. long PROVE Stream(end + k)' = <<n, k>>
  <2>1. PICK m \in 1 .. piped + long : m = piped + k /\ m - piped = k /\ ~(m <= piped)
    OBVIOUS
  <2>2. bytes'[m] = <<n, k>>
    BY <1>4, <1>5, <1>6, <2>1
  <2>3. PICK q \in Nat : q = end + k
    OBVIOUS
  <2>4. q - cached = m /\ ~(q <= cached)
    BY <1>7, <2>1, <2>3
  <2>5. Stream(q)' = bytes'[m]
    BY <1>7, <2>4 DEF Stream
  <2> QED
    BY <2>2, <2>3, <2>5
<1> QED
  BY <1>5, <1>8, <1>9

(* The post that is written is the next one of the stream.                 *)
LEMMA WriteExtends ==
  ASSUME TypeOK, NEW w \in Nat, NEW at \in Positions, Framed(w, at),
         bytes' = bytes \o Package(Head(data)),
         UNCHANGED <<size, accepted, m_bufferCache, handled>>,
         w < Len(accepted), Head(data) = accepted[w + 1]
  PROVE  bytes' \in Seq(Byte) /\ \E longer \in Positions : Framed(w + 1, longer)'
<1>1. /\ Len(bytes) \in Nat /\ Len(m_bufferCache) \in Nat /\ Len(accepted) \in Nat
      /\ Len(size) \in Nat /\ PACKGE_HEADER_SIZE \in Nat
  BY Lengths, PipeAssumption
<1>2. PICK h \in Nat : h = handled /\ h = handled'
  BY Lengths
<1>3. UNCHANGED <<size, accepted, m_bufferCache>>
  OBVIOUS
<1>4. PICK n \in 1 .. Len(size) : n = Head(data) /\ n = accepted[w + 1]
  <2>1. w + 1 \in 1 .. Len(accepted)
    BY <1>1
  <2> QED
    BY <2>1, Numbers
<1>5. size[n] \in Nat /\ PACKGE_HEADER_SIZE + size[n] <= BUFFER_MAX_LEN
  BY Numbers, PipeAssumption
<1>6. PICK long \in Nat : long = PACKGE_HEADER_SIZE + size[n] /\ long <= BUFFER_MAX_LEN
  BY <1>1, <1>5
<1>7. PICK end \in Nat : end = Len(m_bufferCache) + Len(bytes)
  BY <1>1
<1>8. /\ bytes' \in Seq(Byte) /\ Len(bytes') = Len(bytes) + long
      /\ \A k \in 1 .. end : Stream(k)' = Stream(k)
      /\ \A k \in 1 .. long : Stream(end + k)' = <<n, k>>
  BY <1>4, <1>6, <1>7, WriteStream
<1>9. h <= w /\ h \in h .. w /\ w \in h .. w /\ h \in 0 .. w
  BY <1>2 DEF Framed
<1>10. at[h] \in Nat /\ at[w] \in Nat
  BY DEF Positions
<1>11. at[w] = at[h] + end /\ at[w] - at[h] = end
  <2>1. at[w] = at[h] + Len(m_bufferCache) + Len(bytes)
    BY <1>2 DEF Framed
  <2>2. PICK a \in Nat, b \in Nat, cached \in Nat, piped \in Nat :
          a = at[h] /\ b = at[w] /\ cached = Len(m_bufferCache) /\ piped = Len(bytes)
    BY <1>1, <1>10
  <2>3. b = a + cached + piped /\ end = cached + piped
    BY <1>7, <2>1, <2>2
  <2>4. b = a + end /\ b - a = end
    BY <2>3
  <2> QED
    BY <2>2, <2>4
<1>12. PICK longer \in Positions : longer[w + 1] = at[w] + long /\ \A i \in 0 .. w : longer[i] = at[i]
  <2>1. at[w] + long \in Nat /\ w + 1 \in Nat
    BY <1>10
  <2>2. [at EXCEPT ![w + 1] = at[w] + long] \in Positions
    BY <2>1 DEF Positions
  <2>3. \A i \in 0 .. w : i \in Nat /\ i # w + 1
    OBVIOUS
  <2>4. [at EXCEPT ![w + 1] = at[w] + long][w + 1] = at[w] + long
    BY <2>1 DEF Positions
  <2>5. \A i \in 0 .. w : [at EXCEPT ![w + 1] = at[w] + long][i] = at[i]
    BY <2>3 DEF Positions
  <2> QED
    BY <2>2, <2>4, <2>5
<1>13. longer[h] = at[h] /\ longer[w] = at[w]
  BY <1>9, <1>12
<1>14. ASSUME NEW i \in h + 1 .. w + 1
       PROVE  /\ longer[i] = longer[i - 1] + PACKGE_HEADER_SIZE + size'[accepted'[i]]
              /\ Holds(accepted[i], longer[i - 1] - longer[handled])'
  <2>1. CASE i = w + 1
    <3>1. accepted[i] = n /\ accepted'[i] = n /\ size'[n] = size[n] /\ i - 1 = w
      BY <1>3, <1>4, <2>1
    <3>2. longer[i - 1] - longer[handled'] = end
      BY <1>2, <1>11, <1>13, <3>1
    <3>3. Holds(n, end)'
      BY <1>6, <1>8, <3>1 DEF Holds
    <3>4. longer[i] = longer[i - 1] + PACKGE_HEADER_SIZE + size[n]
      <4>1. PICK a \in Nat, s \in Nat : a = longer[i - 1] /\ s = size[n]
        BY <1>5, <1>10, <1>13, <3>1
      <4>2. longer[i] = a + long /\ long = PACKGE_HEADER_SIZE + s
        BY <1>6, <1>12, <1>13, <2>1, <3>1, <4>1
      <4>3. PICK p \in Nat : p = PACKGE_HEADER_SIZE
        BY <1>1
      <4>4. a + (p + s) = a + p + s
        OBVIOUS
      <4> QED
        BY <4>1, <4>2, <4>3, <4>4
    <3> QED
      BY <3>1, <3>2, <3>3, <3>4
  <2>2. CASE i # w + 1
    <3>1. i \in h + 1 .. w /\ i \in handled + 1 .. w /\ i \in 0 .. w /\ i - 1 \in 0 .. w
      <4>1. i \in Nat /\ h + 1 <= i /\ i <= w + 1 /\ i # w + 1 /\ h <= w
        BY <1>9, <2>2
      <4>2. i \in h + 1 .. w /\ i \in 0 .. w /\ i - 1 \in 0 .. w
        BY <4>1
      <4> QED
        BY <1>2, <4>2
    <3>2. PICK p : p = accepted[i] /\ p = accepted'[i] /\ size'[p] = size[p]
      BY <1>3
    <3>3. longer[i] = at[i] /\ longer[i - 1] = at[i - 1]
      BY <1>12, <3>1
    <3>4. PICK k : /\ k = at[i - 1] - at[handled] /\ k = longer[i - 1] - longer[handled']
      BY <1>2, <1>13, <3>3
    <3>5. at[i] = at[i - 1] + PACKGE_HEADER_SIZE + size[p] /\ Holds(p, k)
      BY <3>1, <3>2, <3>4 DEF Framed
    <3>6. \A j \in 1 .. PACKGE_HEADER_SIZE + size[p] : k + j \in 1 .. end
      BY <1>7, <3>1, <3>2, <3>4, InStream
    <3>7. Holds(p, k)'
      BY <1>8, <3>2, <3>5, <3>6 DEF Holds
    <3> QED
      BY <3>2, <3>3, <3>4, <3>5, <3>7
  <2> QED
    BY <2>1, <2>2
<1>15. ASSUME NEW i \in h .. w + 1, NEW j \in h .. w + 1, i <= j
       PROVE  longer[i] <= longer[j]
  <2>1. \A k \in h .. w : longer[k] = at[k] /\ at[k] \in Nat /\ at[k] <= at[w]
    <3>1. \A k \in h .. w : k \in 0 .. w /\ k \in Nat /\ k <= w
      BY <1>9
    <3>2. \A k \in h .. w : at[k] <= at[w]
      BY <1>2, <1>9, <3>1 DEF Framed
    <3> QED
      BY <1>12, <3>1, <3>2 DEF Positions
  <2>2. CASE j # w + 1
    <3>1. i \in h .. w /\ j \in h .. w
      <4>1. i \in Nat /\ j \in Nat /\ h <= i /\ i <= j /\ h <= j /\ j <= w + 1 /\ j # w + 1
        BY <1>15, <2>2
      <4> QED
        BY <4>1
    <3>2. at[i] <= at[j]
      BY <1>2, <3>1, <1>15 DEF Framed
    <3> QED
      BY <2>1, <3>1, <3>2
  <2>3. CASE j = w + 1 /\ i # w + 1
    <3>1. i \in h .. w
      BY <1>9, <2>3
    <3>2. longer[i] <= at[w] /\ longer[i] \in Nat
      BY <2>1, <3>1
    <3>3. PICK a \in Nat, b \in Nat : a = longer[i] /\ b = at[w] /\ longer[j] = b + long
      BY <1>10, <1>12, <2>3, <3>2
    <3> QED
      BY <3>2, <3>3
  <2>4. CASE i = w + 1 /\ j = w + 1
    <3>1. PICK a \in Nat : a = longer[i] /\ a = longer[j]
      BY <1>10, <1>12, <2>4
    <3> QED
      BY <3>1
  <2> QED
    BY <2>2, <2>3, <2>4
<1>16. longer[w + 1] = longer[h] + Len(m_bufferCache') + Len(bytes')
  <2>1. PICK a \in Nat, cached \in Nat, piped \in Nat :
          a = at[h] /\ cached = Len(m_bufferCache) /\ piped = Len(bytes)
    BY <1>1, <1>10
  <2>2. at[w] = a + (cached + piped)
    BY <1>7, <1>11, <2>1
  <2>3. Len(m_bufferCache') = cached /\ Len(bytes') = piped + long
    BY <1>3, <1>8, <2>1
  <2>4. (a + (cached + piped)) + long = a + cached + (piped + long)
    OBVIOUS
  <2> QED
    BY <1>12, <1>13, <2>1, <2>2, <2>3, <2>4
<1>17. h <= w + 1 /\ w + 1 <= Len(accepted')
  BY <1>1, <1>3, <1>9
<1>18. Framed(w + 1, longer)'
  <2>1. PICK v \in Nat : v = w + 1
    OBVIOUS
  <2> QED
    BY <1>2, <1>14, <1>15, <1>16, <1>17 DEF Framed
<1> QED
  BY <1>8, <1>18

-----------------------------------------------------------------------------
(* What is cut out of a sequence after its first m elements.               *)
LEMMA Part ==
  ASSUME NEW S, NEW s \in Seq(S), NEW m \in Nat, NEW n \in Nat, m <= n, n <= Len(s)
  PROVE  /\ SubSeq(s, m + 1, n) \in Seq(S) /\ Len(SubSeq(s, m + 1, n)) = n - m
         /\ \A k \in 1 .. n - m : SubSeq(s, m + 1, n)[k] = s[m + k]
<1>1. \A k \in m + 1 .. n : s[k] \in S
  <2>1. \A k \in m + 1 .. n : k \in 1 .. Len(s)
    OBVIOUS
  <2> QED
    BY <2>1, ElementOfSeq
<1>2. /\ SubSeq(s, m + 1, n) \in Seq(S)
      /\ Len(SubSeq(s, m + 1, n)) = IF m + 1 <= n THEN n - (m + 1) + 1 ELSE 0
      /\ \A k \in 1 .. n - (m + 1) + 1 : SubSeq(s, m + 1, n)[k] = s[(m + 1) + k - 1]
  <2>1. m + 1 \in Int /\ n \in Int
    OBVIOUS
  <2> QED
    BY <1>1, <2>1, SubSeqProperties
<1> QED
  BY <1>2

(* HandleData cuts the package of the post after the last one handled.     *)
LEMMA HandleCuts ==
  ASSUME TypeOK, NEW w \in Nat, NEW at \in Positions, Framed(w, at), HandleData,
         NEW n, n = accepted[handled + 1]
  PROVE  /\ handled < w /\ n \in 1 .. Len(size)
         /\ PACKGE_HEADER_SIZE + size[n] <= Len(m_bufferCache)
         /\ m_bufferCache' =
              SubSeq(m_bufferCache, PACKGE_HEADER_SIZE + size[n] + 1, Len(m_bufferCache))
         /\ Body(n) \in Seq(Byte) /\ Deliver(Body(n))
<1>1. Len(m_bufferCache) >= PACKGE_HEADER_SIZE
  BY DEF HandleData
<1>2. /\ handled < w /\ n \in 1 .. Len(size) /\ DataSizes = {size[n]}
      /\ \A j \in 1 .. PACKGE_HEADER_SIZE + size[n] :
           j <= Len(m_bufferCache) => m_bufferCache[j] = <<n, j>>
  BY <1>1, FirstPackage
<1>3. PICK s \in Nat : s = size[n]
  BY <1>2, Numbers
<1>4. /\ Complete(s)
      /\ Deliver(SubSeq(m_bufferCache, PACKGE_HEADER_SIZE + 1, PACKGE_HEADER_SIZE + s))
      /\ m_bufferCache' = SubSeq(m_bufferCache, PACKGE_HEADER_SIZE + s + 1, Len(m_bufferCache))
  BY <1>2, <1>3 DEF HandleData
<1>5. PICK h \in Nat, long \in Nat : h = PACKGE_HEADER_SIZE /\ long = h + s /\ h <= long /\ long - h = s
  BY PipeAssumption
<1>6. long <= Len(m_bufferCache)
  BY <1>4, <1>5, Lengths DEF Complete
<1>7. m_bufferCache \in Seq(Byte)
  BY DEF TypeOK
<1>8. Package(n) \in Seq({n} \X (1 .. long)) /\ Len(Package(n)) = long
      /\ \A i \in 1 .. long : Package(n)[i] = <<n, i>>
  BY <1>3, <1>5, PackageIs
<1>9. Package(n) \in Seq(Byte)
  <2>1. {n} \X (1 .. long) \subseteq Byte
    <3>1. n \in Posts
      <4>1. Len(size) <= MaxPosts
        BY DEF TypeOK
      <4> QED
        BY <1>2, <4>1, Lengths, PipeAssumption DEF Posts
    <3>2. long <= BUFFER_MAX_LEN
      BY <1>2, <1>3, <1>5, Numbers, PipeAssumption
    <3> QED
      BY <3>1, <3>2, PipeAssumption DEF Byte
  <2> QED
    BY <1>8, <2>1, SeqMonotonic
<1>10. SubSeq(m_bufferCache, h + 1, long) = SubSeq(Package(n), h + 1, long)
       /\ SubSeq(Package(n), h + 1, long) \in Seq(Byte)
  <2> HIDE DEF Byte
  <2> DEFINE one == SubSeq(m_bufferCache, h + 1, long)
             two == SubSeq(Package(n), h + 1, long)
  <2>1. one \in Seq(Byte) /\ Len(one) = s /\ \A k \in 1 .. s : one[k] = m_bufferCache[h + k]
    BY <1>5, <1>6, <1>7, Part
  <2>2. two \in Seq(Byte) /\ Len(two) = s /\ \A k \in 1 .. s : two[k] = Package(n)[h + k]
    BY <1>5, <1>8, <1>9, Part
  <2>3. \A k \in 1 .. s : m_bufferCache[h + k] = Package(n)[h + k]
    <3>1. \A j \in 1 .. long : m_bufferCache[j] = Package(n)[j]
      <4>1. \A j \in 1 .. long : j <= Len(m_bufferCache)
        BY <1>6, Lengths
      <4> QED
        BY <1>2, <1>3, <1>5, <1>8, <4>1
    <3>2. \A k \in 1 .. s : h + k \in 1 .. long
      BY <1>5
    <3> QED
      BY <3>1, <3>2
  <2> HIDE DEF one, two
  <2>4. one = two
    BY <2>1, <2>2, <2>3, SeqEqual
  <2> QED
    BY <2>2, <2>4 DEF one, two
<1>11. Body(n) = SubSeq(Package(n), h + 1, long)
  BY <1>3, <1>5 DEF Body
<1> QED
  BY <1>2, <1>3, <1>4, <1>5, <1>6, <1>10, <1>11

(* What is left in the cache and the pipe is the stream from the end of    *)
(* that package on.                                                        *)
LEMMA HandleShifts ==
  ASSUME TypeOK, NEW w \in Nat, NEW at \in Positions, Framed(w, at), HandleData
  PROVE  /\ m_bufferCache' \in Seq(Byte) /\ Len(m_bufferCache') <= Len(m_bufferCache)
         /\ Framed(w, at)'
<1> DEFINE n == accepted[handled + 1]
<1>1. PICK h \in Nat, head \in Nat : h = handled /\ head = PACKGE_HEADER_SIZE
  BY Lengths, PipeAssumption
<1>2. /\ h < w /\ n \in 1 .. Len(size)
      /\ head + size[n] <= Len(m_bufferCache)
      /\ m_bufferCache' = SubSeq(m_bufferCache, head + size[n] + 1, Len(m_bufferCache))
      /\ Deliver(Body(n))
  BY <1>1, HandleCuts
<1> HIDE DEF n
<1>a. PICK s \in Nat, cached \in Nat, piped \in Nat :
        s = size[n] /\ cached = Len(m_bufferCache) /\ piped = Len(bytes)
  BY <1>2, Lengths, Numbers
<1>3. PICK long \in Nat, rest \in Nat : /\ long = head + s /\ long <= cached
                                       /\ rest = cached - long /\ cached = long + rest
  <2>1. head + s <= cached
    BY <1>2, <1>a
  <2> QED
    BY <2>1
<1>4. handled' = h + 1 /\ UNCHANGED <<size, accepted, bytes>>
  BY <1>1, <1>2 DEF HandleData, Deliver, serverVars
<1>5. m_bufferCache \in Seq(Byte)
  BY DEF TypeOK
<1>6. /\ m_bufferCache' \in Seq(Byte) /\ Len(m_bufferCache') = rest
      /\ \A k \in 1 .. rest : m_bufferCache'[k] = m_bufferCache[long + k]
  <2>1. m_bufferCache' = SubSeq(m_bufferCache, long + 1, cached)
    BY <1>2, <1>a, <1>3
  <2>2. cached = Len(m_bufferCache) /\ long <= cached /\ rest = cached - long
    BY <1>a, <1>3
  <2> HIDE DEF Byte
  <2> QED
    BY <1>5, <2>1, <2>2, Part
<1>7. ASSUME NEW k \in 1 .. rest + piped PROVE Stream(k)' = Stream(long + k)
  <2>1. PICK q \in Nat : q = long + k
    BY <1>3
  <2>2. CASE k <= rest
    <3>1. q <= cached /\ k \in 1 .. rest
      BY <1>3, <2>1, <2>2
    <3>2. Stream(k)' = m_bufferCache'[k] /\ Stream(q) = m_bufferCache[q]
      BY <1>a, <1>6, <2>2, <3>1 DEF Stream
    <3> QED
      BY <1>6, <2>1, <3>1, <3>2
  <2>3. CASE ~(k <= rest)
    <3>1. ~(q <= cached) /\ q - cached = k - rest
      BY <1>3, <2>1, <2>3
    <3>2. Stream(k)' = bytes[k - rest] /\ Stream(q) = bytes[q - cached]
      BY <1>a, <1>4, <1>6, <2>3, <3>1 DEF Stream
    <3> QED
      BY <2>1, <3>1, <3>2
  <2> QED
    BY <2>2, <2>3
<1>8. PICK before \in Nat, next \in Nat, last \in Nat :
        before = at[h] /\ next = at[h + 1] /\ last = at[w]
  <2>1. h + 1 \in Nat
    OBVIOUS
  <2> QED
    BY <2>1 DEF Positions
<1>9. next = before + long
  <2>1. PICK i \in handled + 1 .. w : i = h + 1 /\ i - 1 = h
    BY <1>1, <1>2
  <2>2. at[i] = at[i - 1] + head + size[accepted[i]]
    BY <1>1 DEF Framed
  <2>3. next = before + head + s
    <3>1. accepted[i] = n /\ at[i] = next /\ at[i - 1] = before
      BY <1>1, <1>8, <2>1 DEF n
    <3> QED
      BY <1>a, <2>2, <3>1
  <2> QED
    BY <1>3, <2>3
<1>10. last = before + cached + piped
  BY <1>1, <1>a, <1>8 DEF Framed
<1>11. ASSUME NEW i \in handled' + 1 .. w
       PROVE  /\ at[i] = at[i - 1] + PACKGE_HEADER_SIZE + size'[accepted'[i]]
              /\ Holds(accepted[i], at[i - 1] - at[handled])'
  <2>1. /\ i \in handled + 1 .. w /\ i - 1 \in handled .. w /\ h + 1 \in handled .. w
        /\ h + 1 <= i - 1
    BY <1>1, <1>4
  <2>2. PICK p : p = accepted[i] /\ p = accepted'[i] /\ size'[p] = size[p]
    BY <1>4
  <2>3. PICK start \in Nat : start = at[i - 1]
    BY <2>1, InStream
  <2>4. next <= start
    BY <1>8, <2>1, <2>3 DEF Framed
  <2>5. PICK k \in Nat : k = start - next
    BY <2>4
  <2>6. k = at[i - 1] - at[handled'] /\ long + k = start - before
    BY <1>4, <1>8, <1>9, <2>3, <2>5
  <2>7. at[i] = at[i - 1] + PACKGE_HEADER_SIZE + size[p] /\ Holds(p, long + k)
    BY <1>1, <1>8, <2>1, <2>2, <2>3, <2>6 DEF Framed
  <2>8. \A j \in 1 .. PACKGE_HEADER_SIZE + size[p] : (long + k) + j \in 1 .. cached + piped
    BY <1>1, <1>a, <1>8, <2>1, <2>2, <2>3, <2>6, InStream
  <2>9. ASSUME NEW j \in 1 .. PACKGE_HEADER_SIZE + size[p] PROVE Stream(k + j)' = <<p, j>>
    <3>1. PICK m \in Nat : m = k + j /\ (long + k) + j = long + m /\ m >= 1
      <4>1. j \in Nat /\ j >= 1
        BY <2>1, <2>2, InStream, PipeAssumption
      <4> QED
        BY <1>3, <2>5, <4>1
    <3>2. m \in 1 .. rest + piped
      BY <1>3, <2>8, <3>1
    <3>3. Stream(m)' = Stream(long + m)
      BY <1>7, <3>2
    <3>4. Stream(long + m) = <<p, j>>
      BY <2>7, <3>1 DEF Holds
    <3> QED
      BY <3>1, <3>3, <3>4
  <2>10. Holds(p, k)'
    BY <2>2, <2>9 DEF Holds
  <2> QED
    BY <2>2, <2>6, <2>7, <2>10
<1>12. ASSUME NEW i \in handled' .. w, NEW j \in handled' .. w, i <= j PROVE at[i] <= at[j]
  <2>1. i \in handled .. w /\ j \in handled .. w
    BY <1>1, <1>4
  <2> QED
    BY <1>12, <2>1 DEF Framed
<1>13. at[w] = at[handled'] + Len(m_bufferCache') + Len(bytes')
  <2>1. last = next + rest + piped
    BY <1>3, <1>9, <1>10
  <2> QED
    BY <1>a, <1>4, <1>6, <1>8, <2>1
<1>14. handled' <= w /\ w <= Len(accepted')
  BY <1>1, <1>2, <1>4 DEF Framed
<1>15. Framed(w, at)'
  BY <1>11, <1>12, <1>13, <1>14 DEF Framed
<1> QED
  <2>1. Len(m_bufferCache') <= cached
    BY <1>3, <1>6
  <2> QED
    BY <1>a, <1>6, <1>15, <2>1

(* The callback, if it is set, gets the whole body of that post.           *)
LEMMA HandleDelivers ==
  ASSUME TypeOK, Framing, Gathered, NEW w \in Nat, NEW at \in Positions, Framed(w, at),
         HandleData
  PROVE  /\ handled' \in Nat /\ delivered' \in Seq(Seq(Byte)) /\ Len(delivered') <= handled'
         /\ Framing' /\ (~m_funcCallback => delivered' = <<>>)
<1> DEFINE n == accepted[handled + 1]
<1>1. PICK h \in Nat, l \in Nat : h = handled /\ l = Len(delivered)
  BY Lengths
<1>2. h < w /\ n \in 1 .. Len(size) /\ Body(n) \in Seq(Byte) /\ Deliver(Body(n))
  BY <1>1, HandleCuts
<1>a. accepted[handled + 1] = n
  OBVIOUS
<1> HIDE DEF n
<1>3. handled' = h + 1 /\ UNCHANGED <<size, accepted>>
  BY <1>1, <1>2 DEF HandleData, Deliver, serverVars
<1>4. delivered \in Seq(Seq(Byte)) /\ l <= h
  BY <1>1 DEF TypeOK
<1>5. handled' <= Len(accepted')
  <2>1. w <= Len(accepted)
    BY DEF Framed
  <2> QED
    BY <1>2, <1>3, <2>1, Lengths
<1>6. CASE ~m_funcCallback
  <2>1. delivered' = <<>> /\ delivered = <<>>
    BY <1>2, <1>6 DEF Deliver, Gathered
  <2>2. Framing'
    BY <1>5, <2>1 DEF Framing
  <2> QED
    BY <1>3, <1>4, <2>1, <2>2
<1>7. CASE m_funcCallback
  <2>1. delivered' = Append(delivered, Body(n))
    BY <1>2, <1>7 DEF Deliver
  <2> DEFINE Bodies == Seq(Byte)
  <2>2. /\ delivered' \in Seq(Bodies) /\ Len(delivered') = l + 1
        /\ \A i \in 1 .. l : delivered'[i] = delivered[i]
        /\ delivered'[l + 1] = Body(n)
    <3>1. delivered \in Seq(Bodies) /\ Body(n) \in Bodies
      BY <1>2, <1>4
    <3> HIDE DEF Bodies
    <3> QED
      BY <1>1, <2>1, <3>1, AppendProperties
  <2>3. DOMAIN delivered = 1 .. l /\ DOMAIN delivered' = 1 .. l + 1
    <3>1. DOMAIN delivered = 1 .. l
      BY <1>1, Numbers
    <3> HIDE DEF Bodies
    <3> QED
      BY <2>2, <3>1
  <2>4. \A p \in 1 .. Len(size) : Body(p)' = Body(p)
    BY <1>3, PackageKept
  <2>5. ASSUME NEW i \in 1 .. l + 1
        PROVE  delivered'[i] = Body(accepted[handled - Len(delivered) + i])'
    <3>0. PICK k \in Nat : k = h - l + i /\ k = (h + 1) - (l + 1) + i
      BY <1>4
    <3>1. PICK p : /\ k = h - l + i /\ k = handled' - Len(delivered') + i
                   /\ p = accepted[k] /\ p = accepted'[k]
      BY <1>3, <2>2, <3>0
    <3>2. k \in 1 .. Len(accepted)
      BY <1>3, <1>4, <1>5, <3>1, Lengths
    <3>3. p \in 1 .. Len(size)
      BY <3>1, <3>2, Numbers
    <3>4. delivered'[i] = Body(p)
      <4>1. CASE i = l + 1
        <5>1. k = handled + 1
          BY <1>1, <1>4, <3>1, <4>1
        <5> QED
          BY <1>1, <1>a, <2>2, <3>1, <4>1, <5>1
      <4>2. CASE i # l + 1
        <5>1. i \in 1 .. l
          BY <4>2
        <5>2. delivered[i] = Body(p)
          BY <1>1, <2>3, <3>1, <5>1 DEF Framing
        <5> QED
          BY <2>2, <5>1, <5>2
      <4> QED
        BY <4>1, <4>2
    <3> QED
      BY <2>4, <3>1, <3>3, <3>4
  <2>6. Framing'
    BY <1>5, <2>3, <2>5 DEF Framing
  <2> QED
    BY <1>3, <1>4, <1>7, <2>2, <2>6
<1> QED
  BY <1>6, <1>7

-----------------------------------------------------------------------------
(* The type invariant in two parts: what is a list, and the rest.          *)
Bodies == Seq(Seq(Byte))

Lists ==
  /\ size \in Seq(Sizes) /\ accepted \in Seq(1 .. Len(size))
  /\ messages \in Seq(Posts \union {Quit}) /\ data \in Seq(Posts)
  /\ bytes \in Seq(Byte) /\ m_bufferCache \in Seq(Byte) /\ delivered \in Bodies

Places ==
  /\ server \in {"start", "running", "closing", "gone"}
  /\ writer \in {"none", "create", "connect", "waiting", "queue", "get", "write", "ended"}
  /\ pipe \in {"none", "listening", "open", "closed"}
  /\ reader \in {"start", "create", "read", "handle", "ended"}
  /\ m_bConnected = (reader \in {"read", "handle"})
  /\ m_funcCallback \in BOOLEAN

Bounds ==
  /\ Len(size) <= MaxPosts /\ Len(data) = IF writer = "write" THEN 1 ELSE 0
  /\ Len(m_bufferCache) <= CacheSize
  /\ handled \in Nat /\ Len(delivered) <= handled

(* A step that posts, reads, writes and cuts nothing.                      *)
LEMMA Quiet ==
  ASSUME IInv, TypeOK',
         UNCHANGED <<size, accepted, handled, m_bufferCache, bytes, delivered>>,
         \A w \in Nat : Waiting(w) => Waiting(w)'
  PROVE  /\ Ascending' /\ Framing'
         /\ \E written \in Nat, at \in Positions : Framed(written, at)' /\ Waiting(written)'
<1>1. TypeOK /\ Framing /\ Ascending
  BY DEF IInv
<1>2. PICK w \in Nat, at \in Positions : Framed(w, at) /\ Waiting(w)
  BY DEF IInv
<1>3. w <= Len(accepted') /\ handled <= Len(accepted')
  BY <1>1, <1>2 DEF Framed, Framing
<1>4. Framed(w, at)'
  BY <1>1, <1>2, <1>3, StreamKept
<1>5. Framing'
  BY <1>1, <1>3, FramingKept
<1>6. Ascending'
  BY <1>1 DEF Ascending
<1> QED
  BY <1>2, <1>4, <1>5, <1>6

(* The lists of such a step.                                               *)
LEMMA ListsKept ==
  ASSUME TypeOK, UNCHANGED <<size, accepted, handled, m_bufferCache, bytes, delivered>>,
         messages' \in Seq(Posts \union {Quit}), data' \in Seq(Posts),
         Len(data') = IF writer' = "write" THEN 1 ELSE 0
  PROVE  Lists' /\ Bounds'
<1>1. Lists /\ Bounds
  BY DEF TypeOK, Lists, Bounds, Bodies
<1>2. Lists'
  BY <1>1 DEF Lists
<1>3. Bounds'
  BY <1>1 DEF Bounds
<1> QED
  BY <1>2, <1>3

(* The writer waits for what it waited for.                                *)
LEMMA WaitingKept ==
  ASSUME UNCHANGED <<accepted, messages, data>>, pipe' # "closed" => pipe # "closed",
         NEW w \in Nat, Waiting(w)
  PROVE  Waiting(w)'
BY DEF Waiting

(* The steps of the client that move neither bytes nor packages.           *)
LEMMA ClientSteps ==
  ASSUME IInv,
         SetReadCallback \/ WaitNamedPipe \/ CreateFile \/ ReadFails \/ HandleEnds \/ ClientEnds
  PROVE  IInv'
<1>1. TypeOK /\ Stages /\ Gathered /\ Framing
  BY DEF IInv
<1>2. /\ UNCHANGED <<size, accepted, handled, m_bufferCache, bytes, delivered>>
      /\ UNCHANGED <<messages, data, server, writer>>
      /\ pipe' # "closed" => pipe # "closed"
  BY DEF SetReadCallback, WaitNamedPipe, CreateFile, ReadFails, HandleEnds, ClientEnds,
         serverVars, writerVars, readerVars
<1>3. Places'
  <2>1. Places
    BY <1>1 DEF TypeOK, Places
  <2>2. CASE SetReadCallback
    BY <2>1, <2>2 DEF Places, SetReadCallback, serverVars, writerVars, readerVars
  <2>3. CASE WaitNamedPipe
    BY <2>1, <2>3 DEF Places, WaitNamedPipe, serverVars, writerVars
  <2>4. CASE CreateFile
    <3>1. \/ reader' = "read" /\ m_bConnected' = TRUE
          \/ reader' = "ended" /\ m_bConnected' = FALSE
      <4>1. reader = "create" /\ m_bConnected = (reader \in {"read", "handle"})
        BY <2>1, <2>4 DEF Places, CreateFile
      <4>2. (reader \in {"read", "handle"}) = FALSE
        BY <4>1
      <4>3. m_bConnected = FALSE
        BY <4>1, <4>2
      <4> QED
        BY <2>4, <4>3 DEF CreateFile
    <3>2. pipe' \in {pipe, "open"} /\ m_funcCallback' = m_funcCallback
      BY <2>4 DEF CreateFile
    <3>3. m_bConnected' = (reader' \in {"read", "handle"})
      <4>1. CASE reader' = "read" /\ m_bConnected' = TRUE
        <5>1. (reader' \in {"read", "handle"}) = TRUE
          BY <4>1
        <5> QED
          BY <4>1, <5>1
      <4>2. CASE reader' = "ended" /\ m_bConnected' = FALSE
        <5>1. (reader' \in {"read", "handle"}) = FALSE
          BY <4>2
        <5> QED
          BY <4>2, <5>1
      <4> QED
        BY <3>1, <4>1, <4>2
    <3> QED
      BY <1>2, <2>1, <3>1, <3>2, <3>3 DEF Places
  <2>5. CASE ReadFails
    <3>1. reader' = "ended" /\ m_bConnected' = FALSE
      BY <2>5 DEF ReadFails
    <3>2. pipe' \in {pipe, "closed"} /\ m_funcCallback' = m_funcCallback
      BY <2>5 DEF ReadFails
    <3>3. m_bConnected' = (reader' \in {"read", "handle"})
      <4>1. (reader' \in {"read", "handle"}) = FALSE
        BY <3>1
      <4> QED
        BY <3>1, <4>1
    <3> QED
      BY <1>2, <2>1, <3>1, <3>2, <3>3 DEF Places
  <2>6. CASE HandleEnds
    BY <2>1, <2>6 DEF Places, HandleEnds, serverVars, writerVars
  <2>7. CASE ClientEnds
    <3>1. reader' = "ended" /\ m_bConnected' = FALSE
      BY <2>7 DEF ClientEnds
    <3>2. pipe' \in {pipe, "closed"} /\ m_funcCallback' = m_funcCallback
      BY <2>7 DEF ClientEnds
    <3>3. m_bConnected' = (reader' \in {"read", "handle"})
      <4>1. (reader' \in {"read", "handle"}) = FALSE
        BY <3>1
      <4> QED
        BY <3>1, <4>1
    <3> QED
      BY <1>2, <2>1, <3>1, <3>2, <3>3 DEF Places
  <2> QED
    BY <2>2, <2>3, <2>4, <2>5, <2>6, <2>7
<1>4. TypeOK'
  <2>1. messages \in Seq(Posts \union {Quit}) /\ data \in Seq(Posts)
        /\ Len(data) = IF writer = "write" THEN 1 ELSE 0
    BY <1>1 DEF TypeOK
  <2>2. Lists' /\ Bounds'
    BY <1>1, <1>2, <2>1, ListsKept
  <2> QED
    BY <1>3, <2>2 DEF TypeOK, Lists, Places, Bounds, Bodies
<1>5. Stages'
  <2>1. pipe' = pipe \/ (pipe = "listening" /\ pipe' = "open") \/ (pipe = "open" /\ pipe' = "closed")
    BY DEF SetReadCallback, WaitNamedPipe, CreateFile, ReadFails, HandleEnds, ClientEnds,
           serverVars, writerVars, readerVars
  <2> QED
    BY <1>1, <1>2, <2>1 DEF Stages, HasQueue
<1>6. Gathered'
  <2>1. ~m_funcCallback' => ~m_funcCallback
    BY DEF SetReadCallback, WaitNamedPipe, CreateFile, ReadFails, HandleEnds, ClientEnds,
           serverVars, writerVars, readerVars
  <2>2. reader' \in {"start", "create", "read"} => Len(m_bufferCache) < BUFFER_MAX_LEN
    <3>1. CASE HandleEnds
      <4>1. PICK w \in Nat, at \in Positions : Framed(w, at)
        BY DEF IInv
      <4>2. CASE Len(m_bufferCache) >= PACKGE_HEADER_SIZE
        <5>1. PICK n : /\ n \in 1 .. Len(size) /\ DataSizes = {size[n]}
          BY <1>1, <4>1, <4>2, FirstPackage
        <5>2. ~Complete(size[n])
          BY <3>1, <4>2, <5>1, Lengths, <1>1, PipeAssumption DEF HandleEnds
        <5>3. size[n] \in Nat /\ PACKGE_HEADER_SIZE + size[n] <= BUFFER_MAX_LEN
          BY <1>1, <5>1, Numbers, PipeAssumption
        <5> QED
          BY <1>1, <5>2, <5>3, Lengths, PipeAssumption DEF Complete
      <4>3. CASE Len(m_bufferCache) < PACKGE_HEADER_SIZE /\ Len(m_bufferCache) # 0
        <5>1. w # handled
          <6>1. PICK a \in Nat : a = at[handled]
            BY <1>1, Lengths DEF Positions
          <6>2. w = handled => a = a + Len(m_bufferCache) + Len(bytes)
            BY <4>1, <6>1 DEF Framed
          <6>3. Len(m_bufferCache) \in Nat /\ Len(bytes) \in Nat
            BY <1>1, Lengths
          <6> QED
            BY <4>3, <6>2, <6>3
        <5>2. w \in 1 .. Len(accepted)
          BY <1>1, <4>1, <5>1, Lengths DEF Framed
        <5>3. PICK n \in 1 .. Len(size) : n = accepted[w]
          BY <1>1, <5>2, Numbers
        <5>4. size[n] \in Nat /\ PACKGE_HEADER_SIZE + size[n] <= BUFFER_MAX_LEN
          BY <1>1, <5>3, Numbers, PipeAssumption
        <5>5. PICK c \in Nat, h \in Nat, s \in Nat, b \in Nat :
                c = Len(m_bufferCache) /\ h = PACKGE_HEADER_SIZE /\ s = size[n]
                /\ b = BUFFER_MAX_LEN
          BY <1>1, <5>4, Lengths, PipeAssumption
        <5>6. c < h /\ h + s <= b
          BY <4>3, <5>4, <5>5
        <5>7. c < b
          BY <5>6
        <5> QED
          BY <5>5, <5>7
      <4>4. CASE Len(m_bufferCache) = 0
        BY <4>4, PipeAssumption
      <4> QED
        BY <1>1, <4>2, <4>3, <4>4, Lengths, PipeAssumption
    <3>2. CASE SetReadCallback \/ WaitNamedPipe \/ CreateFile \/ ReadFails \/ ClientEnds
      BY <1>1, <3>2 DEF Gathered, SetReadCallback, WaitNamedPipe, CreateFile, ReadFails, ClientEnds,
                        readerVars
    <3> QED
      BY <3>1, <3>2
  <2> QED
    BY <1>1, <1>2, <2>1, <2>2 DEF Gathered
<1>7. \A w \in Nat : Waiting(w) => Waiting(w)'
  BY <1>2, WaitingKept
<1> QED
  BY <1>2, <1>4, <1>5, <1>6, <1>7, Quiet DEF IInv

(* What the reader says of itself is left alone by the server.             *)
LEMMA PlacesKept ==
  ASSUME TypeOK, UNCHANGED <<reader, m_bConnected, m_funcCallback>>,
         server' \in {"start", "running", "closing", "gone"},
         writer' \in {"none", "create", "connect", "waiting", "queue", "get", "write", "ended"},
         pipe' \in {"none", "listening", "open", "closed"}
  PROVE  Places'
<1>1. Places
  BY DEF TypeOK, Places
<1> QED
  BY <1>1 DEF Places

(* Nor does the server change how far the client is.                       *)
LEMMA GatheredKept ==
  ASSUME Gathered, UNCHANGED <<reader, m_bufferCache, m_funcCallback, delivered>>
  PROVE  Gathered'
BY DEF Gathered

(* The steps of the server that neither post nor take from the queue.      *)
LEMMA ServerSteps ==
  ASSUME IInv,
         Initialize \/ CreateNamedPipe \/ ConnectNamedPipe \/ Connected \/ PeekMessage
  PROVE  IInv'
<1>1. TypeOK /\ Stages /\ Gathered
  BY DEF IInv
<1>2. /\ UNCHANGED <<size, accepted, handled, m_bufferCache, bytes, delivered>>
      /\ UNCHANGED <<messages, data, reader, m_bConnected, m_funcCallback>>
  BY DEF Initialize, CreateNamedPipe, ConnectNamedPipe, Connected, PeekMessage,
         serverVars, readerVars
<1>3. /\ server' \in {"start", "running", "closing", "gone"}
      /\ writer' \in {"none", "create", "connect", "waiting", "queue", "get", "write", "ended"}
      /\ pipe' \in {"none", "listening", "open", "closed"}
      /\ writer # "write" /\ writer' # "write" /\ (pipe' # "closed" => pipe # "closed")
  BY <1>1 DEF TypeOK, Stages, Initialize, CreateNamedPipe, ConnectNamedPipe, Connected, PeekMessage,
              serverVars
<1>4. TypeOK'
  <2>1. messages \in Seq(Posts \union {Quit}) /\ data \in Seq(Posts)
        /\ Len(data) = IF writer = "write" THEN 1 ELSE 0
    BY <1>1 DEF TypeOK
  <2>2. Lists' /\ Bounds'
    BY <1>1, <1>2, <1>3, <2>1, ListsKept
  <2>3. Places'
    BY <1>1, <1>2, <1>3, PlacesKept
  <2> QED
    BY <2>2, <2>3 DEF TypeOK, Lists, Places, Bounds, Bodies
<1>5. Stages'
  <2>1. messages = <<>> /\ messages' = <<>>
    BY <1>1, <1>2 DEF Stages, HasQueue, Initialize, CreateNamedPipe, ConnectNamedPipe, Connected,
                      PeekMessage
  <2>2. \A i \in 1 .. Len(messages') : messages'[i] = Quit => server' = "closing" /\ i = Len(messages')
    BY <2>1
  <2>3. \/ server = "start" /\ server' = "running"
        \/ server' = server /\ server # "start"
    BY <1>1 DEF Stages, Initialize, CreateNamedPipe, ConnectNamedPipe, Connected, PeekMessage,
                serverVars
  <2> QED
    BY <1>1, <1>2, <2>1, <2>2, <2>3 DEF TypeOK, Stages, HasQueue, Initialize, CreateNamedPipe,
         ConnectNamedPipe, Connected, PeekMessage
<1>6. Gathered'
  BY <1>1, <1>2, GatheredKept
<1>7. \A w \in Nat : Waiting(w) => Waiting(w)'
  BY <1>2, <1>3, WaitingKept
<1> QED
  BY <1>2, <1>4, <1>5, <1>6, <1>7, Quiet DEF IInv

(* The destructor posts WM_QUIT behind everything else.                    *)
LEMMA DestroyStep ==
  ASSUME IInv, Destroy
  PROVE  IInv'
<1>1. TypeOK /\ Stages /\ Gathered
  BY DEF IInv
<1>2. /\ UNCHANGED <<size, accepted, handled, m_bufferCache, bytes, delivered>>
      /\ UNCHANGED <<data, writer, reader, m_bConnected, m_funcCallback>>
      /\ server = "running" /\ server' = "closing"
      /\ pipe' # "closed" => pipe # "closed"
      /\ pipe' = pipe \/ (pipe # "none" /\ pipe' = "closed")
  BY DEF Destroy, readerVars
<1>3. messages \in Seq(Posts \union {Quit}) /\ Len(messages) \in Nat
  BY <1>1, Lengths DEF TypeOK
<1>4. /\ messages' \in Seq(Posts \union {Quit})
      /\ \/ HasQueue /\ Len(messages') = Len(messages) + 1
            /\ messages'[Len(messages) + 1] = Quit
            /\ \A i \in 1 .. Len(messages) : messages'[i] = messages[i]
         \/ messages' = messages /\ ~HasQueue
  <2>1. CASE HasQueue
    <3>1. messages' = Append(messages, Quit)
      BY <2>1 DEF Destroy
    <3>2. Quit \in Posts \union {Quit}
      OBVIOUS
    <3> QED
      BY <1>3, <2>1, <3>1, <3>2, AppendProperties
  <2>2. CASE ~HasQueue
    BY <1>3, <2>2 DEF Destroy
  <2> QED
    BY <2>1, <2>2
<1>5. TypeOK'
  <2>1. data \in Seq(Posts) /\ Len(data) = IF writer = "write" THEN 1 ELSE 0
    BY <1>1 DEF TypeOK
  <2>2. Lists' /\ Bounds'
    BY <1>1, <1>2, <1>4, <2>1, ListsKept
  <2>3. Places'
    <3>1. /\ writer' \in {"none", "create", "connect", "waiting", "queue", "get", "write", "ended"}
          /\ pipe' \in {"none", "listening", "open", "closed"}
      BY <1>1, <1>2 DEF TypeOK
    <3> QED
      BY <1>1, <1>2, <3>1, PlacesKept
  <2> QED
    BY <2>2, <2>3 DEF TypeOK, Lists, Places, Bounds, Bodies
<1>6. \A i \in 1 .. Len(messages) : messages[i] # Quit
  BY <1>1, <1>2 DEF Stages
<1>7. Stages'
  <2>1. \A i \in 1 .. Len(messages') : messages'[i] = Quit => i = Len(messages')
    BY <1>3, <1>4, <1>6
  <2>2. ~HasQueue' => messages' = <<>>
    BY <1>1, <1>2, <1>4 DEF Stages, HasQueue
  <2> QED
    BY <1>1, <1>2, <2>1, <2>2 DEF Stages
<1>8. ASSUME NEW w \in Nat, Waiting(w) PROVE Waiting(w)'
  <2>1. CASE messages' = messages
    BY <1>2, <1>8, <2>1, WaitingKept
  <2>2. CASE messages' # messages /\ pipe' # "closed"
    <3>1. /\ Len(messages') = Len(messages) + 1 /\ messages'[Len(messages) + 1] = Quit
          /\ \A i \in 1 .. Len(messages) : messages'[i] = messages[i]
      BY <1>4, <2>2
    <3>2. PICK before \in Nat, m \in Nat, a \in Nat :
            /\ before = w + Len(data) /\ before = w + Len(data')
            /\ m = Len(messages) /\ a = Len(accepted)
      BY <1>1, <1>2, Lengths
    <3>3. /\ before <= a /\ a <= before + m
          /\ \A i \in 1 .. Len(data) : data[i] = accepted[w + i]
          /\ \A i \in 1 .. m : messages[i] # Quit => before + i <= a /\ messages[i] = accepted[before + i]
      BY <1>2, <1>8, <2>2, <3>2 DEF Waiting
    <3>4. a <= before + (m + 1) /\ a < before + (m + 1)
      BY <3>3
    <3>5. \A i \in 1 .. m + 1 :
            messages'[i] # Quit => before + i <= a /\ messages'[i] = accepted[before + i]
      <4>1. \A i \in 1 .. m + 1 : i \in 1 .. m \/ i = m + 1
        OBVIOUS
      <4> QED
        BY <3>1, <3>2, <3>3, <4>1
    <3> QED
      BY <1>2, <3>1, <3>2, <3>3, <3>4, <3>5 DEF Waiting
  <2>3. CASE pipe' = "closed"
    BY <2>3 DEF Waiting
  <2> QED
    BY <2>1, <2>2, <2>3
<1>9. Gathered'
  BY <1>1, <1>2, GatheredKept
<1> QED
  BY <1>2, <1>5, <1>7, <1>8, <1>9, Quiet DEF IInv

(* When its process has gone the writer and its queue are gone too.        *)
LEMMA EndStep ==
  ASSUME IInv, ServerEnds
  PROVE  IInv'
<1>1. TypeOK /\ Stages /\ Gathered
  BY DEF IInv
<1>2. /\ UNCHANGED <<size, accepted, handled, m_bufferCache, bytes, delivered>>
      /\ UNCHANGED <<reader, m_bConnected, m_funcCallback>>
      /\ server' = "gone" /\ writer' = "ended" /\ messages' = <<>> /\ data' = <<>>
      /\ pipe' = IF pipe = "none" THEN "none" ELSE "closed"
  BY DEF ServerEnds, readerVars
<1>3. TypeOK'
  <2>1. messages' \in Seq(Posts \union {Quit}) /\ data' \in Seq(Posts) /\ Len(data') = 0
    BY <1>2
  <2>2. Lists' /\ Bounds'
    BY <1>1, <1>2, <2>1, ListsKept
  <2>3. Places'
    BY <1>1, <1>2, PlacesKept
  <2> QED
    BY <2>2, <2>3 DEF TypeOK, Lists, Places, Bounds, Bodies
<1>4. Stages'
  BY <1>1, <1>2 DEF Stages, HasQueue
<1>5. ASSUME NEW w \in Nat, Waiting(w) PROVE Waiting(w)'
  <2>1. CASE pipe' = "closed"
    BY <2>1 DEF Waiting
  <2>2. CASE pipe = "none"
    <3>1. accepted = <<>> /\ Len(accepted) = 0
      BY <1>1, <2>2 DEF Stages
    <3>2. Len(messages') = 0 /\ Len(data') = 0 /\ Len(accepted') = 0
      BY <1>2, <3>1
    <3>3. w + Len(data) <= 0 /\ Len(data) \in Nat
      BY <1>1, <1>5, <2>2, <3>1, Lengths DEF Waiting
    <3>4. w = 0
      BY <3>3
    <3> QED
      BY <3>2, <3>4 DEF Waiting
  <2> QED
    BY <1>2, <2>1, <2>2
<1>6. Gathered'
  BY <1>1, <1>2, GatheredKept
<1> QED
  BY <1>2, <1>3, <1>4, <1>5, <1>6, Quiet DEF IInv

(* The writer takes the first of its queue, WM_QUIT with nothing behind.   *)
LEMMA GetStep ==
  ASSUME IInv, GetMessage
  PROVE  IInv'
<1>1. TypeOK /\ Stages /\ Gathered
  BY DEF IInv
<1>2. /\ UNCHANGED <<size, accepted, handled, m_bufferCache, bytes, delivered>>
      /\ UNCHANGED <<server, pipe, reader, m_bConnected, m_funcCallback>>
      /\ writer = "get" /\ messages # <<>>
      /\ writer' = IF Head(messages) = Quit THEN "ended" ELSE "write"
      /\ data' = IF Head(messages) = Quit THEN <<>> ELSE <<Head(messages)>>
      /\ messages' = IF Head(messages) = Quit THEN <<>> ELSE Tail(messages)
  BY DEF GetMessage, serverVars, readerVars
<1>3. PICK m \in Nat : m = Len(messages) /\ m >= 1
  <2>1. messages \in Seq(Posts \union {Quit})
    BY <1>1 DEF TypeOK
  <2> QED
    BY <1>2, <2>1, EmptySeq
<1>4. /\ Head(messages) \in Posts \union {Quit} /\ Head(messages) = messages[1]
      /\ Tail(messages) \in Seq(Posts \union {Quit}) /\ Len(Tail(messages)) = m - 1
      /\ \A i \in 1 .. m - 1 : Tail(messages)[i] = messages[i + 1]
  <2>1. messages \in Seq(Posts \union {Quit})
    BY <1>1 DEF TypeOK
  <2>2. Head(messages) = messages[1]
    BY <1>2, <2>1
  <2> QED
    BY <1>2, <1>3, <2>1, <2>2, HeadTailProperties
<1>5. data = <<>> /\ Len(data) = 0
  <2>1. data \in Seq(Posts) /\ Len(data) = 0
    BY <1>1, <1>2 DEF TypeOK
  <2> QED
    BY <2>1, EmptySeq
<1>6. TypeOK'
  <2>1. CASE Head(messages) = Quit
    <3>1. messages' \in Seq(Posts \union {Quit}) /\ data' \in Seq(Posts) /\ Len(data') = 0
          /\ writer' = "ended"
      BY <1>2, <2>1
    <3>2. Lists' /\ Bounds'
      BY <1>1, <1>2, <3>1, ListsKept
    <3>3. Places'
      BY <1>1, <1>2, <3>1, PlacesKept DEF TypeOK
    <3> QED
      BY <3>2, <3>3 DEF TypeOK, Lists, Places, Bounds, Bodies
  <2>2. CASE Head(messages) # Quit
    <3>1. messages' \in Seq(Posts \union {Quit}) /\ data' \in Seq(Posts) /\ Len(data') = 1
          /\ writer' = "write"
      BY <1>2, <1>4, <2>2
    <3>2. Lists' /\ Bounds'
      BY <1>1, <1>2, <3>1, ListsKept
    <3>3. Places'
      BY <1>1, <1>2, <3>1, PlacesKept DEF TypeOK
    <3> QED
      BY <3>2, <3>3 DEF TypeOK, Lists, Places, Bounds, Bodies
  <2> QED
    BY <2>1, <2>2
<1>7. \A i \in 1 .. m : messages[i] = Quit => server = "closing" /\ i = m
  BY <1>1, <1>3 DEF Stages
<1>8. Stages'
  <2>1. CASE Head(messages) = Quit
    BY <1>1, <1>2, <2>1 DEF Stages, HasQueue
  <2>2. CASE Head(messages) # Quit
    <3>1. /\ Len(messages') = m - 1 /\ writer' = "write"
          /\ \A i \in 1 .. m - 1 : messages'[i] = messages[i + 1]
      BY <1>2, <1>4, <2>2
    <3>2. \A i \in 1 .. m - 1 : messages'[i] = Quit => server = "closing" /\ i = m - 1
      <4>1. \A i \in 1 .. m - 1 : i + 1 \in 1 .. m
        OBVIOUS
      <4> QED
        BY <1>7, <3>1, <4>1
    <3>3. \A i \in 1 .. Len(messages') : messages'[i] = Quit => server' = "closing" /\ i = Len(messages')
      BY <1>2, <3>1, <3>2
    <3> QED
      BY <1>1, <1>2, <3>1, <3>3 DEF Stages, HasQueue
  <2> QED
    BY <2>1, <2>2
<1>9. ASSUME NEW w \in Nat, Waiting(w) PROVE Waiting(w)'
  <2>1. CASE pipe = "closed"
    BY <1>2, <2>1 DEF Waiting
  <2>2. CASE pipe # "closed"
    <3>1. PICK a \in Nat : a = Len(accepted) /\ a = Len(accepted')
      BY <1>1, <1>2, Lengths
    <3>2. w + Len(data) = w
      BY <1>5
    <3>3. /\ w <= a /\ a <= w + m /\ (messages[m] = Quit => a < w + m)
          /\ \A i \in 1 .. m : messages[i] # Quit => w + i <= a /\ messages[i] = accepted[w + i]
      BY SMTT(30), <1>3, <1>9, <2>2, <3>1, <3>2 DEF Waiting
    <3>4. CASE Head(messages) = Quit
      <4>1. m = 1
        BY <1>3, <1>4, <1>7, <3>4
      <4>2. a <= w
        BY <1>4, <3>3, <3>4, <4>1
      <4>3. Len(messages') = 0 /\ Len(data') = 0
        BY <1>2, <3>4
      <4> QED
        BY <3>1, <3>3, <4>2, <4>3 DEF Waiting
    <3>5. CASE Head(messages) # Quit
      <4>1. /\ Len(messages') = m - 1 /\ Len(data') = 1 /\ data'[1] = messages[1]
            /\ \A i \in 1 .. m - 1 : messages'[i] = messages[i + 1]
        BY <1>2, <1>4, <3>5
      <4>2. PICK l \in Nat, before \in Nat :
              l = m - 1 /\ l + 1 = m /\ before = w + 1 /\ before = w + Len(data')
        <5>1. m - 1 \in Nat /\ m - 1 + 1 = m
          BY <1>3
        <5>2. w + 1 \in Nat /\ w + 1 = w + Len(data')
          BY <4>1
        <5> QED
          BY <5>1, <5>2
      <4>3. messages[1] = accepted[w + 1] /\ before <= a
        BY <1>3, <1>4, <3>3, <3>5, <4>2
      <4>4. \A i \in 1 .. Len(data') : data'[i] = accepted[w + i]
        BY <4>1, <4>3
      <4>5. ASSUME NEW i \in 1 .. l, messages'[i] # Quit
            PROVE  before + i <= a /\ messages'[i] = accepted[before + i]
        <5>1. PICK k \in 1 .. m : k = i + 1 /\ before + i = w + k
          BY <4>2
        <5>2. messages'[i] = messages[k]
          BY <4>1, <4>2, <5>1
        <5> QED
          BY <3>3, <4>5, <5>1, <5>2
      <4>6. a <= before + l
        BY <3>3, <4>2
      <4>7. l > 0 /\ messages'[l] = Quit => a < before + l
        <5>1. l > 0 => messages'[l] = messages[m]
          BY <4>1, <4>2
        <5> QED
          BY <3>3, <4>2, <5>1
      <4> QED
        BY <1>2, <3>1, <4>1, <4>2, <4>3, <4>4, <4>5, <4>6, <4>7 DEF Waiting
    <3> QED
      BY <3>4, <3>5
  <2> QED
    BY <2>1, <2>2
<1>10. Gathered'
  BY <1>1, <1>2, GatheredKept
<1> QED
  BY <1>2, <1>6, <1>8, <1>9, <1>10, Quiet DEF IInv

(* A post that meets a queue goes behind all others, and is accepted.      *)
LEMMA PostStep ==
  ASSUME IInv, NEW n \in Sizes, WriteData(n)
  PROVE  IInv'
<1>1. TypeOK /\ Stages /\ Gathered /\ Ascending /\ Framing
  BY DEF IInv
<1>2. /\ UNCHANGED <<server, writer, data, pipe, bytes>>
      /\ UNCHANGED <<reader, m_bConnected, m_bufferCache, handled, delivered, m_funcCallback>>
      /\ server = "running" /\ Len(size) < MaxPosts /\ size' = Append(size, n)
      /\ IF HasQueue
           THEN messages' = Append(messages, Len(size')) /\ accepted' = Append(accepted, Len(size'))
           ELSE UNCHANGED <<messages, accepted>>
  BY DEF WriteData, readerVars
<1>3. PICK l \in Nat, a \in Nat, m \in Nat :
        l = Len(size) /\ a = Len(accepted) /\ m = Len(messages)
  BY <1>1, Lengths
<1>4. /\ size \in Seq(Sizes) /\ accepted \in Seq(1 .. l) /\ messages \in Seq(Posts \union {Quit})
      /\ data \in Seq(Posts) /\ l < MaxPosts
  BY <1>1, <1>2, <1>3 DEF TypeOK
<1>5. /\ size' \in Seq(Sizes) /\ Len(size') = l + 1 /\ \A k \in 1 .. l : size'[k] = size[k]
  BY <1>2, <1>3, <1>4, AppendProperties
<1>6. accepted \in Seq(1 .. l + 1)
  BY <1>4, SeqMonotonic
<1>7. CASE HasQueue
  <2>1. /\ accepted' \in Seq(1 .. l + 1) /\ Len(accepted') = a + 1 /\ accepted'[a + 1] = l + 1
        /\ \A i \in 1 .. a : accepted'[i] = accepted[i]
    <3>1. accepted' = Append(accepted, l + 1) /\ l + 1 \in 1 .. l + 1
      BY <1>2, <1>5, <1>7
    <3> QED
      BY <1>3, <1>6, <3>1, AppendProperties
  <2>2. /\ messages' \in Seq(Posts \union {Quit}) /\ Len(messages') = m + 1
        /\ messages'[m + 1] = l + 1 /\ \A i \in 1 .. m : messages'[i] = messages[i]
    <3>1. messages' = Append(messages, l + 1)
      BY <1>2, <1>5, <1>7
    <3>2. l + 1 \in Posts \union {Quit}
      BY <1>4, PipeAssumption DEF Posts
    <3> QED
      BY <1>3, <1>4, <3>1, <3>2, AppendProperties
  <2>3. l + 1 # Quit
    BY DEF Quit
  <2>4. TypeOK'
    <3>1. Lists' /\ Bounds'
      <4>1. Lists /\ Bounds
        BY <1>1 DEF TypeOK, Lists, Bounds, Bodies
      <4>2. Lists'
        BY <1>2, <1>5, <2>1, <2>2, <4>1 DEF Lists
      <4>3. Len(size') <= MaxPosts
        BY <1>4, <1>5, PipeAssumption
      <4>4. Bounds'
        BY <1>2, <4>1, <4>3 DEF Bounds
      <4> QED
        BY <4>2, <4>4
    <3>2. Places'
      BY <1>1, <1>2, PlacesKept DEF TypeOK
    <3> QED
      BY <3>1, <3>2 DEF TypeOK, Lists, Places, Bounds, Bodies
  <2>5. \A i \in 1 .. m : messages[i] # Quit
    BY <1>1, <1>2, <1>3 DEF Stages
  <2>6. Stages'
    <3>1. \A i \in 1 .. m + 1 : messages'[i] # Quit
      <4>1. \A i \in 1 .. m + 1 : i \in 1 .. m \/ i = m + 1
        OBVIOUS
      <4> QED
        BY <2>2, <2>3, <2>5, <4>1
    <3>2. writer \in {"get", "write"} /\ pipe \in {"open", "closed"}
      BY <1>1, <1>7 DEF HasQueue, Stages
    <3> QED
      BY <1>1, <1>2, <2>2, <3>1, <3>2 DEF Stages, HasQueue
  <2>7. Gathered'
    BY <1>1, <1>2, GatheredKept
  <2>8. Framing'
    <3>1. handled \in Nat /\ handled <= a
      BY <1>1, <1>3, Lengths DEF Framing
    <3>2. \A i \in 1 .. handled : i \in 1 .. a
      BY <3>1
    <3> QED
      BY <1>1, <1>2, <1>3, <1>5, <2>1, <3>1, <3>2, FramingKept
  <2>9. PICK w \in Nat, at \in Positions : Framed(w, at) /\ Waiting(w)
    BY DEF IInv
  <2>10. Framed(w, at)'
    <3>1. w <= a
      BY <1>3, <2>9 DEF Framed
    <3>2. w <= Len(accepted') /\ \A i \in 1 .. w : i \in 1 .. a
      BY <2>1, <3>1
    <3> QED
      BY <1>1, <1>2, <1>3, <1>5, <2>1, <2>4, <2>9, <3>2, StreamKept
  <2>11. Waiting(w)'
    <3>1. CASE pipe = "closed"
      BY <1>2, <3>1 DEF Waiting
    <3>2. CASE pipe # "closed"
      <4>1. PICK before \in Nat : before = w + Len(data) /\ before = w + Len(data')
        BY <1>1, <1>2, Lengths
      <4>2. PICK d \in Nat : d = Len(data) /\ before = w + d
        BY <1>1, <4>1, Lengths
      <4>3. /\ before <= a /\ a <= before + m
            /\ \A i \in 1 .. d : data[i] = accepted[w + i]
            /\ \A i \in 1 .. m : before + i <= a /\ messages[i] = accepted[before + i]
        BY <1>3, <2>5, <2>9, <3>2, <4>1, <4>2 DEF Waiting
      <4>4. a = before + m
        <5>1. CASE m = 0
          BY <4>3, <5>1
        <5>2. CASE m # 0
          <6>1. m \in 1 .. m
            BY <5>2
          <6>2. before + m <= a
            BY <4>3, <6>1
          <6> QED
            BY <4>3, <6>2
        <5> QED
          BY <5>1, <5>2
      <4>5. before <= a + 1 /\ a + 1 <= before + (m + 1) /\ m + 1 > 0
        BY <4>4
      <4>6. \A i \in 1 .. d : data[i] = accepted'[w + i]
        <5>1. \A i \in 1 .. d : w + i \in 1 .. a
          BY <4>2, <4>3
        <5> QED
          BY <2>1, <4>3, <5>1
      <4>7. ASSUME NEW i \in 1 .. m + 1
            PROVE  before + i <= a + 1 /\ messages'[i] = accepted'[before + i]
        <5>1. CASE i = m + 1
          <6>1. before + i = a + 1
            BY <4>4, <5>1
          <6> QED
            BY <2>1, <2>2, <5>1, <6>1
        <5>2. CASE i \in 1 .. m
          <6>1. PICK k \in 1 .. a : k = before + i
            BY <4>3, <5>2
          <6> QED
            BY <2>1, <2>2, <4>3, <5>2, <6>1
        <5> QED
          BY <5>1, <5>2
      <4>8. messages'[m + 1] # Quit
        BY <2>2, <2>3
      <4> QED
        BY <1>2, <2>1, <2>2, <4>1, <4>2, <4>5, <4>6, <4>7, <4>8 DEF Waiting
    <3> QED
      BY <3>1, <3>2
  <2>12. Ascending'
    <3>1. \A i \in 1 .. a : accepted[i] \in 1 .. l
      BY <1>1, <1>3, Numbers
    <3>2. \A i, j \in 1 .. a : i < j => accepted[i] < accepted[j]
      BY <1>1, <1>3 DEF Ascending
    <3>3. ASSUME NEW i \in 1 .. a + 1, NEW j \in 1 .. a + 1, i < j
          PROVE  accepted'[i] < accepted'[j]
      <4>1. i \in 1 .. a
        BY <3>3
      <4>2. CASE j = a + 1
        <5>1. PICK v \in 1 .. l : v = accepted[i] /\ v = accepted'[i]
          BY <2>1, <3>1, <4>1
        <5> QED
          BY <2>1, <4>2, <5>1
      <4>3. CASE j \in 1 .. a
        BY <2>1, <3>2, <3>3, <4>1, <4>3
      <4> QED
        BY <4>2, <4>3
    <3> QED
      BY <2>1, <3>3 DEF Ascending
  <2> QED
    BY <2>4, <2>6, <2>7, <2>8, <2>9, <2>10, <2>11, <2>12 DEF IInv
<1>8. CASE ~HasQueue
  <2>1. UNCHANGED <<messages, accepted>>
    BY <1>2, <1>8
  <2>2. TypeOK'
    <3>1. Lists' /\ Bounds'
      <4>1. Lists /\ Bounds
        BY <1>1 DEF TypeOK, Lists, Bounds, Bodies
      <4>2. Lists'
        BY <1>2, <1>5, <1>6, <2>1, <4>1 DEF Lists
      <4>3. Len(size') <= MaxPosts
        BY <1>4, <1>5, PipeAssumption
      <4>4. Bounds'
        BY <1>2, <4>1, <4>3 DEF Bounds
      <4> QED
        BY <4>2, <4>4
    <3>2. Places'
      BY <1>1, <1>2, PlacesKept DEF TypeOK
    <3> QED
      BY <3>1, <3>2 DEF TypeOK, Lists, Places, Bounds, Bodies
  <2>3. Stages'
    BY <1>1, <1>2, <2>1 DEF Stages, HasQueue
  <2>4. Gathered'
    BY <1>1, <1>2, GatheredKept
  <2>5. Framing'
    <3>1. handled <= Len(accepted')
      BY <1>1, <2>1 DEF Framing
    <3> QED
      BY <1>1, <1>2, <1>3, <1>5, <2>1, <3>1, FramingKept
  <2>6. PICK w \in Nat, at \in Positions : Framed(w, at) /\ Waiting(w)
    BY DEF IInv
  <2>7. Framed(w, at)'
    <3>1. w <= Len(accepted')
      BY <2>1, <2>6 DEF Framed
    <3> QED
      BY <1>1, <1>2, <1>3, <1>5, <2>1, <2>2, <2>6, <3>1, StreamKept
  <2>8. Waiting(w)'
    BY <1>2, <2>1, <2>6, WaitingKept
  <2>9. Ascending'
    BY <1>1, <2>1 DEF Ascending
  <2> QED
    BY <2>2, <2>3, <2>4, <2>5, <2>6, <2>7, <2>8, <2>9 DEF IInv
<1> QED
  BY <1>7, <1>8

(* A sequence without a member that is there once.                         *)
LEMMA WithoutOne ==
  ASSUME NEW S, NEW s \in Seq(S), NEW k \in 1 .. Len(s),
         \A i \in 1 .. Len(s) : s[i] = s[k] => i = k
  PROVE  LET r == RemoveFirst(s, s[k]) IN
         /\ r \in Seq(S) /\ Len(r) = Len(s) - 1
         /\ \A i \in 1 .. k - 1 : r[i] = s[i]
         /\ \A i \in k .. Len(s) - 1 : r[i] = s[i + 1]
<1>1. Len(s) \in Nat
  BY LenProperties
<1> DEFINE places == {i \in 1 .. Len(s) : s[i] = s[k]}
<1>2. places = {k}
  OBVIOUS
<1>3. Min({k}) = k
  BY DEF Min
<1>4. SelectInSeq(s, LAMBDA v : v = s[k]) = k
  BY <1>2, <1>3 DEF SelectInSeq
<1> DEFINE front == SubSeq(s, 1, k - 1)
           back == SubSeq(s, k + 1, Len(s))
           r == RemoveFirst(s, s[k])
<1>5. r = front \o back
  BY <1>2, <1>4 DEF RemoveFirst, RemoveAt
<1>6. PICK before \in Nat, behind \in Nat :
        before = k - 1 /\ behind = Len(s) - k /\ before + behind = Len(s) - 1
  <2>1. k \in Nat /\ k >= 1 /\ k <= Len(s)
    BY <1>1
  <2>2. k - 1 \in Nat /\ Len(s) - k \in Nat /\ (k - 1) + (Len(s) - k) = Len(s) - 1
    BY <1>1, <2>1
  <2> QED
    BY <2>2
<1>7. front \in Seq(S) /\ Len(front) = before /\ \A i \in 1 .. before : front[i] = s[i]
  <2>1. before <= Len(s) /\ 0 + 1 = 1 /\ before - 0 = before /\ \A i \in 1 .. before : 0 + i = i
    BY <1>1, <1>6
  <2>2. front = SubSeq(s, 0 + 1, before)
    BY <1>6
  <2> HIDE DEF front
  <2> QED
    BY <2>1, <2>2, Part
<1>8. back \in Seq(S) /\ Len(back) = behind /\ \A i \in 1 .. behind : back[i] = s[k + i]
  <2>1. k \in Nat /\ k <= Len(s) /\ Len(s) - k = behind
    BY <1>1, <1>6
  <2> HIDE DEF back
  <2> QED
    BY <1>1, <2>1, Part DEF back
<1> HIDE DEF front, back, r
<1>9. /\ r \in Seq(S) /\ Len(r) = before + behind
      /\ \A i \in 1 .. before + behind :
           r[i] = IF i <= before THEN front[i] ELSE back[i - before]
  <2>1. /\ front \o back \in Seq(S) /\ Len(front \o back) = Len(front) + Len(back)
        /\ \A i \in 1 .. Len(front) + Len(back) :
             (front \o back)[i] = IF i <= Len(front) THEN front[i] ELSE back[i - Len(front)]
    BY <1>7, <1>8, ConcatProperties
  <2> QED
    BY <1>5, <1>7, <1>8, <2>1
<1>10. ASSUME NEW i \in 1 .. k - 1 PROVE r[i] = s[i]
  <2>1. i \in 1 .. before /\ i \in 1 .. before + behind /\ i <= before
    BY <1>6
  <2> QED
    BY <1>7, <1>9, <2>1
<1>11. ASSUME NEW i \in k .. Len(s) - 1 PROVE r[i] = s[i + 1]
  <2>1. PICK j \in 1 .. behind : j = i - before /\ k + j = i + 1
    BY <1>1, <1>6
  <2>2. i \in 1 .. before + behind /\ ~(i <= before)
    BY <1>1, <1>6
  <2> QED
    BY <1>8, <1>9, <2>1, <2>2
<1> QED
  BY <1>6, <1>9, <1>10, <1>11 DEF r

(* What a write always does; the rest of the state is typed if these are.  *)
LEMMA WriteLeaves ==
  ASSUME IInv, WriteFile
  PROVE  /\ UNCHANGED <<size, server, messages, pipe>>
         /\ UNCHANGED <<reader, m_bConnected, m_bufferCache, handled, delivered, m_funcCallback>>
         /\ data \in Seq(Posts) /\ Len(data) = 1 /\ data' = <<>> /\ Len(data') = 0
         /\ Head(data) = data[1]
         /\ (bytes' \in Seq(Byte) /\ accepted' \in Seq(1 .. Len(size)) => TypeOK')
         /\ (accepted' # <<>> => accepted # <<>>) => Stages'
         /\ Gathered'
<1>1. TypeOK /\ Stages /\ Gathered
  BY DEF IInv
<1>2. /\ UNCHANGED <<size, server, messages, pipe>>
      /\ UNCHANGED <<reader, m_bConnected, m_bufferCache, handled, delivered, m_funcCallback>>
      /\ writer = "write" /\ writer' = "get" /\ data' = <<>>
  BY DEF WriteFile, readerVars
<1>3. data \in Seq(Posts) /\ Len(data) = 1
  BY <1>1, <1>2 DEF TypeOK
<1>4. Len(data') = 0 /\ data' \in Seq(Posts)
  BY <1>2
<1>5. ASSUME bytes' \in Seq(Byte), accepted' \in Seq(1 .. Len(size)) PROVE TypeOK'
  <2>1. Lists /\ Bounds
    BY <1>1 DEF TypeOK, Lists, Bounds, Bodies
  <2>2. Lists'
    BY <1>2, <1>4, <1>5, <2>1 DEF Lists
  <2>3. Bounds'
    BY <1>2, <1>4, <2>1 DEF Bounds
  <2>4. Places'
    BY <1>1, <1>2, PlacesKept DEF TypeOK
  <2> QED
    BY <2>2, <2>3, <2>4 DEF TypeOK, Lists, Places, Bounds, Bodies
<1>6. ASSUME accepted' # <<>> => accepted # <<>> PROVE Stages'
  BY <1>1, <1>2, <1>6 DEF Stages, HasQueue
<1>7. Gathered'
  BY <1>1, <1>2, GatheredKept
<1>8. Head(data) = data[1]
  BY <1>3
<1> QED
  BY <1>2, <1>3, <1>4, <1>5, <1>6, <1>7, <1>8

(* What the writer has in hand goes into the stream.                       *)
LEMMA WriteSucceeds ==
  ASSUME IInv, WriteFile, pipe = "open", UNCHANGED accepted,
         bytes' = bytes \o Package(Head(data))
  PROVE  IInv'
<1>1. TypeOK /\ Ascending /\ Framing
  BY DEF IInv
<1>2. /\ UNCHANGED <<size, messages, pipe, m_bufferCache, handled, delivered>>
      /\ data \in Seq(Posts) /\ Len(data) = 1 /\ data' = <<>> /\ Len(data') = 0
      /\ Head(data) = data[1]
  BY WriteLeaves
<1>3. PICK w \in Nat, at \in Positions : Framed(w, at) /\ Waiting(w)
  BY DEF IInv
<1>4. Framing'
  <2>1. handled <= Len(accepted')
    BY <1>1 DEF Framing
  <2> QED
    BY <1>1, <1>2, <2>1, FramingKept
<1>5. PICK v \in Nat, a \in Nat, m \in Nat :
        v = w + 1 /\ v = w + Len(data) /\ a = Len(accepted) /\ m = Len(messages)
  <2>1. w + Len(data) = w + 1
    BY <1>2
  <2>2. Len(accepted) \in Nat /\ Len(messages) \in Nat
    BY <1>1, Lengths
  <2> QED
    BY <2>1, <2>2
<1>6. /\ v <= a /\ a <= v + m /\ data[1] = accepted[v]
      /\ \A i \in 1 .. m : messages[i] # Quit => v + i <= a /\ messages[i] = accepted[v + i]
      /\ m > 0 /\ messages[m] = Quit => a < v + m
  BY <1>2, <1>3, <1>5 DEF Waiting
<1>7. w < Len(accepted) /\ Head(data) = accepted[w + 1]
  BY <1>2, <1>5, <1>6
<1>8. bytes' \in Seq(Byte) /\ \E longer \in Positions : Framed(w + 1, longer)'
  BY <1>1, <1>2, <1>3, <1>7, WriteExtends
<1>9. PICK longer \in Positions : Framed(v, longer)'
  BY <1>5, <1>8
<1>10. Waiting(v)'
  <2>1. v + Len(data') = v
    BY <1>2, <1>5
  <2> QED
    BY <1>2, <1>5, <1>6, <2>1 DEF Waiting
<1>11. TypeOK' /\ Stages' /\ Gathered'
  <2>1. accepted' \in Seq(1 .. Len(size))
    BY <1>1 DEF TypeOK
  <2> QED
    BY <1>8, <2>1, WriteLeaves
<1>12. Ascending'
  BY <1>1 DEF Ascending
<1> QED
  BY <1>4, <1>9, <1>10, <1>11, <1>12 DEF IInv

(* What the writer has in hand is gone, and nothing but that.              *)
LEMMA WriteFails ==
  ASSUME IInv, WriteFile, pipe = "open", UNCHANGED bytes,
         accepted' = RemoveFirst(accepted, Head(data))
  PROVE  IInv'
<1>1. TypeOK /\ Ascending /\ Framing
  BY DEF IInv
<1>2. /\ UNCHANGED <<size, messages, pipe, m_bufferCache, handled, delivered>>
      /\ data \in Seq(Posts) /\ Len(data) = 1 /\ data' = <<>> /\ Len(data') = 0
      /\ Head(data) = data[1]
  BY WriteLeaves
<1>3. PICK w \in Nat, at \in Positions : Framed(w, at) /\ Waiting(w)
  BY DEF IInv
<1>4. PICK v \in Nat, a \in Nat, m \in Nat :
        v = w + 1 /\ v = w + Len(data) /\ a = Len(accepted) /\ m = Len(messages)
  <2>1. w + Len(data) = w + 1
    BY <1>2
  <2>2. Len(accepted) \in Nat /\ Len(messages) \in Nat
    BY <1>1, Lengths
  <2> QED
    BY <2>1, <2>2
<1>5. /\ v <= a /\ a <= v + m /\ data[1] = accepted[v]
      /\ \A i \in 1 .. m : messages[i] # Quit => v + i <= a /\ messages[i] = accepted[v + i]
      /\ m > 0 /\ messages[m] = Quit => a < v + m
  BY <1>2, <1>3, <1>4 DEF Waiting
<1>6. PICK b \in Nat : b = a - 1 /\ w <= b
  BY <1>4, <1>5
<1>7. accepted \in Seq(1 .. Len(size)) /\ \A i \in 1 .. a : accepted[i] \in Nat
  <2>1. accepted \in Seq(1 .. Len(size))
    BY <1>1 DEF TypeOK
  <2>2. \A i \in 1 .. a : accepted[i] \in 1 .. Len(size)
    BY <1>1, <1>4, Numbers
  <2> QED
    BY <2>1, <2>2
<1>8. \A i, j \in 1 .. a : i < j => accepted[i] < accepted[j]
  BY <1>1, <1>4 DEF Ascending
<1>9. /\ accepted' \in Seq(1 .. Len(size)) /\ Len(accepted') = b
      /\ \A i \in 1 .. w : accepted'[i] = accepted[i]
      /\ \A i \in v .. b : accepted'[i] = accepted[i + 1]
  <2>1. \A i \in 1 .. a : accepted[i] = accepted[v] => i = v
    <3> SUFFICES ASSUME NEW i \in 1 .. a, i # v PROVE accepted[i] # accepted[v]
      OBVIOUS
    <3>1. v \in 1 .. a /\ (i < v \/ v < i)
      BY <1>4, <1>5
    <3>2. PICK x \in Nat, y \in Nat : x = accepted[i] /\ y = accepted[v]
      BY <1>7, <3>1
    <3>3. x < y \/ y < x
      BY <1>8, <3>1, <3>2
    <3> QED
      BY <3>2, <3>3
  <2>2. v \in 1 .. Len(accepted) /\ v - 1 = w /\ Len(accepted) - 1 = b
    BY <1>4, <1>5, <1>6
  <2>3. accepted' = RemoveFirst(accepted, accepted[v])
    BY <1>2, <1>5
  <2> DEFINE posts == 1 .. Len(size)
  <2> HIDE DEF posts
  <2>4. accepted \in Seq(posts)
    BY <1>7 DEF posts
  <2>5. LET r == RemoveFirst(accepted, accepted[v]) IN
        /\ r \in Seq(posts) /\ Len(r) = Len(accepted) - 1
        /\ \A i \in 1 .. v - 1 : r[i] = accepted[i]
        /\ \A i \in v .. Len(accepted) - 1 : r[i] = accepted[i + 1]
    BY <1>4, <2>1, <2>2, <2>4, WithoutOne
  <2> QED
    BY <2>2, <2>3, <2>5 DEF posts
<1>10. TypeOK' /\ Stages' /\ Gathered'
  <2>1. bytes' \in Seq(Byte)
    BY <1>1 DEF TypeOK
  <2>2. accepted # <<>>
    BY <1>4, <1>5
  <2> QED
    BY <1>9, <2>1, <2>2, WriteLeaves
<1>11. handled \in Nat /\ handled <= w /\ \A i \in 1 .. handled : i \in 1 .. w
  <2>1. handled \in Nat /\ handled <= w
    BY <1>1, <1>3, Lengths DEF Framed
  <2> QED
    BY <2>1
<1>12. Framed(w, at)'
  BY <1>1, <1>2, <1>3, <1>6, <1>9, <1>10, StreamKept
<1>13. Framing'
  <2>1. handled <= Len(accepted')
    BY <1>6, <1>9, <1>11
  <2> QED
    BY <1>1, <1>2, <1>9, <1>11, <2>1, FramingKept
<1>14. Ascending'
  <2>1. ASSUME NEW i \in 1 .. b, NEW j \in 1 .. b, i < j
        PROVE  accepted'[i] < accepted'[j]
    <3> DEFINE old(k) == IF k <= w THEN k ELSE k + 1
    <3>1. \A k \in 1 .. b : old(k) \in 1 .. a /\ accepted'[k] = accepted[old(k)]
      <4> TAKE k \in 1 .. b
      <4>1. CASE k <= w
        <5>1. k \in 1 .. w /\ k \in 1 .. a /\ old(k) = k
          BY <1>4, <1>6, <4>1
        <5>2. accepted'[k] = accepted[k]
          BY <1>9, <5>1
        <5> QED
          BY <5>1, <5>2
      <4>2. CASE ~(k <= w)
        <5>1. k \in v .. b /\ k + 1 \in 1 .. a /\ old(k) = k + 1
          BY <1>4, <1>6, <4>2
        <5>2. accepted'[k] = accepted[k + 1]
          BY <1>9, <5>1
        <5> QED
          BY <5>1, <5>2
      <4> QED
        BY <4>1, <4>2
    <3>2. old(i) < old(j)
      BY <2>1
    <3> HIDE DEF old
    <3> QED
      BY <1>8, <3>1, <3>2
  <2> QED
    BY <1>9, <2>1 DEF Ascending
<1>15. Waiting(w)'
  <2>1. w + Len(data') = w /\ w <= b
    BY <1>2, <1>6
  <2>2. ASSUME NEW i \in 1 .. m, messages[i] # Quit
        PROVE  w + i <= b /\ messages[i] = accepted'[w + i]
    <3>1. v + i <= a /\ messages[i] = accepted[v + i]
      BY <1>5, <2>2
    <3>2. PICK k \in v .. b : k = w + i /\ k + 1 = v + i
      BY <1>4, <1>6, <3>1
    <3>3. accepted'[k] = accepted[k + 1] /\ k <= b
      BY <1>9
    <3>4. messages[i] = accepted[k + 1]
      BY <3>1, <3>2
    <3> QED
      BY <3>2, <3>3, <3>4
  <2>3. b <= w + m /\ (m > 0 /\ messages[m] = Quit => b < w + m)
    BY <1>4, <1>5, <1>6
  <2> QED
    BY <1>2, <1>4, <1>9, <2>1, <2>2, <2>3 DEF Waiting
<1> QED
  BY <1>10, <1>12, <1>13, <1>14, <1>15 DEF IInv

(* A write succeeds or fails at an open pipe, and fails at a closed one.   *)
LEMMA WriteStep ==
  ASSUME IInv, WriteFile
  PROVE  IInv'
<1>1. TypeOK /\ Stages /\ Ascending /\ Framing /\ writer = "write"
  BY DEF IInv, WriteFile
<1>2. CASE pipe = "open"
  <2>1. \/ bytes' = bytes \o Package(Head(data)) /\ UNCHANGED accepted
        \/ accepted' = RemoveFirst(accepted, Head(data)) /\ UNCHANGED bytes
    BY <1>2 DEF WriteFile
  <2> QED
    BY <1>2, <2>1, WriteSucceeds, WriteFails
<1>3. CASE pipe = "closed"
  <2>1. UNCHANGED <<accepted, bytes>>
    BY <1>3 DEF WriteFile
  <2>2. TypeOK' /\ Stages' /\ Gathered'
    BY <1>1, <2>1, WriteLeaves DEF TypeOK
  <2>3. pipe' = "closed" /\ UNCHANGED <<size, handled, m_bufferCache, delivered>>
    BY <1>3, WriteLeaves
  <2>4. \A w \in Nat : Waiting(w) => Waiting(w)'
    BY <2>3 DEF Waiting
  <2> QED
    BY <2>1, <2>2, <2>3, <2>4, Quiet DEF IInv
<1> QED
  BY <1>1, <1>2, <1>3 DEF Stages

(* The cache holds less than a package before a read, so what is read fits. *)
LEMMA ReadStep ==
  ASSUME IInv, ReadFile
  PROVE  IInv'
<1>1. TypeOK /\ Stages /\ Gathered /\ Ascending /\ Framing
  BY DEF IInv
<1>2. /\ UNCHANGED <<size, server, accepted, writer, messages, data, pipe>>
      /\ UNCHANGED <<m_bConnected, handled, delivered, m_funcCallback>>
      /\ reader = "read" /\ reader' = "handle"
  BY DEF ReadFile, serverVars, writerVars
<1>3. PICK w \in Nat, at \in Positions : Framed(w, at) /\ Waiting(w)
  BY DEF IInv
<1>4. /\ m_bufferCache' \in Seq(Byte) /\ bytes' \in Seq(Byte)
      /\ Len(m_bufferCache') <= Len(m_bufferCache) + BUFFER_MAX_LEN
      /\ Framed(w, at)'
  BY <1>1, <1>3, ReadKeeps
<1>5. Len(m_bufferCache') <= CacheSize
  <2>1. Len(m_bufferCache) < BUFFER_MAX_LEN
    BY <1>1, <1>2 DEF Gathered
  <2>2. Len(m_bufferCache) \in Nat /\ Len(m_bufferCache') \in Nat
    <3> HIDE DEF Byte
    <3> QED
      BY <1>1, <1>4, Lengths
  <2> QED
    BY <1>4, <2>1, <2>2, PipeAssumption
<1>6. TypeOK'
  <2>1. Lists /\ Bounds /\ Places
    BY <1>1 DEF TypeOK, Lists, Places, Bounds, Bodies
  <2>2. Lists'
    BY <1>2, <1>4, <2>1 DEF Lists
  <2>3. Bounds'
    BY <1>2, <1>5, <2>1 DEF Bounds
  <2>4. Places'
    <3>1. m_bConnected = (reader \in {"read", "handle"})
      BY <2>1 DEF Places
    <3>2. (reader \in {"read", "handle"}) = TRUE /\ (reader' \in {"read", "handle"}) = TRUE
      BY <1>2
    <3>3. m_bConnected' = (reader' \in {"read", "handle"})
      BY <1>2, <3>1, <3>2
    <3> QED
      BY <1>2, <2>1, <3>3 DEF Places
  <2> QED
    BY <2>2, <2>3, <2>4 DEF TypeOK, Lists, Places, Bounds, Bodies
<1>7. Stages'
  BY <1>1, <1>2 DEF Stages, HasQueue
<1>8. Gathered'
  BY <1>1, <1>2 DEF Gathered
<1>9. Framing'
  <2>1. handled <= Len(accepted')
    BY <1>1, <1>2 DEF Framing
  <2> QED
    BY <1>1, <1>2, <2>1, FramingKept
<1>10. Waiting(w)'
  BY <1>2, <1>3, WaitingKept
<1>11. Ascending'
  BY <1>1, <1>2 DEF Ascending
<1> QED
  BY <1>3, <1>4, <1>6, <1>7, <1>8, <1>9, <1>10, <1>11 DEF IInv

(* A package is cut from the cache and its body delivered.                 *)
LEMMA CutStep ==
  ASSUME IInv, HandleData
  PROVE  IInv'
<1>1. TypeOK /\ Stages /\ Gathered /\ Ascending /\ Framing
  BY DEF IInv
<1>2. /\ UNCHANGED <<size, server, accepted, writer, messages, data, pipe, bytes>>
      /\ UNCHANGED <<reader, m_bConnected, m_funcCallback>> /\ reader = "handle"
  BY DEF HandleData, serverVars, writerVars
<1>3. PICK w \in Nat, at \in Positions : Framed(w, at) /\ Waiting(w)
  BY DEF IInv
<1>4. /\ m_bufferCache' \in Seq(Byte) /\ Len(m_bufferCache') <= Len(m_bufferCache)
      /\ Framed(w, at)'
  BY <1>1, <1>3, HandleShifts
<1>5. /\ handled' \in Nat /\ delivered' \in Seq(Seq(Byte)) /\ Len(delivered') <= handled'
      /\ Framing' /\ (~m_funcCallback => delivered' = <<>>)
  BY <1>1, <1>3, HandleDelivers
<1>6. TypeOK'
  <2>1. Lists /\ Bounds /\ Places
    BY <1>1 DEF TypeOK, Lists, Places, Bounds, Bodies
  <2>2. Lists'
    <3>1. delivered' \in Bodies
      BY <1>5 DEF Bodies
    <3> QED
      BY <1>2, <1>4, <2>1, <3>1 DEF Lists
  <2>3. Bounds'
    <3>1. Len(m_bufferCache) \in Nat /\ Len(m_bufferCache') \in Nat
      <4> HIDE DEF Byte
      <4> QED
        BY <1>1, <1>4, Lengths
    <3>2. Len(m_bufferCache') <= CacheSize
      BY <1>4, <2>1, <3>1, PipeAssumption DEF Bounds
    <3> QED
      BY <1>2, <1>5, <2>1, <3>2 DEF Bounds
  <2>4. Places'
    BY <1>2, <2>1 DEF Places
  <2> QED
    BY <2>2, <2>3, <2>4 DEF TypeOK, Lists, Places, Bounds, Bodies
<1>7. Stages'
  BY <1>1, <1>2 DEF Stages, HasQueue
<1>8. Gathered'
  BY <1>1, <1>2, <1>5 DEF Gathered
<1>9. Waiting(w)'
  BY <1>2, <1>3, WaitingKept
<1>10. Ascending'
  BY <1>1, <1>2 DEF Ascending
<1> QED
  BY <1>3, <1>4, <1>5, <1>6, <1>7, <1>8, <1>9, <1>10 DEF IInv

-----------------------------------------------------------------------------
(* Framed and the rest are kept by every step of the two processes.        *)
THEOREM PipeInductive == Spec => []IInv
<1>1. Init => IInv
  <2> SUFFICES ASSUME Init PROVE IInv
    OBVIOUS
  <2>1. /\ Len(size) = 0 /\ Len(accepted) = 0 /\ Len(data) = 0 /\ Len(messages) = 0
        /\ Len(bytes) = 0 /\ Len(m_bufferCache) = 0 /\ Len(delivered) = 0 /\ handled = 0
    BY DEF Init
  <2>2. TypeOK
    <3>1. Lists
      BY DEF Init, Lists, Bodies
    <3>2. Bounds
      BY <2>1, PipeAssumption DEF Init, Bounds
    <3>3. Places
      <4>1. m_bConnected = (reader \in {"read", "handle"})
        <5>1. (reader \in {"read", "handle"}) = FALSE
          BY DEF Init
        <5> QED
          BY <5>1 DEF Init
      <4> QED
        BY <4>1 DEF Init, Places
    <3> QED
      BY <3>1, <3>2, <3>3 DEF TypeOK, Lists, Places, Bounds, Bodies
  <2>3. Stages
    BY <2>1 DEF Init, Stages, HasQueue
  <2>4. Gathered
    BY <2>1, PipeAssumption DEF Init, Gathered
  <2>5. Framing
    BY DEF Init, Framing
  <2>6. PICK at \in Positions : at[0] = 0
    <3>1. [i \in Nat |-> 0] \in Positions /\ [i \in Nat |-> 0][0] = 0
      BY DEF Positions
    <3> QED
      BY <3>1
  <2>7. Framed(0, at)
    BY <2>1, <2>6 DEF Framed
  <2>8. Waiting(0)
    BY <2>1 DEF Waiting
  <2>9. Ascending
    BY <2>1 DEF Ascending
  <2> QED
    BY <2>2, <2>3, <2>4, <2>5, <2>6, <2>7, <2>8, <2>9 DEF IInv
<1>2. IInv /\ [Next]_vars => IInv'
  <2> SUFFICES ASSUME IInv, [Next]_vars PROVE IInv'
    OBVIOUS
  <2>1. CASE Initialize \/ CreateNamedPipe \/ ConnectNamedPipe \/ Connected \/ PeekMessage
    BY <2>1, ServerSteps
  <2>2. CASE \E n \in Sizes : WriteData(n)
    BY <2>2, PostStep
  <2>3. CASE Destroy
    BY <2>3, DestroyStep
  <2>4. CASE ServerEnds
    BY <2>4, EndStep
  <2>5. CASE GetMessage
    BY <2>5, GetStep
  <2>6. CASE WriteFile
    BY <2>6, WriteStep
  <2>7. CASE ReadFile
    BY <2>7, ReadStep
  <2>8. CASE HandleData
    BY <2>8, CutStep
  <2>9. CASE SetReadCallback \/ WaitNamedPipe \/ CreateFile \/ ReadFails \/ HandleEnds \/ ClientEnds
    BY <2>9, ClientSteps
  <2>10. CASE UNCHANGED vars
    <3>1. /\ UNCHANGED <<size, server, accepted, writer, data, messages, pipe, bytes>>
          /\ UNCHANGED <<reader, m_bConnected, m_bufferCache, handled, delivered, m_funcCallback>>
      BY <2>10 DEF vars, serverVars, writerVars, readerVars
    <3>2. TypeOK /\ Stages /\ Gathered
      BY DEF IInv
    <3>3. TypeOK'
      <4>1. Lists /\ Places /\ Bounds
        BY <3>2 DEF TypeOK, Lists, Places, Bounds, Bodies
      <4>2. Lists' /\ Places' /\ Bounds'
        BY <3>1, <4>1 DEF Lists, Places, Bounds
      <4> QED
        BY <4>2 DEF TypeOK, Lists, Places, Bounds, Bodies
    <3>4. Stages' /\ Gathered'
      BY <3>1, <3>2 DEF Stages, Gathered, HasQueue
    <3>5. \A w \in Nat : Waiting(w) => Waiting(w)'
      BY <3>1, WaitingKept
    <3> QED
      BY <3>1, <3>3, <3>4, <3>5, Quiet DEF IInv
  <2> QED
    BY <2>1, <2>2, <2>3, <2>4, <2>5, <2>6, <2>7, <2>8, <2>9, <2>10 DEF Next, Writer, Reader
<1> QED
  BY <1>1, <1>2, PTL DEF Spec

(* ReadFile never copies past the end of m_bufferCache (ReadPipe.cpp:83):  *)
(* what is left of a package and a full buffer fit, however the stream was *)
(* cut, because its 4096 bytes are at least twice the 1024 of a read.      *)
THEOREM PipeTyping == Spec => []TypeOK
<1>1. IInv => TypeOK
  BY DEF IInv
<1> QED
  BY <1>1, PipeInductive, PTL

(* What the callback gets are the posts that met a queue, whole and in     *)
(* order, none left out in between but those whose own write failed        *)
(* (WritePipe.cpp:110), for every cut of the stream by reads, every loss   *)
(* of either process and every moment the callback is set at.              *)
THEOREM PackagesArriveWhole == Spec => []Framing
<1>1. IInv => Framing
  BY DEF IInv
<1> QED
  BY <1>1, PipeInductive, PTL

-----------------------------------------------------------------------------
(* Lists joined one after the other: an induction over their number.       *)

(* Every nonempty set of numbers has a least one.                          *)
LEMMA LeastNumber ==
  ASSUME NEW numbers \in SUBSET Nat, numbers # {}
  PROVE  \E n \in numbers : \A m \in numbers : n <= m
<1> DEFINE cuts == {0 .. n : n \in numbers}
<1>1. cuts \subseteq FiniteSubsetsOf(Nat)
  <2> SUFFICES ASSUME NEW n \in numbers PROVE 0 .. n \in FiniteSubsetsOf(Nat)
    OBVIOUS
  <2>1. n \in Nat /\ 0 .. n \subseteq Nat
    OBVIOUS
  <2>2. IsFiniteSet(0 .. n)
    BY <2>1, FS_Interval
  <2> QED
    BY <2>1, <2>2 DEF FiniteSubsetsOf
<1>2. cuts # {}
  OBVIOUS
<1>3. PICK cut \in cuts : \A other \in cuts : <<other, cut>> \notin StrictSubsetOrdering(Nat)
  <2> HIDE DEF cuts
  <2> QED
    BY <1>1, <1>2, WFMin, FS_StrictSubsetOrderingWellFounded
<1>4. PICK n \in numbers : cut = 0 .. n
  OBVIOUS
<1>5. ASSUME NEW m \in numbers, m < n PROVE FALSE
  <2>1. m \in Nat /\ n \in Nat
    OBVIOUS
  <2>2. 0 .. m \subseteq 0 .. n /\ 0 .. m # 0 .. n
    <3>1. n \in 0 .. n /\ n \notin 0 .. m
      BY <2>1, <1>5
    <3> QED
      BY <2>1, <1>5, <3>1
  <2>3. <<0 .. m, 0 .. n>> \in StrictSubsetOrdering(Nat)
    BY <2>1, <2>2 DEF StrictSubsetOrdering
  <2> QED
    BY <1>3, <1>4, <2>3
<1>6. \A m \in numbers : n <= m
  <2> TAKE m \in numbers
  <2>1. m \in Nat /\ n \in Nat
    OBVIOUS
  <2> QED
    BY <2>1, <1>5
<1> QED
  BY <1>6

(* Induction, over the numbers of a set.                                   *)
LEMMA AllNumbers ==
  ASSUME NEW numbers, 0 \in numbers, \A n \in Nat : n \in numbers => n + 1 \in numbers
  PROVE  Nat \subseteq numbers
<1> SUFFICES ASSUME Nat \ numbers # {} PROVE FALSE
  OBVIOUS
<1>1. PICK n \in Nat \ numbers : \A m \in Nat \ numbers : n <= m
  BY LeastNumber
<1>2. n - 1 \in Nat
  BY <1>1
<1>3. n - 1 \in numbers
  BY <1>1, <1>2
<1>4. n - 1 + 1 = n
  OBVIOUS
<1>5. n - 1 + 1 \in numbers
  BY <1>2, <1>3
<1> QED
  BY <1>4, <1>5

(* joined joins the first n lists of s, one after the other.               *)
Joins(s, n, joined) ==
  joined = [i \in 1 .. n |-> IF i = 1 THEN s[i] ELSE joined[i - 1] \o s[i]]

(* The lists can be joined, as many as there are, by induction.            *)
LEMMA JoinsExist ==
  ASSUME NEW S, NEW s \in Seq(Seq(S)), NEW n \in Nat, n <= Len(s)
  PROVE  \E joined \in [1 .. n -> Seq(S)] : Joins(s, n, joined)
<1> DEFINE Lists0 == Seq(S)
           Reached(k) == k <= Len(s) => \E g \in [1 .. k -> Lists0] : Joins(s, k, g)
           reached == {k \in Nat : Reached(k)}
<1>1. Len(s) \in Nat /\ \A i \in 1 .. Len(s) : s[i] \in Lists0
  <2> HIDE DEF Lists0
  <2>1. s \in Seq(Lists0)
    BY DEF Lists0
  <2> QED
    BY <2>1, LenProperties, ElementOfSeq
<1>2. 0 \in reached
  <2> DEFINE g == [i \in 1 .. 0 |-> s[i]]
  <2>1. g \in [1 .. 0 -> Lists0]
    BY <1>1
  <2>2. Joins(s, 0, g)
    BY DEF Joins
  <2> QED
    BY <2>1, <2>2
<1>3. ASSUME NEW k \in Nat, k \in reached
      PROVE  k + 1 \in reached
  <2> SUFFICES ASSUME k + 1 <= Len(s)
               PROVE  \E g \in [1 .. k + 1 -> Lists0] : Joins(s, k + 1, g)
    OBVIOUS
  <2>1. PICK f \in [1 .. k -> Lists0] : Joins(s, k, f)
    <3>1. k <= Len(s)
      BY <1>1
    <3>2. Reached(k)
      BY <1>3
    <3> QED
      BY <3>1, <3>2
  <2> DEFINE last == IF k = 0 THEN s[1] ELSE f[k] \o s[k + 1]
             g == [i \in 1 .. k + 1 |-> IF i = k + 1 THEN last ELSE f[i]]
  <2>2. last \in Lists0
    <3>1. s[k + 1] \in Lists0
      BY <1>1
    <3>2. CASE k = 0
      BY <3>1, <3>2
    <3>3. CASE k # 0
      <4>1. f[k] \in Seq(S)
        BY <2>1, <3>3
      <4>2. f[k] \o s[k + 1] \in Seq(S)
        BY <3>1, <4>1, ConcatProperties
      <4> QED
        BY <3>3, <4>2
    <3> QED
      BY <3>2, <3>3
  <2> HIDE DEF last
  <2>3. g \in [1 .. k + 1 -> Lists0]
    <3> HIDE DEF Lists0
    <3> QED
      BY <2>1, <2>2
  <2>4. \A i \in 1 .. k : g[i] = f[i] /\ f[i] = IF i = 1 THEN s[i] ELSE f[i - 1] \o s[i]
    <3>1. \A i \in 1 .. k : g[i] = f[i]
      OBVIOUS
    <3>2. \A i \in 1 .. k : f[i] = IF i = 1 THEN s[i] ELSE f[i - 1] \o s[i]
      <4> HIDE DEF g
      <4> QED
        BY <2>1 DEF Joins
    <3> QED
      BY <3>1, <3>2
  <2>5. g[k + 1] = last
    OBVIOUS
  <2> HIDE DEF g
  <2>6. \A i \in 1 .. k + 1 : g[i] = IF i = 1 THEN s[i] ELSE g[i - 1] \o s[i]
    <3> TAKE i \in 1 .. k + 1
    <3>1. CASE i = k + 1 /\ k = 0
      BY <2>5, <3>1 DEF last
    <3>2. CASE i = k + 1 /\ k # 0
      <4>1. k \in 1 .. k /\ i - 1 = k /\ i # 1
        BY <3>2
      <4>2. g[k] = f[k]
        BY <2>4, <4>1
      <4> QED
        BY <2>5, <3>2, <4>1, <4>2 DEF last
    <3>3. CASE i \in 1 .. k
      <4>1. i # 1 => i - 1 \in 1 .. k
        BY <3>3
      <4> QED
        BY <2>4, <3>3, <4>1
    <3> QED
      BY <3>1, <3>2, <3>3
  <2>7. Joins(s, k + 1, g)
    <3>1. g = [i \in 1 .. k + 1 |-> g[i]]
      BY <2>3
    <3> QED
      BY <2>6, <3>1 DEF Joins
  <2> QED
    BY <2>3, <2>7
<1>4. n \in reached
  <2> HIDE DEF reached
  <2> QED
    BY <1>2, <1>3, AllNumbers
<1> QED
  BY <1>4

(* The lists joined, member by member, by induction.                       *)
LEMMA Flattened ==
  ASSUME NEW S, NEW s \in Seq(Seq(S)), NEW f, f[0] = <<>>,
         \A i \in 1 .. Len(s) : f[i] = f[i - 1] \o s[i]
  PROVE  FlattenSeq(s) = f[Len(s)] /\ \A i \in 0 .. Len(s) : f[i] \in Seq(S)
<1>1. Len(s) \in Nat /\ \A i \in 1 .. Len(s) : s[i] \in Seq(S)
  <2> DEFINE Lists0 == Seq(S)
  <2> HIDE DEF Lists0
  <2>1. s \in Seq(Lists0)
    BY DEF Lists0
  <2>2. Len(s) \in Nat /\ \A i \in 1 .. Len(s) : s[i] \in Lists0
    BY <2>1, LenProperties, ElementOfSeq
  <2> QED
    BY <2>2 DEF Lists0
<1>2. \A i \in 0 .. Len(s) : f[i] \in Seq(S)
  <2> DEFINE lists == {n \in Nat : n <= Len(s) => f[n] \in Seq(S)}
  <2>1. 0 \in lists
    BY EmptySeq
  <2>2. ASSUME NEW n \in Nat, n \in lists PROVE n + 1 \in lists
    <3> SUFFICES ASSUME n + 1 <= Len(s) PROVE f[n + 1] \in Seq(S)
      OBVIOUS
    <3>1. n <= Len(s) /\ n + 1 \in 1 .. Len(s) /\ (n + 1) - 1 = n
      BY <1>1
    <3>2. f[n] \in Seq(S) /\ s[n + 1] \in Seq(S)
      BY <1>1, <2>2, <3>1
    <3>3. f[n + 1] = f[n] \o s[n + 1]
      <4>1. f[n + 1] = f[(n + 1) - 1] \o s[n + 1]
        BY <3>1
      <4> QED
        BY <3>1, <4>1
    <3> QED
      BY <3>2, <3>3, ConcatProperties
  <2> HIDE DEF lists
  <2>3. Nat \subseteq lists
    BY <2>1, <2>2, AllNumbers
  <2> QED
    BY <2>3, <1>1 DEF lists
<1>3. CASE Len(s) = 0
  <2>1. s = <<>>
    BY <1>3, EmptySeq
  <2>2. FlattenSeq(s) = s
    BY <1>3 DEF FlattenSeq
  <2> QED
    BY <1>2, <1>3, <2>1, <2>2
<1>4. CASE Len(s) # 0
  <2> DEFINE joined == CHOOSE g : Joins(s, Len(s), g)
  <2>1. Joins(s, Len(s), joined)
    <3>1. \E g \in [1 .. Len(s) -> Seq(S)] : Joins(s, Len(s), g)
      BY <1>1, JoinsExist
    <3> QED
      BY <3>1
  <2>2. FlattenSeq(s) = joined[Len(s)]
    BY <1>4 DEF FlattenSeq, Joins
  <2> HIDE DEF joined
  <2>3. \A i \in 1 .. Len(s) : joined[i] = IF i = 1 THEN s[i] ELSE joined[i - 1] \o s[i]
    BY <2>1 DEF Joins
  <2> DEFINE same == {n \in Nat : n + 1 <= Len(s) => joined[n + 1] = f[n + 1]}
  <2>4. 0 \in same
    <3>1. 1 \in 1 .. Len(s) /\ 1 - 1 = 0 /\ 0 + 1 = 1
      BY <1>1, <1>4
    <3>2. joined[1] = s[1] /\ f[1] = <<>> \o s[1] /\ s[1] \in Seq(S)
      BY <1>1, <2>3, <3>1
    <3>3. <<>> \o s[1] = s[1]
      BY <3>2, ConcatEmptySeq
    <3> QED
      BY <3>1, <3>2, <3>3
  <2>5. ASSUME NEW n \in Nat, n \in same PROVE n + 1 \in same
    <3> SUFFICES ASSUME n + 1 + 1 <= Len(s) PROVE joined[n + 1 + 1] = f[n + 1 + 1]
      OBVIOUS
    <3>1. /\ n + 1 <= Len(s) /\ n + 1 + 1 \in 1 .. Len(s) /\ (n + 1 + 1) - 1 = n + 1
          /\ n + 1 + 1 # 1
      BY <1>1
    <3>2. joined[n + 1] = f[n + 1]
      BY <2>5, <3>1
    <3>3. joined[n + 1 + 1] = joined[n + 1] \o s[n + 1 + 1]
      <4>1. joined[n + 1 + 1] = joined[(n + 1 + 1) - 1] \o s[n + 1 + 1]
        BY <2>3, <3>1
      <4> QED
        BY <3>1, <4>1
    <3>4. f[n + 1 + 1] = f[n + 1] \o s[n + 1 + 1]
      <4>1. f[n + 1 + 1] = f[(n + 1 + 1) - 1] \o s[n + 1 + 1]
        BY <3>1
      <4> QED
        BY <3>1, <4>1
    <3> QED
      BY <3>2, <3>3, <3>4
  <2>6. Len(s) - 1 \in same
    <3> HIDE DEF same
    <3>1. Len(s) - 1 \in Nat
      BY <1>1, <1>4
    <3> QED
      BY <2>4, <2>5, <3>1, AllNumbers
  <2>7. joined[Len(s)] = f[Len(s)]
    <3>1. Len(s) - 1 + 1 = Len(s)
      BY <1>1
    <3> QED
      BY <1>1, <2>6, <3>1
  <2> QED
    BY <1>2, <2>2, <2>7
<1> QED
  BY <1>3, <1>4

(* How far the lists are joined after each of them.                        *)
LEMMA JoinedSoFar ==
  ASSUME NEW S, NEW s \in Seq(Seq(S))
  PROVE  /\ Len(s) \in Nat /\ \A i \in 1 .. Len(s) : s[i] \in Seq(S)
         /\ \E f \in [0 .. Len(s) -> Seq(S)] :
              f[0] = <<>> /\ \A i \in 1 .. Len(s) : f[i] = f[i - 1] \o s[i]
<1> DEFINE Lists0 == Seq(S)
<1>1. Len(s) \in Nat /\ \A i \in 1 .. Len(s) : s[i] \in Lists0
  <2> HIDE DEF Lists0
  <2>1. s \in Seq(Lists0)
    BY DEF Lists0
  <2> QED
    BY <2>1, LenProperties, ElementOfSeq
<1>2. PICK g \in [1 .. Len(s) -> Lists0] : Joins(s, Len(s), g)
  BY <1>1, JoinsExist
<1>3. \A i \in 1 .. Len(s) : g[i] = IF i = 1 THEN s[i] ELSE g[i - 1] \o s[i]
  <2> HIDE DEF Lists0
  <2> QED
    BY <1>2 DEF Joins
<1> DEFINE f == [i \in 0 .. Len(s) |-> IF i = 0 THEN <<>> ELSE g[i]]
<1>4. <<>> \in Lists0
  BY EmptySeq
<1>5. f \in [0 .. Len(s) -> Lists0] /\ f[0] = <<>>
  <2> HIDE DEF Lists0
  <2> QED
    BY <1>1, <1>2, <1>4
<1>6. \A i \in 1 .. Len(s) : f[i] = g[i]
  <2> HIDE DEF Lists0
  <2> QED
    BY <1>1
<1> HIDE DEF f
<1>7. ASSUME NEW i \in 1 .. Len(s) PROVE f[i] = f[i - 1] \o s[i]
  <2>1. CASE i = 1
    <3>1. f[i - 1] = <<>> /\ f[i] = s[i] /\ s[i] \in Seq(S)
      <4>1. i - 1 = 0
        BY <2>1
      <4>2. g[i] = s[i]
        BY <1>3, <2>1
      <4> QED
        BY <1>1, <1>5, <1>6, <4>1, <4>2
    <3> QED
      BY <3>1, ConcatEmptySeq
  <2>2. CASE i # 1
    <3>1. i - 1 \in 1 .. Len(s)
      BY <1>1, <2>2
    <3>2. g[i] = g[i - 1] \o s[i]
      BY <1>3, <2>2
    <3> QED
      BY <1>6, <3>1, <3>2
  <2> QED
    BY <2>1, <2>2
<1> QED
  BY <1>1, <1>5, <1>7

(* The lists of members of S: names for them and for how they are joined. *)
ListsOf(S) == Seq(S)
Join(a, b) == a \o b

(* Lists are joined in whatever order.                                     *)
LEMMA JoinThree ==
  ASSUME NEW S, NEW a \in ListsOf(S), NEW b \in ListsOf(S), NEW c \in ListsOf(S)
  PROVE  Join(Join(a, b), c) = Join(a, Join(b, c))
BY ConcatAssociative DEF ListsOf, Join

(* The empty list adds nothing.                                            *)
LEMMA JoinEmpty ==
  ASSUME NEW S, NEW a \in ListsOf(S)
  PROVE  a \o <<>> = a
BY ConcatEmptySeq DEF ListsOf

(* To join one list of lists after another is to join both.                *)
LEMMA FlattenConcat ==
  ASSUME NEW S, NEW s \in Seq(ListsOf(S)), NEW t \in Seq(ListsOf(S))
  PROVE  /\ FlattenSeq(s) \in Seq(S) /\ FlattenSeq(t) \in Seq(S)
         /\ FlattenSeq(s \o t) = FlattenSeq(s) \o FlattenSeq(t)
<1>1. /\ Len(s) \in Nat /\ \A i \in 1 .. Len(s) : s[i] \in ListsOf(S)
      /\ Len(t) \in Nat /\ \A i \in 1 .. Len(t) : t[i] \in ListsOf(S)
  BY JoinedSoFar DEF ListsOf
<1>2. PICK f \in [0 .. Len(s) -> ListsOf(S)] :
        f[0] = <<>> /\ \A i \in 1 .. Len(s) : f[i] = f[i - 1] \o s[i]
  BY JoinedSoFar DEF ListsOf
<1>3. PICK g \in [0 .. Len(t) -> ListsOf(S)] :
        g[0] = <<>> /\ \A i \in 1 .. Len(t) : g[i] = g[i - 1] \o t[i]
  BY JoinedSoFar DEF ListsOf
<1>4. FlattenSeq(s) = f[Len(s)] /\ f[Len(s)] \in ListsOf(S)
  <2>1. FlattenSeq(s) = f[Len(s)] /\ \A i \in 0 .. Len(s) : f[i] \in Seq(S)
    BY <1>2, Flattened, Zenon DEF ListsOf
  <2>2. Len(s) \in 0 .. Len(s)
    BY <1>1
  <2> QED
    BY <2>1, <2>2 DEF ListsOf
<1>5. FlattenSeq(t) = g[Len(t)] /\ g[Len(t)] \in ListsOf(S)
  <2>1. FlattenSeq(t) = g[Len(t)] /\ \A i \in 0 .. Len(t) : g[i] \in Seq(S)
    BY <1>3, Flattened, Zenon DEF ListsOf
  <2>2. Len(t) \in 0 .. Len(t)
    BY <1>1
  <2> QED
    BY <2>1, <2>2 DEF ListsOf
<1> DEFINE both == s \o t
<1>6. /\ both \in Seq(ListsOf(S)) /\ Len(both) = Len(s) + Len(t)
      /\ \A i \in 1 .. Len(s) + Len(t) :
           both[i] = IF i <= Len(s) THEN s[i] ELSE t[i - Len(s)]
  BY ConcatProperties
<1> HIDE DEF both
<1> DEFINE h == [i \in 0 .. Len(s) + Len(t) |->
                   IF i <= Len(s) THEN f[i] ELSE f[Len(s)] \o g[i - Len(s)]]
<1>7. h[0] = <<>>
  BY <1>1, <1>2
<1>8. h[Len(s) + Len(t)] = f[Len(s)] \o g[Len(t)]
  <2>1. CASE Len(t) = 0
    <3>1. g[Len(t)] = <<>>
      BY <1>3, <2>1
    <3>2. h[Len(s) + Len(t)] = f[Len(s)]
      BY <1>1, <2>1
    <3>3. f[Len(s)] \o <<>> = f[Len(s)]
      BY <1>4, JoinEmpty
    <3> QED
      BY <3>1, <3>2, <3>3
  <2>2. CASE Len(t) # 0
    <3>1. /\ ~(Len(s) + Len(t) <= Len(s)) /\ Len(s) + Len(t) \in 0 .. Len(s) + Len(t)
          /\ (Len(s) + Len(t)) - Len(s) = Len(t)
      BY <1>1, <2>2
    <3> QED
      BY <3>1
  <2> QED
    BY <2>1, <2>2
<1>9. ASSUME NEW i \in 1 .. Len(s) + Len(t) PROVE h[i] = Join(h[i - 1], both[i])
  <2>1. CASE i <= Len(s)
    <3>1. i \in 1 .. Len(s) /\ i - 1 \in 0 .. Len(s) + Len(t) /\ i - 1 <= Len(s)
      BY <1>1, <2>1
    <3>2. h[i] = f[i] /\ h[i - 1] = f[i - 1] /\ both[i] = s[i]
      BY <1>1, <1>6, <2>1, <3>1
    <3> QED
      BY <1>2, <3>1, <3>2 DEF Join
  <2>2. CASE i > Len(s)
    <3>1. PICK k \in 1 .. Len(t) : k = i - Len(s)
      <4>1. i - Len(s) \in 1 .. Len(t)
        BY <1>1, <2>2
      <4> QED
        BY <4>1
    <3>2. k - 1 \in 0 .. Len(t) /\ (i - 1) - Len(s) = k - 1
      BY <1>1, <3>1
    <3>3. h[i] = f[Len(s)] \o g[k] /\ both[i] = t[k]
      <4>1. i \in 0 .. Len(s) + Len(t) /\ ~(i <= Len(s))
        BY <1>1, <2>2
      <4>2. h[i] = f[Len(s)] \o g[i - Len(s)]
        BY <4>1
      <4>3. both[i] = t[i - Len(s)]
        BY <1>6, <4>1
      <4> QED
        BY <3>1, <4>2, <4>3
    <3>4. g[k] = g[k - 1] \o t[k] /\ g[k - 1] \in ListsOf(S) /\ t[k] \in ListsOf(S)
      BY <1>1, <1>3, <3>2
    <3>5. h[i - 1] = f[Len(s)] \o g[k - 1]
      <4>1. CASE k = 1
        <5>1. i - 1 = Len(s) /\ k - 1 = 0
          BY <1>1, <3>1, <4>1
        <5>2. h[i - 1] = f[Len(s)] /\ g[k - 1] = <<>>
          BY <1>1, <1>3, <5>1
        <5>3. f[Len(s)] \o <<>> = f[Len(s)]
          BY <1>4, JoinEmpty
        <5> QED
          BY <5>2, <5>3
      <4>2. CASE k # 1
        <5>1. i - 1 \in 0 .. Len(s) + Len(t) /\ ~(i - 1 <= Len(s))
          BY <1>1, <3>1, <4>2
        <5>2. h[i - 1] = f[Len(s)] \o g[(i - 1) - Len(s)]
          BY <5>1
        <5> QED
          BY <3>2, <5>2
      <4> QED
        BY <4>1, <4>2
    <3> HIDE DEF h
    <3>6. Join(Join(f[Len(s)], g[k - 1]), t[k]) = Join(f[Len(s)], Join(g[k - 1], t[k]))
      BY <1>4, <3>4, JoinThree
    <3>7. /\ h[i] = Join(f[Len(s)], g[k]) /\ g[k] = Join(g[k - 1], t[k])
          /\ h[i - 1] = Join(f[Len(s)], g[k - 1])
      BY <3>3, <3>4, <3>5 DEF Join
    <3>8. h[i] = Join(h[i - 1], both[i])
      BY <3>3, <3>6, <3>7
    <3> QED
      BY <3>8
  <2> HIDE DEF h
  <2> QED
    BY <1>1, <2>1, <2>2
<1> HIDE DEF h
<1>10. FlattenSeq(both) = h[Len(s) + Len(t)]
  BY <1>6, <1>7, <1>9, Flattened, Zenon DEF ListsOf, Join
<1> QED
  BY <1>4, <1>5, <1>8, <1>10 DEF both, ListsOf

-----------------------------------------------------------------------------
(* The packages of posts, one by one.                                      *)
Packed(posts) == [i \in DOMAIN posts |-> Package(posts[i])]

(* The bytes of a post that was made.                                      *)
LEMMA PackageBytes ==
  ASSUME TypeOK, NEW n \in 1 .. Len(size)
  PROVE  /\ Package(n) \in ListsOf(Byte) /\ Len(Package(n)) = PACKGE_HEADER_SIZE + size[n]
         /\ \A i \in 1 .. PACKGE_HEADER_SIZE + size[n] : Package(n)[i] = <<n, i>>
<1>1. size[n] \in Sizes /\ size[n] \in Nat /\ PACKGE_HEADER_SIZE \in Nat
  BY Numbers, PipeAssumption
<1>2. PICK long \in Nat : long = PACKGE_HEADER_SIZE + size[n]
  BY <1>1
<1>3. {n} \X (1 .. long) \subseteq Byte
  <2>1. n \in Posts
    <3>1. Len(size) <= MaxPosts
      BY DEF TypeOK
    <3> QED
      BY <3>1, Lengths, PipeAssumption DEF Posts
  <2>2. long <= BUFFER_MAX_LEN
    BY <1>1, <1>2, PipeAssumption
  <2> QED
    BY <2>1, <2>2, PipeAssumption DEF Byte
<1>4. Package(n) \in Seq({n} \X (1 .. long))
  BY <1>1, <1>2, PackageIs
<1>5. Package(n) \in ListsOf(Byte)
  BY <1>3, <1>4, SeqMonotonic DEF ListsOf
<1> QED
  BY <1>1, <1>5, PackageIs

(* The packages of posts that were made, and of posts after posts.         *)
LEMMA PackedJoin ==
  ASSUME TypeOK, NEW a \in Seq(1 .. Len(size)), NEW b \in Seq(1 .. Len(size))
  PROVE  /\ FlattenSeq(Packed(a)) \in ListsOf(Byte)
         /\ FlattenSeq(Packed(b)) \in ListsOf(Byte)
         /\ FlattenSeq(Packed(a \o b)) = Join(FlattenSeq(Packed(a)), FlattenSeq(Packed(b)))
<1> DEFINE lists == ListsOf(Byte)
<1>1. \A n \in 1 .. Len(size) : Package(n) \in lists
  BY PackageBytes
<1> HIDE DEF lists
<1>2. ASSUME NEW posts \in Seq(1 .. Len(size))
      PROVE  /\ Len(posts) \in Nat /\ DOMAIN posts = 1 .. Len(posts)
             /\ Packed(posts) \in Seq(lists) /\ Len(Packed(posts)) = Len(posts)
             /\ \A i \in 1 .. Len(posts) : Packed(posts)[i] = Package(posts[i])
  <2>1. Len(posts) \in Nat /\ DOMAIN posts = 1 .. Len(posts)
    BY LenProperties
  <2>2. Packed(posts) \in [1 .. Len(posts) -> lists]
    <3>1. \A i \in 1 .. Len(posts) : posts[i] \in 1 .. Len(size)
      BY ElementOfSeq
    <3> QED
      BY <1>1, <2>1, <3>1 DEF Packed
  <2> QED
    BY <2>1, <2>2 DEF Packed
<1>3. /\ a \o b \in Seq(1 .. Len(size)) /\ Len(a \o b) = Len(a) + Len(b)
      /\ \A i \in 1 .. Len(a) + Len(b) :
           (a \o b)[i] = IF i <= Len(a) THEN a[i] ELSE b[i - Len(a)]
  BY ConcatProperties
<1> DEFINE c == a \o b
           pa == Packed(a)
           pb == Packed(b)
<1>4. /\ Len(a) \in Nat /\ pa \in Seq(lists) /\ Len(pa) = Len(a)
      /\ \A i \in 1 .. Len(a) : pa[i] = Package(a[i])
  BY <1>2
<1>5. /\ Len(b) \in Nat /\ pb \in Seq(lists) /\ Len(pb) = Len(b)
      /\ \A i \in 1 .. Len(b) : pb[i] = Package(b[i])
  BY <1>2
<1>6. /\ Packed(c) \in Seq(lists) /\ Len(Packed(c)) = Len(a) + Len(b)
      /\ \A i \in 1 .. Len(a) + Len(b) : Packed(c)[i] = Package(c[i])
  BY <1>2, <1>3
<1> HIDE DEF c, pa, pb
<1> DEFINE both == pa \o pb
<1>7. /\ both \in Seq(lists) /\ Len(both) = Len(pa) + Len(pb)
      /\ \A i \in 1 .. Len(pa) + Len(pb) :
           both[i] = IF i <= Len(pa) THEN pa[i] ELSE pb[i - Len(pa)]
  <2>1. pa \in Seq(lists) /\ pb \in Seq(lists)
    BY <1>4, <1>5
  <2> QED
    BY <2>1, ConcatProperties
<1> HIDE DEF both
<1>8. /\ both \in Seq(lists) /\ Len(both) = Len(a) + Len(b)
      /\ \A i \in 1 .. Len(a) + Len(b) :
           both[i] = IF i <= Len(a) THEN pa[i] ELSE pb[i - Len(a)]
  BY <1>4, <1>5, <1>7
<1>9. \A i \in 1 .. Len(a) + Len(b) : c[i] = IF i <= Len(a) THEN a[i] ELSE b[i - Len(a)]
  BY <1>3 DEF c
<1>10. ASSUME NEW i \in 1 .. Len(a) + Len(b) PROVE Packed(c)[i] = both[i]
  <2>1. CASE i <= Len(a)
    <3>1. i \in 1 .. Len(a)
      BY <1>4, <2>1
    <3>2. c[i] = a[i] /\ both[i] = pa[i]
      BY <1>8, <1>9, <2>1
    <3> QED
      BY <1>4, <1>6, <3>1, <3>2
  <2>2. CASE ~(i <= Len(a))
    <3>1. i - Len(a) \in 1 .. Len(b)
      BY <1>4, <1>5, <2>2
    <3>2. c[i] = b[i - Len(a)] /\ both[i] = pb[i - Len(a)]
      BY <1>8, <1>9, <2>2
    <3> QED
      BY <1>5, <1>6, <3>1, <3>2
  <2> QED
    BY <2>1, <2>2
<1>11. Packed(c) = both
  BY <1>6, <1>8, <1>10, SeqEqual
<1>12. /\ FlattenSeq(pa) \in Seq(Byte) /\ FlattenSeq(pb) \in Seq(Byte)
       /\ FlattenSeq(pa \o pb) = FlattenSeq(pa) \o FlattenSeq(pb)
  <2>1. pa \in Seq(ListsOf(Byte)) /\ pb \in Seq(ListsOf(Byte))
    BY <1>4, <1>5 DEF lists
  <2> QED
    BY <2>1, FlattenConcat
<1> QED
  BY <1>11, <1>12 DEF c, pa, pb, both, Join, ListsOf

(* Up to the posts written, the packages not handled are what is in the    *)
(* client's cache, and after it in the pipe.                               *)
LEMMA StreamJoined ==
  ASSUME TypeOK, NEW w \in Nat, NEW at \in Positions, Framed(w, at)
  PROVE  FlattenSeq(Packed(SubSeq(accepted, handled + 1, w))) = m_bufferCache \o bytes
<1>1. /\ handled \in Nat /\ Len(accepted) \in Nat /\ handled <= w /\ w <= Len(accepted)
      /\ Len(m_bufferCache) \in Nat /\ Len(bytes) \in Nat
  BY Lengths DEF Framed
<1> DEFINE h == handled
           mid == SubSeq(accepted, h + 1, w)
           pm == Packed(mid)
           all == m_bufferCache \o bytes
           f == [i \in 0 .. w - h |-> SubSeq(all, 1, at[h + i] - at[h])]
<1>2. PICK n \in Nat : n = w - h
  BY <1>1
<1>3. /\ mid \in Seq(1 .. Len(size)) /\ Len(mid) = n
      /\ \A k \in 1 .. n : mid[k] = accepted[h + k] /\ h + k \in h + 1 .. w
  <2>1. accepted \in Seq(1 .. Len(size))
    BY DEF TypeOK
  <2> QED
    BY <1>1, <1>2, <2>1, Part
<1>4. /\ all \in ListsOf(Byte) /\ Len(all) = Len(m_bufferCache) + Len(bytes)
      /\ \A k \in 1 .. Len(all) : all[k] = Stream(k)
  <2>1. m_bufferCache \in Seq(Byte) /\ bytes \in Seq(Byte)
    BY DEF TypeOK
  <2> HIDE DEF Byte
  <2> QED
    BY <2>1, ConcatProperties DEF Stream, ListsOf
<1>5. at \in [Nat -> Nat] /\ h \in Nat /\ at[h] \in Nat
  BY <1>1 DEF Positions
<1> HIDE DEF all
<1>6. Len(pm) = n /\ \A k \in 1 .. n : pm[k] = Package(accepted[h + k])
  <2>1. DOMAIN mid = 1 .. n
    BY <1>3, LenProperties
  <2> HIDE DEF mid
  <2> QED
    BY <1>3, <2>1 DEF Packed
<1>7. ASSUME NEW k \in 1 .. n
      PROVE  /\ at[h + k - 1] \in Nat /\ at[h + k] \in Nat
             /\ at[h] <= at[h + k - 1] /\ at[h + k - 1] <= at[h + k]
             /\ at[h + k] - at[h] <= Len(all)
             /\ Package(accepted[h + k]) \in ListsOf(Byte)
             /\ SubSeq(all, (at[h + k - 1] - at[h]) + 1, at[h + k] - at[h])
                  = Package(accepted[h + k])
  <2>1. PICK i \in h + 1 .. w : i = h + k
    BY <1>3
  <2>2. PICK s \in Nat : s = PACKGE_HEADER_SIZE + size[accepted[i]]
    BY InStream, PipeAssumption
  <2>3. PICK from \in Nat, to \in Nat, before \in Nat :
          /\ from = at[i - 1] /\ to = at[i] /\ before = at[h]
          /\ before <= from /\ to <= at[w]
    BY InStream
  <2>4. to = from + s
    <3>1. at[i] = at[i - 1] + PACKGE_HEADER_SIZE + size[accepted[i]]
      BY DEF Framed
    <3>2. PICK z \in Nat : z = size[accepted[i]]
      BY InStream
    <3>3. PACKGE_HEADER_SIZE \in Nat
      BY PipeAssumption
    <3> QED
      BY <2>2, <2>3, <3>1, <3>2, <3>3
  <2>5. at[w] - at[h] = Len(all)
    <3>1. at[w] = at[h] + Len(m_bufferCache) + Len(bytes)
      BY DEF Framed
    <3>2. PICK x \in Nat, y \in Nat, c \in Nat, d \in Nat :
            x = at[w] /\ y = at[h] /\ c = Len(m_bufferCache) /\ d = Len(bytes)
      BY <1>1, <1>5
    <3>3. Len(all) = c + d
      BY <1>4, <3>2
    <3>4. x = y + c + d
      BY <3>1, <3>2
    <3>5. x - y = c + d
      BY <3>4
    <3> QED
      BY <3>2, <3>3, <3>5
  <2>6. to - before <= Len(all)
    <3>1. at[w] \in Nat /\ Len(all) \in Nat
      BY <1>1, <1>4, <1>5
    <3> QED
      BY <2>3, <2>5, <3>1
  <2>7. \A j \in 1 .. s : Stream((from - before) + j) = <<accepted[i], j>>
    <3>1. Holds(accepted[i], at[i - 1] - at[h])
      BY DEF Framed
    <3> QED
      BY <2>2, <2>3, <3>1 DEF Holds
  <2>8. accepted[i] \in 1 .. Len(size)
    BY InStream
  <2>9. /\ Package(accepted[i]) \in ListsOf(Byte) /\ Len(Package(accepted[i])) = s
        /\ \A j \in 1 .. s : Package(accepted[i])[j] = <<accepted[i], j>>
    BY <2>2, <2>8, PackageBytes
  <2> DEFINE cut == SubSeq(all, (from - before) + 1, to - before)
  <2>10. /\ cut \in Seq(Byte) /\ Len(cut) = s
         /\ \A j \in 1 .. s : cut[j] = all[(from - before) + j]
    <3>1. PICK a \in Nat, b \in Nat : a = from - before /\ b = to - before /\ a <= b /\ b - a = s
      BY <2>3, <2>4
    <3>2. all \in Seq(Byte)
      BY <1>4 DEF ListsOf
    <3> HIDE DEF Byte
    <3> QED
      BY <2>6, <3>1, <3>2, Part
  <2>11. \A j \in 1 .. s : cut[j] = Package(accepted[i])[j]
    <3> TAKE j \in 1 .. s
    <3>1. (from - before) + j \in 1 .. Len(all)
      <4>1. Len(all) \in Nat
        BY <1>1, <1>4
      <4>2. (from - before) + j >= 1 /\ (from - before) + j <= to - before
        BY <2>3, <2>4
      <4> QED
        BY <2>6, <4>1, <4>2
    <3> QED
      BY <1>4, <2>7, <2>9, <2>10, <3>1
  <2> HIDE DEF cut
  <2>12. cut = Package(accepted[i])
    <3>1. Package(accepted[i]) \in Seq(Byte)
      BY <2>9 DEF ListsOf
    <3> HIDE DEF Byte
    <3> QED
      BY <2>9, <2>10, <2>11, <3>1, SeqEqual
  <2>13. at[h + k] = to /\ at[h + k - 1] = from /\ at[h] = before
    <3>1. h + k - 1 = i - 1
      BY <1>1, <1>2, <2>1
    <3>2. at[h + k - 1] = at[i - 1]
      BY <3>1
    <3>3. at[h + k] = at[i]
      BY <2>1
    <3> QED
      BY <2>3, <3>2, <3>3
  <2>14. from <= to
    BY <2>4
  <2> QED
    BY <2>1, <2>3, <2>6, <2>9, <2>12, <2>13, <2>14 DEF cut
<1>8. f[0] = <<>>
  <2>1. 0 \in 0 .. w - h /\ at[h + 0] - at[h] = 0
    BY <1>1, <1>2, <1>5
  <2>2. f[0] = SubSeq(all, 1, 0)
    BY <2>1
  <2>3. SubSeq(all, 1, 0) = <<>>
    BY SubSeqEmpty
  <2> HIDE DEF f
  <2> QED
    BY <2>2, <2>3, Zenon
<1>9. ASSUME NEW k \in 1 .. n PROVE f[k] = f[k - 1] \o pm[k]
  <2>1. k \in 0 .. w - h /\ k - 1 \in 0 .. w - h
    BY <1>2
  <2>2. h + (k - 1) = h + k - 1
    BY <1>1
  <2>3. PICK a \in Nat, b \in Nat :
          a = at[h + k - 1] - at[h] /\ b = at[h + k] - at[h] /\ a <= b /\ b <= Len(all)
    <3>1. /\ at[h + k - 1] - at[h] \in Nat /\ at[h + k] - at[h] \in Nat
          /\ at[h + k - 1] - at[h] <= at[h + k] - at[h]
      <4>1. /\ at[h + k - 1] \in Nat /\ at[h + k] \in Nat
            /\ at[h] <= at[h + k - 1] /\ at[h + k - 1] <= at[h + k]
        BY <1>7
      <4>2. \A x, y, z \in Nat : x <= y /\ y <= z => y - x \in Nat /\ z - x \in Nat /\ y - x <= z - x
        OBVIOUS
      <4> QED
        BY <1>5, <4>1, <4>2
    <3>2. at[h + k] - at[h] <= Len(all)
      BY <1>7
    <3> QED
      BY <3>1, <3>2
  <2>4. f[k] = SubSeq(all, 1, b) /\ f[k - 1] = SubSeq(all, 1, a)
    BY <2>1, <2>2, <2>3
  <2>5. SubSeq(all, 1, a) \o SubSeq(all, a + 1, b) = SubSeq(all, 1, b)
    <3>1. /\ all \in Seq(Byte) /\ 1 \in 1 .. Len(all) + 1 /\ a \in 1 - 1 .. Len(all)
          /\ b \in a .. Len(all)
      BY <1>1, <1>4, <2>3 DEF ListsOf
    <3> HIDE DEF Byte
    <3> QED
      BY <3>1, ConcatAdjacentSubSeq
  <2>6. SubSeq(all, a + 1, b) = pm[k]
    BY <1>6, <1>7, <2>3
  <2> HIDE DEF f, pm
  <2> QED
    BY <2>4, <2>5, <2>6
<1>10. f[n] = all
  <2>1. n \in 0 .. w - h /\ h + n = w
    BY <1>1, <1>2
  <2>2. at[h + n] - at[h] = Len(all)
    <3>1. at[w] = at[h] + Len(m_bufferCache) + Len(bytes)
      BY DEF Framed
    <3>2. at[w] - at[h] = Len(m_bufferCache) + Len(bytes)
      BY <1>1, <1>5, <3>1
    <3> QED
      BY <1>4, <2>1, <3>2
  <2>3. f[n] = SubSeq(all, 1, Len(all))
    BY <2>1, <2>2
  <2>4. all \in Seq(Byte)
    BY <1>4 DEF ListsOf
  <2> HIDE DEF f, Byte
  <2> QED
    BY <2>3, <2>4, SubSeqFull
<1>11. pm \in Seq(ListsOf(Byte))
  <2> DEFINE lists == ListsOf(Byte)
  <2>1. \A k \in 1 .. n : pm[k] \in lists
    BY <1>6, <1>7
  <2>2. DOMAIN pm = 1 .. n
    <3>1. DOMAIN mid = 1 .. n
      BY <1>3, LenProperties
    <3> HIDE DEF mid
    <3> QED
      BY <3>1 DEF Packed
  <2>3. pm = [k \in 1 .. n |-> pm[k]]
    BY <2>2 DEF Packed
  <2> HIDE DEF lists, pm
  <2> QED
    BY <2>1, <2>3 DEF lists
<1> HIDE DEF f, pm
<1>12. FlattenSeq(pm) = f[Len(pm)]
  <2>1. pm \in Seq(Seq(Byte))
    BY <1>11 DEF ListsOf
  <2>2. \A i \in 1 .. Len(pm) : f[i] = f[i - 1] \o pm[i]
    BY <1>6, <1>9
  <2> HIDE DEF Byte
  <2> QED
    BY <1>8, <2>1, <2>2, Flattened, Zenon
<1> QED
  BY <1>6, <1>10, <1>12 DEF pm, all

(* A queue without its last message.                                       *)
LEMMA WithoutLast ==
  ASSUME NEW S, NEW s \in Seq(S), NEW e, Len(s) > 0, s[Len(s)] = e,
         \A i \in 1 .. Len(s) : s[i] = e => i = Len(s)
  PROVE  RemoveFirst(s, e) = SubSeq(s, 1, Len(s) - 1)
<1>1. Len(s) \in Nat
  BY LenProperties
<1> DEFINE n == Len(s)
           places == {i \in 1 .. n : s[i] = e}
<1>2. places = {n}
  BY <1>1
<1>3. Min({n}) = n
  BY <1>1 DEF Min
<1>4. SelectInSeq(s, LAMBDA v : v = e) = n
  BY <1>2, <1>3 DEF SelectInSeq
<1>5. RemoveFirst(s, e) = SubSeq(s, 1, n - 1) \o SubSeq(s, n + 1, Len(s))
  BY <1>1, <1>2, <1>4 DEF RemoveFirst, RemoveAt
<1>6. SubSeq(s, n + 1, Len(s)) = <<>>
  BY <1>1, SubSeqEmpty
<1>7. SubSeq(s, 1, n - 1) \in Seq(S)
  BY <1>1, Part
<1> HIDE DEF n
<1>8. SubSeq(s, 1, n - 1) \o <<>> = SubSeq(s, 1, n - 1)
  BY <1>7, ConcatEmptySeq
<1> QED
  BY <1>5, <1>6, <1>8 DEF n

(* The posts in the queue are those accepted after the ones in the hand of *)
(* the writer; WM_QUIT is not one of them.                                 *)
LEMMA QueueHolds ==
  ASSUME TypeOK, Stages, NEW w \in Nat, Waiting(w), pipe = "open"
  PROVE  LET q == RemoveFirst(messages, Quit)
             before == w + Len(data) IN
         /\ q \in Seq(1 .. Len(size)) /\ Len(q) \in Nat /\ Len(accepted) = before + Len(q)
         /\ \A i \in 1 .. Len(q) : q[i] = accepted[before + i]
<1> DEFINE q == RemoveFirst(messages, Quit)
           before == w + Len(data)
<1>1. /\ Len(accepted) \in Nat /\ Len(messages) \in Nat /\ before \in Nat
      /\ \A i \in 1 .. Len(accepted) : accepted[i] \in 1 .. Len(size)
      /\ messages \in Seq(Posts \union {Quit})
  BY Numbers DEF TypeOK
<1>2. /\ before <= Len(accepted)
      /\ \A i \in 1 .. Len(messages) :
           messages[i] # Quit => /\ before + i <= Len(accepted)
                                 /\ messages[i] = accepted[before + i]
      /\ Len(accepted) <= before + Len(messages)
      /\ Len(messages) > 0 /\ messages[Len(messages)] = Quit
           => Len(accepted) < before + Len(messages)
  BY DEF Waiting
<1>3. \A i \in 1 .. Len(messages) : messages[i] = Quit => i = Len(messages)
  BY DEF Stages
<1> DEFINE n == Len(accepted) - before
<1>4. n \in Nat /\ q \in Seq(Posts \union {Quit}) /\ Len(q) = n
      /\ \A i \in 1 .. n : i \in 1 .. Len(messages) /\ q[i] = messages[i] /\ messages[i] # Quit
  <2>1. CASE \E i \in 1 .. Len(messages) : messages[i] = Quit
    <3>1. Len(messages) > 0 /\ messages[Len(messages)] = Quit
      BY <1>1, <1>3, <2>1
    <3>2. q = SubSeq(messages, 1, Len(messages) - 1)
      BY <1>1, <1>3, <3>1, WithoutLast
    <3>3. PICK l \in Nat : l = Len(messages) - 1
      BY <1>1, <3>1
    <3>4. n = l
      <4>1. Len(accepted) <= before + l
        BY <1>1, <1>2, <3>1, <3>3
      <4>2. l > 0 => before + l <= Len(accepted)
        BY <1>1, <1>2, <1>3, <3>3
      <4>3. PICK a \in Nat, b \in Nat : a = Len(accepted) /\ b = before /\ b <= a
        BY <1>1, <1>2
      <4>4. a <= b + l /\ (l > 0 => b + l <= a)
        BY <4>1, <4>2, <4>3
      <4>5. a - b = l
        BY <3>3, <4>3, <4>4
      <4> QED
        BY <4>3, <4>5
    <3>5. q \in Seq(Posts \union {Quit}) /\ Len(q) = l /\ \A i \in 1 .. l : q[i] = messages[i]
      <4>1. l <= Len(messages) /\ 0 + 1 = 1
        BY <1>1, <3>3
      <4>2. q = SubSeq(messages, 0 + 1, l)
        BY <3>2, <3>3, <4>1
      <4>3. l - 0 = l /\ \A i \in 1 .. l : 0 + i = i
        OBVIOUS
      <4> HIDE DEF q
      <4> QED
        BY <1>1, <4>1, <4>2, <4>3, Part
    <3>6. \A i \in 1 .. l : i \in 1 .. Len(messages) /\ messages[i] # Quit
      BY <1>1, <1>3, <3>3
    <3> HIDE DEF q
    <3> QED
      BY <3>4, <3>5, <3>6
  <2>2. CASE \A i \in 1 .. Len(messages) : messages[i] # Quit
    <3>1. q = messages
      BY <2>2 DEF RemoveFirst
    <3>2. n = Len(messages)
      BY <1>1, <1>2, <2>2
    <3> HIDE DEF q
    <3> QED
      BY <1>1, <2>2, <3>1, <3>2
  <2> QED
    BY <2>1, <2>2
<1> HIDE DEF q
<1>5. \A i \in 1 .. n : q[i] = accepted[before + i] /\ q[i] \in 1 .. Len(size)
  <2> TAKE i \in 1 .. n
  <2>1. before + i \in 1 .. Len(accepted)
    BY <1>1, <1>4
  <2>2. q[i] = accepted[before + i]
    BY <1>2, <1>4
  <2> QED
    BY <1>1, <2>1, <2>2
<1>6. q \in Seq(1 .. Len(size))
  <2>1. q = [i \in 1 .. n |-> q[i]]
    BY <1>4, LenProperties
  <2> DEFINE posts == 1 .. Len(size)
  <2> HIDE DEF n, posts
  <2>2. n \in Nat /\ \A i \in 1 .. n : q[i] \in posts
    BY <1>4, <1>5 DEF posts
  <2>3. [i \in 1 .. n |-> q[i]] \in Seq(posts)
    BY <2>2
  <2> QED
    BY <2>1, <2>3 DEF posts
<1> QED
  BY <1>1, <1>4, <1>5, <1>6 DEF q

(* While the pipe is open, the accepted posts that are not handled.        *)
LEMMA AllAccounted ==
  ASSUME TypeOK, Stages, NEW w \in Nat, NEW at \in Positions, Framed(w, at), Waiting(w),
         pipe = "open"
  PROVE  LET q == RemoveFirst(messages, Quit)
             mid == SubSeq(accepted, handled + 1, w) IN
         /\ mid \in Seq(1 .. Len(size)) /\ data \in Seq(1 .. Len(size))
         /\ q \in Seq(1 .. Len(size))
         /\ SubSeq(accepted, handled + 1, Len(accepted)) = (mid \o data) \o q
<1> DEFINE q == RemoveFirst(messages, Quit)
           before == w + Len(data)
           mid == SubSeq(accepted, handled + 1, w)
           rest == SubSeq(accepted, w + 1, before)
           posts == 1 .. Len(size)
<1>1. /\ handled \in Nat /\ Len(accepted) \in Nat /\ Len(data) \in Nat
      /\ handled <= w /\ w <= Len(accepted) /\ accepted \in Seq(posts)
  BY Lengths DEF Framed, TypeOK
<1>2. before <= Len(accepted) /\ \A i \in 1 .. Len(data) : data[i] = accepted[w + i]
  BY DEF Waiting
<1>3. /\ q \in Seq(posts) /\ Len(q) \in Nat /\ Len(accepted) = before + Len(q)
      /\ \A i \in 1 .. Len(q) : q[i] = accepted[before + i]
  BY QueueHolds
<1>4. before \in Nat /\ w <= before /\ before - w = Len(data)
      /\ Len(accepted) - before = Len(q)
  BY <1>1, <1>3
<1> HIDE DEF q, posts, before
<1>5. mid \in Seq(posts)
  BY <1>1, Part
<1>6. /\ rest \in Seq(posts) /\ Len(rest) = Len(data)
      /\ \A i \in 1 .. Len(data) : rest[i] = accepted[w + i]
  BY <1>1, <1>2, <1>4, Part
<1>7. /\ SubSeq(accepted, before + 1, Len(accepted)) \in Seq(posts)
      /\ Len(SubSeq(accepted, before + 1, Len(accepted))) = Len(q)
      /\ \A i \in 1 .. Len(q) :
           SubSeq(accepted, before + 1, Len(accepted))[i] = accepted[before + i]
  BY <1>1, <1>2, <1>4, Part
<1>8. data \in Seq(posts) /\ data = rest
  <2>1. data \in Seq(Posts)
    BY DEF TypeOK
  <2> HIDE DEF rest
  <2>2. \A i \in 1 .. Len(data) : data[i] = rest[i]
    BY <1>2, <1>6
  <2>3. data = [i \in 1 .. Len(data) |-> data[i]] /\ rest = [i \in 1 .. Len(data) |-> rest[i]]
    BY <1>6, <2>1, LenProperties
  <2>4. data = rest
    BY <2>2, <2>3
  <2> QED
    BY <1>6, <2>4
<1>9. q = SubSeq(accepted, before + 1, Len(accepted))
  BY <1>3, <1>7, SeqEqual
<1>10. SubSeq(accepted, handled + 1, before) = mid \o rest
  <2>1. /\ handled + 1 \in 1 .. Len(accepted) + 1 /\ w \in handled + 1 - 1 .. Len(accepted)
        /\ before \in w .. Len(accepted)
    BY <1>1, <1>2, <1>4
  <2> QED
    BY <1>1, <2>1, ConcatAdjacentSubSeq
<1>11. SubSeq(accepted, handled + 1, Len(accepted))
         = SubSeq(accepted, handled + 1, before) \o SubSeq(accepted, before + 1, Len(accepted))
  <2>1. /\ handled + 1 \in 1 .. Len(accepted) + 1
        /\ before \in handled + 1 - 1 .. Len(accepted)
        /\ Len(accepted) \in before .. Len(accepted)
    BY <1>1, <1>2, <1>4
  <2>2. PICK n \in before .. Len(accepted) : n = Len(accepted)
    BY <2>1
  <2>3. SubSeq(accepted, handled + 1, before) \o SubSeq(accepted, before + 1, n)
          = SubSeq(accepted, handled + 1, n)
    BY <1>1, <2>1, ConcatAdjacentSubSeq
  <2> QED
    BY <2>2, <2>3, Zenon
<1>12. SubSeq(accepted, handled + 1, Len(accepted)) = (mid \o data) \o q
  <2> HIDE DEF mid, rest
  <2> QED
    BY <1>8, <1>9, <1>10, <1>11
<1> QED
  BY <1>3, <1>5, <1>8, <1>12 DEF q, posts

(* While the pipe is open no post that met a queue is there twice, and     *)
(* none is lost but by its own write, whichever writes fail: all others    *)
(* that are not handled are, byte for byte, in the cache, the pipe, the    *)
(* writer's hand and its queue, also once WM_QUIT is behind the posts and  *)
(* the writer has gone (WritePipe.cpp:22, :38, :81, :110).                 *)
THEOREM NothingIsLost == Spec => []Conserved
<1>1. IInv => Conserved
  <2> SUFFICES ASSUME IInv, pipe = "open"
               PROVE  FlattenSeq(Packed(SubSeq(accepted, handled + 1, Len(accepted))))
                        = m_bufferCache \o bytes \o FlattenSeq(Packed(data))
                            \o FlattenSeq(Packed(RemoveFirst(messages, Quit)))
    BY DEF Conserved, Packed
  <2>1. TypeOK /\ Stages
    BY DEF IInv
  <2>2. PICK w \in Nat, at \in Positions : Framed(w, at) /\ Waiting(w)
    BY DEF IInv
  <2> DEFINE q == RemoveFirst(messages, Quit)
             mid == SubSeq(accepted, handled + 1, w)
             rest == SubSeq(accepted, handled + 1, Len(accepted))
  <2>3. /\ mid \in Seq(1 .. Len(size)) /\ data \in Seq(1 .. Len(size))
        /\ q \in Seq(1 .. Len(size)) /\ rest = (mid \o data) \o q
    BY <2>1, <2>2, AllAccounted
  <2>4. FlattenSeq(Packed(mid)) = Join(m_bufferCache, bytes)
    BY <2>1, <2>2, StreamJoined DEF Join
  <2> HIDE DEF q, mid, rest
  <2>5. mid \o data \in Seq(1 .. Len(size))
    BY <2>3, ConcatProperties
  <2>6. FlattenSeq(Packed((mid \o data) \o q))
          = Join(FlattenSeq(Packed(mid \o data)), FlattenSeq(Packed(q)))
    BY <2>1, <2>3, <2>5, PackedJoin
  <2>7. FlattenSeq(Packed(mid \o data))
          = Join(FlattenSeq(Packed(mid)), FlattenSeq(Packed(data)))
    BY <2>1, <2>3, PackedJoin
  <2>8. FlattenSeq(Packed(rest))
          = Join(Join(Join(m_bufferCache, bytes), FlattenSeq(Packed(data))),
                 FlattenSeq(Packed(q)))
    BY <2>3, <2>4, <2>6, <2>7
  <2> QED
    BY <2>8, Zenon DEF q, rest, Join
<1> QED
  BY <1>1, PipeInductive, PTL
====
