---- MODULE CriticalSections ----
(***************************************************************************)
(* The two locks the repository makes itself, checked side by side: the    *)
(* spin lock of the id generator, between threads, and the semaphore of    *)
(* linux-sharedMsg, between processes that may be killed.  They share      *)
(* nothing: a behaviour is one of either, chosen at the start, and nobody  *)
(* calls the generator or starts a program of the other.  Both modules are *)
(* extended, so that what is proved of them is what is checked here; Init, *)
(* Next and vars are the generator's.                                      *)
(***************************************************************************)
EXTENDS Snowflake, SharedMsg

VARIABLE section   \* which of the two the behaviour is of

sectionVars == <<section, vars, msgVars>>

SectionInit == section \in {"Snowflake", "SharedMsg"} /\ Init /\ MsgInit

SnowflakeStep == section = "Snowflake" /\ Next /\ UNCHANGED <<section, msgVars>>
SharedMsgStep == section = "SharedMsg" /\ MsgNext /\ UNCHANGED <<section, vars>>

SectionNext == SnowflakeStep \/ SharedMsgStep

(* The fairness of the one that is not chosen says nothing of it but that  *)
(* its clock goes on, which is why the generator's is asked of it alone.   *)
SectionSpec ==
  /\ SectionInit /\ [][SectionNext]_sectionVars
  /\ section = "Snowflake" => Fairness
  /\ MsgFairness
====
