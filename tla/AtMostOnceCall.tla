---------------------------- MODULE AtMostOnceCall ----------------------------
(***************************************************************************)
(* What the attach bridge promises the MCP client about one tools/call     *)
(* (attach/proxy.py, AttachRecoveryMiddleware.on_call_tool): the editor    *)
(* performs it at most once; a result means it was performed; an answer    *)
(* that calls a repeat safe means it never was and never will be; and when *)
(* the bridge cannot tell, it says so.                                     *)
(***************************************************************************)
CONSTANTS Calls

VARIABLES
  performed,  \* the calls whose operation the backend performed
  answer      \* what the client was told

amoVars == <<performed, answer>>

Answer == {"none", "result", "refused", "unknown"}

AmoTypeOK ==
  /\ performed \subseteq Calls
  /\ answer \in [Calls -> Answer]

AmoInit ==
  /\ performed = {}
  /\ answer = [c \in Calls |-> "none"]

\* Performed once, before any answer or after an answer that left it open.
Perform(c) ==
  /\ c \notin performed
  /\ answer[c] \in {"none", "unknown"}
  /\ performed' = performed \cup {c}
  /\ UNCHANGED answer

Tell(c, a) ==
  /\ answer[c] = "none"
  /\ a = "result" => c \in performed
  /\ a = "refused" => c \notin performed
  /\ answer' = [answer EXCEPT ![c] = a]
  /\ UNCHANGED performed

AmoNext ==
  \E c \in Calls : Perform(c) \/ \E a \in Answer \ {"none"} : Tell(c, a)

AmoSpec == AmoInit /\ [][AmoNext]_amoVars

=============================================================================
