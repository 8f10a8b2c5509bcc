---------------------------- MODULE SwitchService ----------------------------
(***************************************************************************)
(* What a client of the controller may rely on, without stages, readings   *)
(* or adapters: a request names a traffic key and the paths it accepts;    *)
(* while it is served the key moves at most once, to one of those paths;   *)
(* the answer is a success exactly when it moved (or was put again on the  *)
(* same path), and no other key is touched.                                *)
(***************************************************************************)
EXTENDS Naturals

CONSTANTS
  Keys,      \* traffic keys
  Paths,     \* paths traffic can be put on
  NoPath,    \* a key no path was ever installed for
  NoJob      \* no request is being served

VARIABLES
  forwarding,   \* the path each key is forwarded on
  job,          \* the request being served: key, accepted paths, done or not
  answer        \* the last answer: "none" before the first, "success", "error"

serviceVars == <<forwarding, job, answer>>

Jobs == [key : Keys, accepts : SUBSET Paths, done : BOOLEAN]

ServiceTypeOK ==
  /\ forwarding \in [Keys -> Paths \cup {NoPath}]
  /\ job \in Jobs \cup {NoJob}
  /\ answer \in {"none", "success", "error"}

ServiceInit ==
  /\ forwarding = [k \in Keys |-> NoPath]
  /\ job = NoJob
  /\ answer = "none"

Request(k, accepts) ==
  /\ job = NoJob
  /\ job' = [key |-> k, accepts |-> accepts, done |-> FALSE]
  /\ UNCHANGED <<forwarding, answer>>

PutOn(p) ==
  /\ job # NoJob
  /\ ~ job.done
  /\ p \in job.accepts
  /\ forwarding' = [forwarding EXCEPT ![job.key] = p]
  /\ job' = [job EXCEPT !.done = TRUE]
  /\ UNCHANGED answer

Succeed ==
  /\ job # NoJob /\ job.done
  /\ answer' = "success"
  /\ job' = NoJob
  /\ UNCHANGED forwarding

Refuse ==
  /\ job # NoJob => ~ job.done
  /\ answer' = "error"
  /\ job' = NoJob
  /\ UNCHANGED forwarding

(* The client side starts again with nothing asked and nothing answered. *)
Forget ==
  /\ job = NoJob
  /\ answer' = "none"
  /\ UNCHANGED <<forwarding, job>>

ServiceNext ==
  \/ \E k \in Keys, accepts \in SUBSET Paths : Request(k, accepts)
  \/ \E p \in Paths : PutOn(p)
  \/ Succeed \/ Refuse \/ Forget

(* A request is answered in the end. *)
ServiceSpec ==
  /\ ServiceInit /\ [][ServiceNext]_serviceVars
  /\ WF_serviceVars(job # NoJob /\ (Succeed \/ Refuse \/ \E p \in Paths : PutOn(p)))
=============================================================================
