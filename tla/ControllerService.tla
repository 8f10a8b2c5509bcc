-------------------------- MODULE ControllerService --------------------------
(***************************************************************************)
(* The controller wired with the VPP mock implements SwitchService: the    *)
(* forwarding of a key is the entry of the adapter's table, a job is a     *)
(* running call, and it is done once install_path has succeeded.           *)
(***************************************************************************)
EXTENDS ControllerProperties

(* The paths an intent lets its traffic be put on. *)
Accepts(i) ==
  (IF i.mode = "explicit" THEN {i.path} ELSE {i.cands[n] : n \in DOMAIN i.cands}) \cap Paths

(* "no intent" is told from every job *)
ASSUME JobAssumption ==
  \A k \in Keys, accepts \in SUBSET Paths, done \in BOOLEAN :
    NoIntent # [key |-> k, accepts |-> accepts, done |-> done]

JobOf ==
  IF pc = "idle" THEN NoIntent
  ELSE [key |-> intent.key, accepts |-> Accepts(intent), done |-> pc = "confirming"]

AnswerOf ==
  IF reply = NoReply THEN "none" ELSE IF reply.err = "none" THEN "success" ELSE "error"

Service == INSTANCE SwitchService
             WITH forwarding <- table, job <- JobOf, answer <- AnswerOf, NoJob <- NoIntent

(* Every behaviour of the controller is one of the service: a call moves its *)
(* own key at most once, to a path its intent accepts, and answers success   *)
(* exactly when it did; and every call is answered.                          *)
ImplementsService == Service!ServiceSpec

(* Its safety part: what a behaviour never does, answered or not. *)
StepsAsService == Service!ServiceInit /\ [][Service!ServiceNext]_(Service!serviceVars)
=============================================================================
