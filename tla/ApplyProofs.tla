----------------------------- MODULE ApplyProofs -----------------------------
(***************************************************************************)
(* Theorems about applying plans and undoing them, for every configuration *)
(* and whatever command fails, acting or not.                              *)
(***************************************************************************)
EXTENDS ApplyRun, SequenceTheorems, TLAPS

(* The plan being run or rolled back is that of a path of the configuration. *)
Planned == \E p \in Plannable : plan = PlanOf(Config, p)

Hops == Len(plan.path.segments)
TunnelOf(n) == plan.path.segments[n].tunnel_id

(* The command at "step" is the next one: those before it have acted.  A run *)
(* loads, initiates the tunnels in order and routes; a rollback unroutes and *)
(* terminates them from the last to the first.                               *)
RunInv ==
  /\ pc \in {"write", "run"} /\ (pc = "run" => step <= Hops + 2) => fib = before
  /\ pc = "run" =>
       /\ \A n \in 1..Hops : n + 1 < step => TunnelOf(n) \in up
       /\ step > Hops + 2 => fib[plan.path.prefix] = Hop(plan.path)
  /\ pc = "failed" /\ plan # NoPlan /\ step < Hops + 2 => fib = before
  /\ plan # NoPlan => \A x \in RoutePrefixes \ {plan.path.prefix} : fib[x] = before[x]

RollbackInv ==
  pc = "rollback" =>
    /\ step > 1 => fib[plan.path.prefix] = NoHop
    /\ \A n \in 1..Hops : n + 1 < step => TunnelOf(Hops + 1 - n) \notin up

PlanInv ==
  /\ plan = NoPlan \/ Planned
  /\ pc \in {"write", "run", "rollback", "stopped", "undone"} => Planned

ApplyInv ==
  /\ TypeOK /\ PlanInv /\ RunInv /\ RollbackInv
  /\ AppliedRoutes /\ UndoneLeavesNothing

------------------------------------------------------------------------------
(* The plan of a path.                                                       *)

(* A path is its own sequence of segments, in a plan with room for it. *)
LEMMA SegmentsType ==
  ASSUME NEW p \in ConfigPaths
  PROVE  /\ Len(p.segments) \in Nat
         /\ DOMAIN p.segments = 1..Len(p.segments)
         /\ Len(p.segments) + 2 <= MaxPlanCommands /\ MaxPlanCommands \in Nat
         /\ TunnelIds(p) \in Seq(Range(TunnelIds(p)))
         /\ Len(TunnelIds(p)) = Len(p.segments)
         /\ DOMAIN TunnelIds(p) = 1..Len(p.segments)
         /\ \A n \in 1..Len(p.segments) : TunnelIds(p)[n] = p.segments[n].tunnel_id
<1>1. p.segments \in Seq(Range(p.segments)) /\ Len(p.segments) + 2 <= MaxPlanCommands
  BY ApplyAssumption
<1>2. Len(p.segments) \in Nat /\ DOMAIN p.segments = 1..Len(p.segments)
  BY <1>1, LenProperties
<1>3. \A n \in 1..Len(p.segments) :
        TunnelIds(p)[n] = p.segments[n].tunnel_id /\ TunnelIds(p)[n] \in Range(TunnelIds(p))
  BY <1>2 DEF TunnelIds, Range
<1>4. TunnelIds(p) \in [1..Len(p.segments) -> Range(TunnelIds(p))]
  BY <1>2, <1>3 DEF TunnelIds
<1> QED
  BY <1>1, <1>2, <1>3, <1>4, ApplyAssumption

(* A plan that has room keeps every command. *)
LEMMA KeptWhole ==
  ASSUME NEW S, NEW commands \in Seq(S), Len(commands) <= MaxPlanCommands
  PROVE  Kept(commands) = commands
<1>1. Len(commands) \in Nat /\ MaxPlanCommands \in Nat
  BY ApplyAssumption
<1>2. Min({Len(commands), MaxPlanCommands}) = Len(commands)
  BY <1>1 DEF Min
<1> QED
  BY <1>2, SubSeqFull DEF Kept

LEMMA CommandsByIndex ==
  ASSUME NEW p \in ConfigPaths, NEW hop
  PROVE  LET n == Len(p.segments)
             commands == Commands(p, hop)
         IN  /\ Len(commands) = n + 2
             /\ commands[1] = LoadConns
             /\ \A i \in 1..n : commands[i + 1] = Initiate(p.segments[i].tunnel_id)
             /\ commands[n + 2] = RouteReplace(p.prefix, hop)
<1> DEFINE n == Len(p.segments)
           ids == TunnelIds(p)
           starts == [i \in DOMAIN ids |-> Initiate(ids[i])]
           S == {LoadConns, RouteReplace(p.prefix, hop)} \cup {Initiate(id) : id \in Range(ids)}
<1>1. n \in Nat /\ DOMAIN ids = 1..n /\ \A i \in 1..n : ids[i] = p.segments[i].tunnel_id
  BY SegmentsType
<1>2. starts \in Seq(S) /\ Len(starts) = n
        /\ \A i \in 1..n : starts[i] = Initiate(p.segments[i].tunnel_id)
  <2>1. \A i \in 1..n : starts[i] \in S
    BY <1>1 DEF Range
  <2>2. starts \in [1..n -> S]
    BY <1>1, <2>1
  <2> QED
    BY <1>1, <2>2
<1> HIDE DEF S, starts
<1>3. <<LoadConns>> \in Seq(S) /\ <<RouteReplace(p.prefix, hop)>> \in Seq(S)
  BY DEF S
<1>4. /\ <<LoadConns>> \o starts \in Seq(S) /\ Len(<<LoadConns>> \o starts) = n + 1
      /\ (<<LoadConns>> \o starts)[1] = LoadConns
      /\ \A i \in 1..n : (<<LoadConns>> \o starts)[i + 1] = starts[i]
  BY <1>1, <1>2, <1>3, ConcatProperties
<1> DEFINE most == <<LoadConns>> \o starts
           all == most \o <<RouteReplace(p.prefix, hop)>>
<1> HIDE DEF most
<1>5. /\ all \in Seq(S) /\ Len(all) = n + 2
      /\ \A i \in 1..(n + 1) : all[i] = most[i]
      /\ all[n + 2] = RouteReplace(p.prefix, hop)
  BY <1>1, <1>3, <1>4, ConcatProperties DEF most
<1>6. n + 2 <= MaxPlanCommands
  BY SegmentsType
<1>7. Commands(p, hop) = all
  BY <1>5, <1>6, KeptWhole DEF Commands, most, starts
<1> QED
  BY <1>1, <1>2, <1>4, <1>5, <1>7 DEF most

LEMMA RollbackByIndex ==
  ASSUME NEW p \in ConfigPaths
  PROVE  LET n == Len(p.segments)
             commands == RollbackCommands(p)
         IN  /\ Len(commands) = n + 1
             /\ commands[1] = RouteDelete(p.prefix)
             /\ \A i \in 1..n : commands[i + 1] = Terminate(p.segments[n + 1 - i].tunnel_id)
<1> DEFINE n == Len(p.segments)
           ids == Reverse(TunnelIds(p))
           ends == [i \in DOMAIN ids |-> Terminate(ids[i])]
           S == {RouteDelete(p.prefix)} \cup {Terminate(id) : id \in Range(TunnelIds(p))}
<1>1. n \in Nat /\ DOMAIN ids = 1..n /\ \A i \in 1..n : ids[i] = p.segments[n + 1 - i].tunnel_id
  <2>1. n \in Nat /\ Len(TunnelIds(p)) = n
    BY SegmentsType
  <2>2. ids = [i \in 1..n |-> TunnelIds(p)[n - i + 1]]
    BY <2>1 DEF Reverse
  <2>3. ASSUME NEW i \in 1..n PROVE ids[i] = p.segments[n + 1 - i].tunnel_id
    <3>1. n - i + 1 \in 1..n /\ n - i + 1 = n + 1 - i
      BY <2>1
    <3>2. TunnelIds(p)[n - i + 1] = p.segments[n - i + 1].tunnel_id
      BY <3>1, SegmentsType
    <3> QED
      BY <2>2, <3>1, <3>2
  <2> QED
    BY <2>1, <2>2, <2>3
<1> HIDE DEF ids
<1>2. ends \in Seq(S) /\ Len(ends) = n
        /\ \A i \in 1..n : ends[i] = Terminate(p.segments[n + 1 - i].tunnel_id)
  <2>1. ASSUME NEW i \in 1..n PROVE ids[i] \in Range(TunnelIds(p))
    <3>1. n + 1 - i \in 1..n
      BY <1>1
    <3>2. ids[i] = TunnelIds(p)[n + 1 - i] /\ n + 1 - i \in DOMAIN TunnelIds(p)
      BY <1>1, <3>1, SegmentsType
    <3> QED
      BY <3>2 DEF Range
  <2>2. ends \in [1..n -> S]
    BY <1>1, <2>1
  <2> QED
    BY <1>1, <2>2
<1> HIDE DEF S, ends
<1>3. <<RouteDelete(p.prefix)>> \in Seq(S)
  BY DEF S
<1> DEFINE all == <<RouteDelete(p.prefix)>> \o ends
<1>4. /\ all \in Seq(S) /\ Len(all) = n + 1
      /\ all[1] = RouteDelete(p.prefix)
      /\ \A i \in 1..n : all[i + 1] = ends[i]
  BY <1>1, <1>2, <1>3, ConcatProperties
<1>5. n + 2 <= MaxPlanCommands
  BY SegmentsType
<1>6. RollbackCommands(p) = Kept(all)
  BY DEF RollbackCommands, ends, ids
<1>7. Kept(all) = all
  <2>1. n \in Nat /\ MaxPlanCommands \in Nat
    BY SegmentsType
  <2>2. Len(all) <= MaxPlanCommands
    BY <1>4, <1>5, <2>1
  <2> HIDE DEF all
  <2> QED
    BY <1>4, <2>2, KeptWhole
<1> QED
  BY <1>2, <1>4, <1>6, <1>7

LEMMA PlanShape ==
  ASSUME Planned
  PROVE  /\ plan # NoPlan /\ plan.path \in Plannable /\ plan.path.prefix \in RoutePrefixes
         /\ Hops \in Nat /\ Hops + 2 <= MaxPlanCommands /\ MaxPlanCommands \in Nat
         /\ plan.conf = {TunnelOf(n) : n \in 1..Hops} /\ plan.conf \subseteq TunnelNames
         /\ Range(TunnelIds(plan.path)) = plan.conf
         /\ Len(plan.commands) = Hops + 2 /\ Len(plan.rollback) = Hops + 1
<1>1. PICK p \in ConfigPaths : PlanError(Config, p) = "none" /\ plan = PlanOf(Config, p)
  BY DEF Planned, Plannable
<1>2. /\ plan.path = p /\ plan.conf = Range(TunnelIds(p))
      /\ plan.commands = Commands(p, Hop(p)) /\ plan.rollback = RollbackCommands(p)
  BY <1>1 DEF PlanOf, Hop
<1>3. /\ Hops \in Nat /\ Hops + 2 <= MaxPlanCommands /\ MaxPlanCommands \in Nat
      /\ DOMAIN TunnelIds(p) = 1..Hops /\ \A n \in 1..Hops : TunnelIds(p)[n] = TunnelOf(n)
  BY <1>2, SegmentsType DEF Hops, TunnelOf
<1>4. Len(plan.commands) = Hops + 2 /\ Len(plan.rollback) = Hops + 1
  BY <1>2, CommandsByIndex, RollbackByIndex DEF Hops
<1>5. plan # NoPlan
  <2>1. Len(NoPlan.commands) = 0
    BY DEF NoPlan
  <2> QED
    BY <1>3, <1>4, <2>1
<1>6. plan.conf = {TunnelOf(n) : n \in 1..Hops}
  BY <1>2, <1>3 DEF Range
<1>7. \A id \in plan.conf : TunnelNamed(Config, id) # NoTunnel
  BY <1>1, <1>2 DEF PlanError
<1>8. plan.conf \subseteq TunnelNames
  <2> SUFFICES ASSUME NEW id \in plan.conf PROVE id \in TunnelNames
    OBVIOUS
  <2>1. \E i \in DOMAIN Config.tunnels : Config.tunnels[i].tunnel_id = id
    BY <1>7 DEF TunnelNamed
  <2> QED
    BY <2>1 DEF TunnelNames, Range
<1> QED
  BY <1>1, <1>2, <1>3, <1>4, <1>5, <1>6, <1>8 DEF RoutePrefixes, Plannable

(* What the command at a step of the run does when it acts. *)
LEMMA RunActs ==
  ASSUME Planned, NEW n \in 1..(Hops + 2), Acts(plan.commands[n])
  PROVE  /\ n = 1 => loaded' = file /\ up' = up /\ fib' = fib
         /\ n \in 2..(Hops + 1) => loaded' = loaded /\ up' = up \cup {TunnelOf(n - 1)} /\ fib' = fib
         /\ n = Hops + 2 => /\ loaded' = loaded /\ up' = up
                            /\ fib' = [fib EXCEPT ![plan.path.prefix] = Hop(plan.path)]
<1>1. PICK p \in ConfigPaths : PlanError(Config, p) = "none" /\ plan = PlanOf(Config, p)
  BY DEF Planned, Plannable
<1>2. plan.path = p /\ plan.commands = Commands(p, Hop(p))
  BY <1>1 DEF PlanOf, Hop
<1>3. Hops \in Nat
  BY PlanShape
<1>4. CASE n = 1
  <2>1. plan.commands[n] = LoadConns
    BY <1>2, <1>4, CommandsByIndex
  <2> QED
    BY <1>3, <1>4, <2>1 DEF Acts, LoadConns
<1>5. CASE n \in 2..(Hops + 1)
  <2>1. n - 1 \in 1..Hops /\ n = (n - 1) + 1
    BY <1>3, <1>5
  <2>2. plan.commands[n] = Initiate(TunnelOf(n - 1))
    BY <1>2, <2>1, CommandsByIndex DEF Hops, TunnelOf
  <2> QED
    BY <1>3, <1>5, <2>2 DEF Acts, Initiate
<1>6. CASE n = Hops + 2
  <2>1. plan.commands[n] = RouteReplace(p.prefix, Hop(p))
    BY <1>2, <1>6, CommandsByIndex DEF Hops
  <2> QED
    BY <1>2, <1>3, <1>6, <2>1 DEF Acts, RouteReplace
<1> QED
  BY <1>3, <1>4, <1>5, <1>6

(* And the one at a step of the rollback. *)
LEMMA RollbackActs ==
  ASSUME Planned, NEW n \in 1..(Hops + 1), Acts(plan.rollback[n])
  PROVE  /\ loaded' = loaded
         /\ n = 1 => up' = up /\ fib' = [fib EXCEPT ![plan.path.prefix] = NoHop]
         /\ n > 1 => fib' = fib /\ up' = up \ {TunnelOf(Hops + 2 - n)}
<1>1. PICK p \in ConfigPaths : PlanError(Config, p) = "none" /\ plan = PlanOf(Config, p)
  BY DEF Planned, Plannable
<1>2. plan.path = p /\ plan.rollback = RollbackCommands(p)
  BY <1>1 DEF PlanOf
<1>3. Hops \in Nat
  BY PlanShape
<1>4. CASE n = 1
  <2>1. plan.rollback[n] = RouteDelete(p.prefix)
    BY <1>2, <1>4, RollbackByIndex
  <2> QED
    BY <1>2, <1>4, <2>1 DEF Acts, RouteDelete
<1>5. CASE n > 1
  <2>1. n - 1 \in 1..Hops /\ n = (n - 1) + 1 /\ Hops + 1 - (n - 1) = Hops + 2 - n
    BY <1>3, <1>5
  <2>2. plan.rollback[(n - 1) + 1] = Terminate(p.segments[Hops + 1 - (n - 1)].tunnel_id)
    BY <1>2, <2>1, RollbackByIndex DEF Hops
  <2>3. plan.rollback[n] = Terminate(TunnelOf(Hops + 2 - n))
    BY <1>2, <2>1, <2>2 DEF TunnelOf
  <2> QED
    BY <1>5, <2>3 DEF Acts, Terminate
<1> QED
  BY <1>3, <1>4, <1>5

------------------------------------------------------------------------------
(* ApplyInv is inductive: one lemma for each action. *)

LEMMA InitApplyInv ==
  Init => ApplyInv
<1> SUFFICES ASSUME Init PROVE ApplyInv
  OBVIOUS
<1> USE DEF Init
<1>1. TypeOK
  <2>1. MaxIntents \in Nat /\ MaxPlanCommands \in Nat
    BY ApplyAssumption
  <2> QED
    BY <2>1 DEF TypeOK
<1>2. PlanInv /\ RunInv /\ RollbackInv
  BY DEF PlanInv, RunInv, RollbackInv
<1>3. AppliedRoutes /\ UndoneLeavesNothing
  BY DEF AppliedRoutes, UndoneLeavesNothing
<1> QED
  BY <1>1, <1>2, <1>3 DEF ApplyInv

LEMMA PlanIntentKeeps ==
  ApplyInv /\ PlanIntent => ApplyInv'
<1> SUFFICES ASSUME ApplyInv, PlanIntent PROVE ApplyInv'
  OBVIOUS
<1> USE DEF PlanIntent, network
<1>1. \/ pc' = "write" /\ Planned'
      \/ pc' = "failed" /\ plan' = NoPlan
  BY DEF Planned, Plannable
<1>2. TypeOK'
  <2>1. intents' \in 0..MaxIntents
    BY ApplyAssumption DEF ApplyInv, TypeOK
  <2> QED
    BY <1>1, <2>1 DEF ApplyInv, TypeOK
<1>3. PlanInv'
  BY <1>1 DEF PlanInv
<1>4. RunInv'
  BY <1>1 DEF RunInv
<1>5. RollbackInv' /\ AppliedRoutes' /\ UndoneLeavesNothing'
  BY <1>1 DEF RollbackInv, AppliedRoutes, UndoneLeavesNothing
<1> QED
  BY <1>2, <1>3, <1>4, <1>5 DEF ApplyInv

LEMMA WriteFilesKeeps ==
  ApplyInv /\ WriteFiles => ApplyInv'
<1> SUFFICES ASSUME ApplyInv, WriteFiles PROVE ApplyInv'
  OBVIOUS
<1> USE DEF WriteFiles, network
<1>1. Planned
  BY DEF ApplyInv, PlanInv
<1>2. Hops \in Nat /\ MaxPlanCommands \in Nat /\ plan.conf \subseteq TunnelNames
  BY <1>1, PlanShape
<1>3. TypeOK'
  BY <1>2 DEF ApplyInv, TypeOK
<1>4. PlanInv'
  BY <1>1 DEF PlanInv, Planned
<1>5. RunInv'
  BY <1>2 DEF ApplyInv, RunInv, Hops, TunnelOf
<1>6. RollbackInv' /\ AppliedRoutes' /\ UndoneLeavesNothing'
  BY DEF RollbackInv, AppliedRoutes, UndoneLeavesNothing
<1> QED
  BY <1>3, <1>4, <1>5, <1>6 DEF ApplyInv

LEMMA WriteFailsKeeps ==
  ApplyInv /\ WriteFails => ApplyInv'
<1> SUFFICES ASSUME ApplyInv, WriteFails PROVE ApplyInv'
  OBVIOUS
<1> USE DEF WriteFails, network
<1>1. Planned
  BY DEF ApplyInv, PlanInv
<1>2. plan.conf \subseteq TunnelNames
  BY <1>1, PlanShape
<1>3. TypeOK'
  BY <1>2 DEF ApplyInv, TypeOK
<1>4. PlanInv' /\ RunInv' /\ RollbackInv' /\ AppliedRoutes' /\ UndoneLeavesNothing'
  BY DEF PlanInv, RunInv, RollbackInv, AppliedRoutes, UndoneLeavesNothing
<1> QED
  BY <1>3, <1>4 DEF ApplyInv

(* The network a command of the run leaves, whether the run goes on or not. *)
LEMMA CommandActs ==
  ASSUME ApplyInv, pc = "run", step <= Len(plan.commands), Acts(plan.commands[step]),
         UNCHANGED <<plan, file, before>>
  PROVE  /\ loaded' \subseteq TunnelNames /\ up' \subseteq TunnelNames
         /\ up \subseteq up' /\ DOMAIN fib' = RoutePrefixes
         /\ step \in 2..(Hops + 1) => TunnelOf(step - 1) \in up'
         /\ step < Hops + 2 => fib' = before
         /\ step = Hops + 2 => fib'[plan.path.prefix] = Hop(plan.path)
         /\ \A x \in RoutePrefixes \ {plan.path.prefix} : fib'[x] = before[x]
<1>1. Planned
  BY DEF ApplyInv, PlanInv
<1>2. /\ Hops \in Nat /\ Len(plan.commands) = Hops + 2
      /\ plan.path.prefix \in RoutePrefixes
      /\ plan.conf = {TunnelOf(n) : n \in 1..Hops} /\ plan.conf \subseteq TunnelNames
  BY <1>1, PlanShape
<1>3. /\ step \in 1..(Hops + 2) /\ fib = before /\ DOMAIN fib = RoutePrefixes
      /\ file \subseteq TunnelNames /\ loaded \subseteq TunnelNames /\ up \subseteq TunnelNames
  <2>1. MaxPlanCommands \in Nat
    BY ApplyAssumption
  <2>2. step \in Nat /\ step >= 1
    BY <2>1 DEF ApplyInv, TypeOK
  <2> QED
    BY <1>2, <2>2 DEF ApplyInv, TypeOK, RunInv
<1>4. CASE step = 1
  BY <1>1, <1>2, <1>3, <1>4, RunActs
<1>5. CASE step \in 2..(Hops + 1)
  <2>1. loaded' = loaded /\ up' = up \cup {TunnelOf(step - 1)} /\ fib' = fib
    BY <1>1, <1>2, <1>3, <1>5, RunActs
  <2>2. step - 1 \in 1..Hops
    BY <1>2, <1>5
  <2>3. TunnelOf(step - 1) \in TunnelNames
    BY <1>2, <2>2
  <2> QED
    BY <1>2, <1>3, <1>5, <2>1, <2>3
<1>6. CASE step = Hops + 2
  <2>1. loaded' = loaded /\ up' = up /\ fib' = [fib EXCEPT ![plan.path.prefix] = Hop(plan.path)]
    BY <1>1, <1>2, <1>3, <1>6, RunActs
  <2> QED
    BY <1>2, <1>3, <1>6, <2>1
<1> QED
  BY <1>2, <1>3, <1>4, <1>5, <1>6

LEMMA RunCommandKeeps ==
  ApplyInv /\ RunCommand => ApplyInv'
<1> SUFFICES ASSUME ApplyInv, RunCommand PROVE ApplyInv'
  OBVIOUS
<1> USE DEF RunCommand
<1>1. Planned
  BY DEF ApplyInv, PlanInv
<1>2. /\ Hops \in Nat /\ Len(plan.commands) = Hops + 2
      /\ Hops + 2 <= MaxPlanCommands /\ MaxPlanCommands \in Nat
  BY <1>1, PlanShape
<1>3. step \in 1..(Hops + 2) /\ step' = step + 1
  BY <1>2 DEF ApplyInv, TypeOK
<1>4. /\ loaded' \subseteq TunnelNames /\ up' \subseteq TunnelNames
      /\ up \subseteq up' /\ DOMAIN fib' = RoutePrefixes
      /\ step \in 2..(Hops + 1) => TunnelOf(step - 1) \in up'
      /\ step < Hops + 2 => fib' = before
      /\ step = Hops + 2 => fib'[plan.path.prefix] = Hop(plan.path)
      /\ \A x \in RoutePrefixes \ {plan.path.prefix} : fib'[x] = before[x]
  BY CommandActs
<1>5. TypeOK'
  BY <1>2, <1>3, <1>4 DEF ApplyInv, TypeOK
<1>6. PlanInv'
  BY <1>1 DEF PlanInv, Planned
<1>7. RunInv'
  <2>1. step' <= Hops + 2 => fib' = before'
    BY <1>2, <1>3, <1>4
  <2>2. ASSUME NEW n \in 1..Hops, n + 1 < step' PROVE TunnelOf(n) \in up'
    <3>1. CASE n + 1 < step
      BY <1>4, <3>1 DEF ApplyInv, RunInv
    <3>2. CASE ~ n + 1 < step
      <4>1. n = step - 1 /\ step \in 2..(Hops + 1)
        BY <1>2, <1>3, <2>2, <3>2
      <4> QED
        BY <1>4, <4>1
    <3> QED
      BY <3>1, <3>2
  <2>3. step' > Hops + 2 => fib'[plan.path.prefix] = Hop(plan.path)
    BY <1>2, <1>3, <1>4
  <2> QED
    BY <1>2, <1>3, <1>4, <2>1, <2>2, <2>3 DEF RunInv, Hops, TunnelOf, Hop, TunnelNamed
<1>8. RollbackInv' /\ AppliedRoutes' /\ UndoneLeavesNothing'
  BY DEF RollbackInv, AppliedRoutes, UndoneLeavesNothing
<1> QED
  BY <1>5, <1>6, <1>7, <1>8 DEF ApplyInv

LEMMA CommandFailsKeeps ==
  ApplyInv /\ CommandFails => ApplyInv'
<1> SUFFICES ASSUME ApplyInv, CommandFails PROVE ApplyInv'
  OBVIOUS
<1> USE DEF CommandFails
<1>1. Planned
  BY DEF ApplyInv, PlanInv
<1>2. Hops \in Nat /\ Len(plan.commands) = Hops + 2 /\ step \in Nat
  BY <1>1, PlanShape, ApplyAssumption DEF ApplyInv, TypeOK
<1>3. /\ loaded' \subseteq TunnelNames /\ up' \subseteq TunnelNames
      /\ DOMAIN fib' = RoutePrefixes
      /\ step < Hops + 2 => fib' = before
      /\ \A x \in RoutePrefixes \ {plan.path.prefix} : fib'[x] = before[x]
  <2>1. CASE UNCHANGED network
    BY <1>1, <1>2, <2>1, PlanShape DEF ApplyInv, TypeOK, RunInv, network
  <2>2. CASE Acts(plan.commands[step])
    BY <2>2, CommandActs
  <2> QED
    BY <2>1, <2>2 DEF Fails
<1>4. TypeOK'
  BY <1>3 DEF ApplyInv, TypeOK
<1>5. PlanInv'
  BY <1>1 DEF PlanInv, Planned
<1>6. RunInv'
  BY <1>3 DEF RunInv, Hops
<1>7. RollbackInv' /\ AppliedRoutes' /\ UndoneLeavesNothing'
  BY DEF RollbackInv, AppliedRoutes, UndoneLeavesNothing
<1> QED
  BY <1>4, <1>5, <1>6, <1>7 DEF ApplyInv

LEMMA RunEndsKeeps ==
  ApplyInv /\ RunEnds => ApplyInv'
<1> SUFFICES ASSUME ApplyInv, RunEnds PROVE ApplyInv'
  OBVIOUS
<1> USE DEF RunEnds, network
<1>1. Planned
  BY DEF ApplyInv, PlanInv
<1>2. /\ Hops \in Nat /\ Len(plan.commands) = Hops + 2
      /\ plan.conf = {TunnelOf(n) : n \in 1..Hops} /\ Range(TunnelIds(plan.path)) = plan.conf
  BY <1>1, PlanShape
<1>3. step \in Nat /\ step > Hops + 2
  BY <1>2, ApplyAssumption DEF ApplyInv, TypeOK
<1>4. \A n \in 1..Hops : TunnelOf(n) \in up
  BY <1>2, <1>3 DEF ApplyInv, RunInv
<1>5. Carries(plan.path) /\ fib[plan.path.prefix] = Hop(plan.path)
  BY <1>2, <1>3, <1>4 DEF ApplyInv, RunInv, Carries
<1>6. TypeOK'
  BY DEF ApplyInv, TypeOK
<1>7. PlanInv'
  BY <1>1 DEF PlanInv, Planned
<1>8. RunInv' /\ RollbackInv' /\ UndoneLeavesNothing'
  BY DEF ApplyInv, RunInv, RollbackInv, UndoneLeavesNothing
<1>9. AppliedRoutes'
  BY <1>5 DEF AppliedRoutes, Carries, Hop, TunnelNamed
<1> QED
  BY <1>6, <1>7, <1>8, <1>9 DEF ApplyInv

LEMMA StartRollbackKeeps ==
  ApplyInv /\ StartRollback => ApplyInv'
<1> SUFFICES ASSUME ApplyInv, StartRollback PROVE ApplyInv'
  OBVIOUS
<1> USE DEF StartRollback, network
<1>1. Planned
  BY DEF ApplyInv, PlanInv
<1>2. Hops \in Nat /\ MaxPlanCommands \in Nat
  BY <1>1, PlanShape
<1>3. TypeOK'
  BY <1>2 DEF ApplyInv, TypeOK
<1>4. PlanInv'
  BY <1>1 DEF PlanInv, Planned
<1>5. RunInv' /\ AppliedRoutes' /\ UndoneLeavesNothing'
  BY DEF ApplyInv, RunInv, AppliedRoutes, UndoneLeavesNothing
<1>6. RollbackInv'
  BY <1>2 DEF RollbackInv, Hops
<1> QED
  BY <1>3, <1>4, <1>5, <1>6 DEF ApplyInv

(* The network a command of the rollback leaves. *)
LEMMA UndoActs ==
  ASSUME ApplyInv, pc = "rollback", step <= Len(plan.rollback), Acts(plan.rollback[step]),
         UNCHANGED <<plan, file, before>>
  PROVE  /\ loaded' = loaded /\ up' \subseteq up /\ DOMAIN fib' = RoutePrefixes
         /\ step > 1 => TunnelOf(Hops + 2 - step) \notin up'
         /\ fib'[plan.path.prefix] = NoHop
         /\ \A x \in RoutePrefixes \ {plan.path.prefix} : fib'[x] = before[x]
<1>1. Planned
  BY DEF ApplyInv, PlanInv
<1>2. /\ plan # NoPlan /\ Hops \in Nat /\ Len(plan.rollback) = Hops + 1
      /\ plan.path.prefix \in RoutePrefixes
  BY <1>1, PlanShape
<1>3. step \in 1..(Hops + 1) /\ DOMAIN fib = RoutePrefixes
  <2>1. MaxPlanCommands \in Nat
    BY ApplyAssumption
  <2> QED
    BY <1>2, <2>1 DEF ApplyInv, TypeOK
<1>4. \A x \in RoutePrefixes \ {plan.path.prefix} : fib[x] = before[x]
  BY <1>2 DEF ApplyInv, RunInv
<1>5. CASE step = 1
  <2>1. loaded' = loaded /\ up' = up /\ fib' = [fib EXCEPT ![plan.path.prefix] = NoHop]
    BY <1>1, <1>3, <1>5, RollbackActs
  <2> QED
    BY <1>2, <1>3, <1>4, <1>5, <2>1
<1>6. CASE step > 1
  <2>1. loaded' = loaded /\ fib' = fib /\ up' = up \ {TunnelOf(Hops + 2 - step)}
    BY <1>1, <1>3, <1>6, RollbackActs
  <2>2. fib[plan.path.prefix] = NoHop
    BY <1>6 DEF ApplyInv, RollbackInv
  <2> QED
    BY <1>2, <1>3, <1>4, <2>1, <2>2
<1> QED
  BY <1>3, <1>5, <1>6

LEMMA RollbackCommandKeeps ==
  ApplyInv /\ RollbackCommand => ApplyInv'
<1> SUFFICES ASSUME ApplyInv, RollbackCommand PROVE ApplyInv'
  OBVIOUS
<1> USE DEF RollbackCommand
<1>1. Planned
  BY DEF ApplyInv, PlanInv
<1>2. /\ plan # NoPlan /\ Hops \in Nat /\ Len(plan.rollback) = Hops + 1
      /\ Hops + 2 <= MaxPlanCommands /\ MaxPlanCommands \in Nat
  BY <1>1, PlanShape
<1>3. step \in 1..(Hops + 1) /\ step' = step + 1
  BY <1>2 DEF ApplyInv, TypeOK
<1>4. /\ loaded' = loaded /\ up' \subseteq up /\ DOMAIN fib' = RoutePrefixes
      /\ step > 1 => TunnelOf(Hops + 2 - step) \notin up'
      /\ fib'[plan.path.prefix] = NoHop
      /\ \A x \in RoutePrefixes \ {plan.path.prefix} : fib'[x] = before[x]
  BY UndoActs
<1>5. TypeOK'
  BY <1>2, <1>3, <1>4 DEF ApplyInv, TypeOK
<1>6. PlanInv'
  BY <1>1 DEF PlanInv, Planned
<1>7. RunInv'
  BY <1>4 DEF RunInv
<1>8. RollbackInv'
  <2>1. ASSUME NEW n \in 1..Hops, n + 1 < step' PROVE TunnelOf(Hops + 1 - n) \notin up'
    <3>1. CASE n + 1 < step
      BY <1>4, <3>1 DEF ApplyInv, RollbackInv
    <3>2. CASE ~ n + 1 < step
      <4>1. step > 1 /\ Hops + 1 - n = Hops + 2 - step
        BY <1>2, <1>3, <2>1, <3>2
      <4> QED
        BY <1>4, <4>1
    <3> QED
      BY <3>1, <3>2
  <2> QED
    BY <1>4, <2>1 DEF RollbackInv, Hops, TunnelOf
<1>9. AppliedRoutes' /\ UndoneLeavesNothing'
  BY DEF AppliedRoutes, UndoneLeavesNothing
<1> QED
  BY <1>5, <1>6, <1>7, <1>8, <1>9 DEF ApplyInv

LEMMA RollbackFailsKeeps ==
  ApplyInv /\ RollbackFails => ApplyInv'
<1> SUFFICES ASSUME ApplyInv, RollbackFails PROVE ApplyInv'
  OBVIOUS
<1> USE DEF RollbackFails
<1>1. Planned /\ plan # NoPlan
  BY PlanShape DEF ApplyInv, PlanInv
<1>2. /\ loaded' = loaded /\ up' \subseteq up /\ DOMAIN fib' = RoutePrefixes
      /\ \A x \in RoutePrefixes \ {plan.path.prefix} : fib'[x] = before[x]
  <2>1. CASE UNCHANGED network
    BY <1>1, <2>1 DEF ApplyInv, TypeOK, RunInv, network
  <2>2. CASE Acts(plan.rollback[step])
    BY <2>2, UndoActs
  <2> QED
    BY <2>1, <2>2 DEF Fails
<1>3. TypeOK'
  BY <1>2 DEF ApplyInv, TypeOK
<1>4. PlanInv'
  BY <1>1 DEF PlanInv, Planned
<1>5. RunInv' /\ RollbackInv' /\ AppliedRoutes' /\ UndoneLeavesNothing'
  BY <1>2 DEF RunInv, RollbackInv, AppliedRoutes, UndoneLeavesNothing
<1> QED
  BY <1>3, <1>4, <1>5 DEF ApplyInv

LEMMA RollbackEndsKeeps ==
  ApplyInv /\ RollbackEnds => ApplyInv'
<1> SUFFICES ASSUME ApplyInv, RollbackEnds PROVE ApplyInv'
  OBVIOUS
<1> USE DEF RollbackEnds, network
<1>1. Planned
  BY DEF ApplyInv, PlanInv
<1>2. /\ Hops \in Nat /\ Len(plan.rollback) = Hops + 1
      /\ plan.conf = {TunnelOf(n) : n \in 1..Hops}
  BY <1>1, PlanShape
<1>3. step \in Nat /\ step > Hops + 1
  BY <1>2, ApplyAssumption DEF ApplyInv, TypeOK
<1>4. fib[plan.path.prefix] = NoHop
  BY <1>2, <1>3 DEF ApplyInv, RollbackInv
<1>5. ASSUME NEW m \in 1..Hops PROVE TunnelOf(m) \notin up
  <2>1. Hops + 1 - m \in 1..Hops /\ Hops + 1 - (Hops + 1 - m) = m /\ (Hops + 1 - m) + 1 < step
    BY <1>2, <1>3
  <2>2. TunnelOf(Hops + 1 - (Hops + 1 - m)) \notin up
    BY <2>1 DEF ApplyInv, RollbackInv
  <2> QED
    BY <2>1, <2>2
<1>6. TypeOK'
  BY DEF ApplyInv, TypeOK
<1>7. PlanInv'
  BY <1>1 DEF PlanInv, Planned
<1>8. RunInv' /\ RollbackInv' /\ AppliedRoutes'
  BY DEF ApplyInv, RunInv, RollbackInv, AppliedRoutes
<1>9. UndoneLeavesNothing'
  BY <1>2, <1>4, <1>5 DEF UndoneLeavesNothing
<1> QED
  BY <1>6, <1>7, <1>8, <1>9 DEF ApplyInv

LEMMA NextApplyInv ==
  ApplyInv /\ [Next]_vars => ApplyInv'
<1>1. ApplyInv /\ UNCHANGED vars => ApplyInv'
  BY DEF vars, network, ApplyInv, TypeOK, PlanInv, Planned, RunInv, RollbackInv, AppliedRoutes,
         UndoneLeavesNothing, Hops, TunnelOf, Hop, TunnelNamed, Carries
<1> QED
  BY <1>1, PlanIntentKeeps, WriteFilesKeeps, WriteFailsKeeps, RunCommandKeeps, CommandFailsKeeps,
     RunEndsKeeps, StartRollbackKeeps, RollbackCommandKeeps, RollbackFailsKeeps, RollbackEndsKeeps
     DEF Next

LEMMA ApplyInvariant == Spec => []ApplyInv
<1> QED
  BY InitApplyInv, NextApplyInv, PTL DEF Spec

------------------------------------------------------------------------------
(* Whatever is configured, planned, fails or is undone, every variable keeps *)
(* its type; the network never has a tunnel the configuration does not name, *)
(* and no command is looked for beyond the end of the plan's array.          *)
THEOREM ApplyTypeCorrect == Spec => []TypeOK
<1>1. ApplyInv => TypeOK
  BY DEF ApplyInv
<1> QED
  BY <1>1, ApplyInvariant, PTL

(* A run that came to its end has brought up every tunnel of its path, in    *)
(* the order load, initiate, route, and has routed the prefix over it        *)
(* (en_apply_plan_run).                                                      *)
THEOREM AppliedPlansRoute == Spec => []AppliedRoutes
<1>1. ApplyInv => AppliedRoutes
  BY DEF ApplyInv
<1> QED
  BY <1>1, ApplyInvariant, PTL

(* An apply that fails before its last command, also by a command that acted *)
(* and then failed, leaves the FIB it found, and no plan and no rollback     *)
(* touches the route of a prefix that is not its own.                        *)
THEOREM EarlyFailuresKeepRoutes == Spec => []EarlyFailureKeepsRoutes
<1>1. ASSUME ApplyInv PROVE EarlyFailureKeepsRoutes
  <2>1. ASSUME pc = "failed", step < Len(plan.commands) PROVE fib = before
    <3>1. plan # NoPlan
      <4>1. step \in Nat /\ step >= 1
        BY <1>1, ApplyAssumption DEF ApplyInv, TypeOK
      <4>2. Len(NoPlan.commands) = 0
        BY DEF NoPlan
      <4> QED
        BY <2>1, <4>1, <4>2
    <3>2. Planned
      BY <1>1, <3>1 DEF ApplyInv, PlanInv
    <3>3. Len(plan.commands) = Hops + 2
      BY <3>2, PlanShape
    <3> QED
      BY <1>1, <2>1, <3>1, <3>3 DEF ApplyInv, RunInv
  <2>2. plan # NoPlan => \A x \in RoutePrefixes \ {plan.path.prefix} : fib[x] = before[x]
    BY <1>1 DEF ApplyInv, RunInv
  <2> QED
    BY <2>1, <2>2 DEF EarlyFailureKeepsRoutes
<1> QED
  BY <1>1, ApplyInvariant, PTL

(* A rollback that ran to its end has undone its plan, from wherever the     *)
(* plan had come: neither the route nor one of its tunnels is left.          *)
THEOREM RollbacksUndo == Spec => []UndoneLeavesNothing
<1>1. ApplyInv => UndoneLeavesNothing
  BY DEF ApplyInv
<1> QED
  BY <1>1, ApplyInvariant, PTL

------------------------------------------------------------------------------
(* Routes lead over established tunnels. *)

(* RoutedIsUp is not inductive: the path found for a route must be one that  *)
(* can be planned, or a rollback may share a tunnel with it.                 *)
RoutedOverPlans ==
  \A x \in RoutePrefixes : fib[x] # NoHop =>
    \E p \in Plannable : p.prefix = x /\ Hop(p) = fib[x] /\ Carries(p)

(* No route is added and no tunnel goes down. *)
LEMMA GrowingKeepsRouted ==
  ASSUME RoutedOverPlans, \A x \in RoutePrefixes : fib'[x] \in {fib[x], NoHop}, up \subseteq up'
  PROVE  RoutedOverPlans'
<1>1. \A p \in Plannable : Carries(p) => Carries(p)'
  BY DEF Carries
<1> QED
  BY <1>1 DEF RoutedOverPlans, Hop, TunnelNamed

LEMMA RunKeepsRouted ==
  ASSUME ApplyInv, RoutedOverPlans, pc = "run", step <= Len(plan.commands),
         Acts(plan.commands[step]), UNCHANGED <<plan, file, before>>
  PROVE  RoutedOverPlans'
<1>1. Planned
  BY DEF ApplyInv, PlanInv
<1>2. /\ Hops \in Nat /\ Len(plan.commands) = Hops + 2
      /\ plan.path \in Plannable /\ plan.path.prefix \in RoutePrefixes
      /\ plan.conf = {TunnelOf(n) : n \in 1..Hops} /\ Range(TunnelIds(plan.path)) = plan.conf
  BY <1>1, PlanShape
<1>3. step \in 1..(Hops + 2) /\ DOMAIN fib = RoutePrefixes
  BY <1>2, ApplyAssumption DEF ApplyInv, TypeOK
<1>4. CASE step < Hops + 2
  <2>1. fib' = fib /\ up \subseteq up'
    BY <1>1, <1>2, <1>3, <1>4, RunActs
  <2> QED
    BY <2>1, GrowingKeepsRouted
<1>5. CASE step = Hops + 2
  <2>1. up' = up /\ fib' = [fib EXCEPT ![plan.path.prefix] = Hop(plan.path)]
    BY <1>1, <1>2, <1>3, <1>5, RunActs
  <2>2. Carries(plan.path)
    BY <1>2, <1>3, <1>5 DEF ApplyInv, RunInv, Carries
  <2>3. ASSUME NEW x \in RoutePrefixes, fib'[x] # NoHop
        PROVE  \E p \in Plannable : p.prefix = x /\ Hop(p) = fib'[x] /\ Carries(p)
    BY <1>2, <1>3, <2>1, <2>2, <2>3 DEF RoutedOverPlans
  <2> QED
    BY <2>1, <2>3 DEF RoutedOverPlans, Carries, Hop, TunnelNamed
<1> QED
  BY <1>2, <1>3, <1>4, <1>5

LEMMA RollbackKeepsRouted ==
  ASSUME OwnTunnels, ApplyInv, RoutedOverPlans, pc = "rollback", step <= Len(plan.rollback),
         Acts(plan.rollback[step]), UNCHANGED <<plan, file, before>>
  PROVE  RoutedOverPlans'
<1>1. Planned
  BY DEF ApplyInv, PlanInv
<1>2. /\ Hops \in Nat /\ Len(plan.rollback) = Hops + 1
      /\ plan.path \in Plannable /\ plan.path.prefix \in RoutePrefixes
      /\ plan.conf = {TunnelOf(n) : n \in 1..Hops} /\ Range(TunnelIds(plan.path)) = plan.conf
  BY <1>1, PlanShape
<1>3. step \in 1..(Hops + 1) /\ DOMAIN fib = RoutePrefixes
  BY <1>2, ApplyAssumption DEF ApplyInv, TypeOK
<1>4. CASE step = 1
  <2>1. up' = up /\ fib' = [fib EXCEPT ![plan.path.prefix] = NoHop]
    BY <1>1, <1>3, <1>4, RollbackActs
  <2> QED
    BY <1>3, <2>1, GrowingKeepsRouted
<1>5. CASE step > 1
  <2>1. fib' = fib /\ up' = up \ {TunnelOf(Hops + 2 - step)}
    BY <1>1, <1>3, <1>5, RollbackActs
  <2>2. Hops + 2 - step \in 1..Hops
    BY <1>2, <1>3, <1>5
  <2>3. TunnelOf(Hops + 2 - step) \in Range(TunnelIds(plan.path))
    BY <1>2, <2>2
  <2>4. fib[plan.path.prefix] = NoHop
    BY <1>5 DEF ApplyInv, RollbackInv
  <2>5. ASSUME NEW x \in RoutePrefixes, fib[x] # NoHop
        PROVE  \E p \in Plannable : p.prefix = x /\ Hop(p) = fib[x] /\ Carries(p)'
    <3>1. PICK p \in Plannable : p.prefix = x /\ Hop(p) = fib[x] /\ Carries(p)
      BY <2>5 DEF RoutedOverPlans
    <3>2. p.prefix # plan.path.prefix
      BY <2>4, <2>5, <3>1
    <3>3. TunnelOf(Hops + 2 - step) \notin Range(TunnelIds(p))
      BY <1>2, <2>3, <3>2 DEF OwnTunnels
    <3>4. Carries(p)'
      BY <2>1, <3>1, <3>3 DEF Carries
    <3> QED
      BY <3>1, <3>4
  <2> QED
    BY <2>1, <2>5 DEF RoutedOverPlans, Hop, TunnelNamed
<1> QED
  BY <1>2, <1>3, <1>4, <1>5

LEMMA NextKeepsRouted ==
  OwnTunnels /\ ApplyInv /\ RoutedOverPlans /\ [Next]_vars => RoutedOverPlans'
<1> SUFFICES ASSUME OwnTunnels, ApplyInv, RoutedOverPlans, [Next]_vars PROVE RoutedOverPlans'
  OBVIOUS
<1>1. CASE UNCHANGED network
  BY <1>1, GrowingKeepsRouted DEF network
<1>2. CASE RunCommand
  BY <1>2, RunKeepsRouted DEF RunCommand
<1>3. CASE CommandFails
  BY <1>1, <1>3, RunKeepsRouted DEF CommandFails, Fails
<1>4. CASE RollbackCommand
  BY <1>4, RollbackKeepsRouted DEF RollbackCommand
<1>5. CASE RollbackFails
  BY <1>1, <1>5, RollbackKeepsRouted DEF RollbackFails, Fails
<1>6. CASE PlanIntent \/ WriteFiles \/ WriteFails \/ RunEnds \/ StartRollback \/ RollbackEnds
  BY <1>1, <1>6 DEF PlanIntent, WriteFiles, WriteFails, RunEnds, StartRollback, RollbackEnds
<1>7. CASE UNCHANGED vars
  BY <1>1, <1>7 DEF vars, network
<1> QED
  BY <1>2, <1>3, <1>4, <1>5, <1>6, <1>7 DEF Next

(* When plannable paths of different prefixes share no tunnel, every route   *)
(* of the FIB leads over a path whose tunnels are all established: at no     *)
(* moment of an apply, of one that replaces another, of a failure or of a    *)
(* rollback is there traffic routed into a tunnel that is down.              *)
THEOREM RoutesLeadOverTunnels == OwnTunnels => (Spec => []RoutedIsUp)
<1> SUFFICES ASSUME OwnTunnels PROVE Spec => []RoutedIsUp
  OBVIOUS
<1>1. Init => RoutedOverPlans
  BY DEF Init, RoutedOverPlans
<1>2. ApplyInv /\ RoutedOverPlans /\ [Next]_vars => RoutedOverPlans'
  BY NextKeepsRouted
<1>3. RoutedOverPlans => RoutedIsUp
  BY DEF RoutedOverPlans, RoutedIsUp, Plannable
<1> QED
  BY <1>1, <1>2, <1>3, ApplyInvariant, PTL DEF Spec

(* Before a rollback nothing is asked of the configuration: whatever shares  *)
(* tunnels with whatever, no apply and no failure of one cuts a route off.   *)
RoutedBeforeRollback ==
  pc \notin {"rollback", "stopped", "undone"} => RoutedIsUp

THEOREM AppliesCutNoRoute == Spec => []RoutedBeforeRollback
<1> DEFINE Inv == pc \notin {"rollback", "stopped", "undone"} => RoutedOverPlans
<1>1. Init => Inv
  BY DEF Init, RoutedOverPlans
<1>2. ApplyInv /\ Inv /\ [Next]_vars => Inv'
  <2> SUFFICES ASSUME ApplyInv, Inv, [Next]_vars PROVE Inv'
    OBVIOUS
  <2>1. CASE UNCHANGED <<pc, network>>
    BY <2>1, GrowingKeepsRouted DEF network
  <2>2. CASE RunCommand
    BY <2>2, RunKeepsRouted DEF RunCommand
  <2>3. CASE CommandFails /\ UNCHANGED network
    BY <2>3, GrowingKeepsRouted DEF CommandFails, network
  <2>4. CASE CommandFails /\ Acts(plan.commands[step])
    BY <2>4, RunKeepsRouted DEF CommandFails
  <2>5. CASE PlanIntent \/ WriteFiles \/ WriteFails \/ RunEnds
    BY <2>5, GrowingKeepsRouted DEF PlanIntent, WriteFiles, WriteFails, RunEnds, network
  <2>6. CASE StartRollback \/ RollbackCommand \/ RollbackFails \/ RollbackEnds
    BY <2>6 DEF StartRollback, RollbackCommand, RollbackFails, RollbackEnds
  <2> QED
    BY <2>1, <2>2, <2>3, <2>4, <2>5, <2>6 DEF Next, vars, CommandFails, Fails, network
<1>3. Inv => RoutedBeforeRollback
  BY DEF RoutedOverPlans, RoutedIsUp, Plannable, RoutedBeforeRollback
<1> QED
  BY <1>1, <1>2, <1>3, ApplyInvariant, PTL DEF Spec
==============================================================================
