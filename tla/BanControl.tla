---------------------------- MODULE BanControl ----------------------------
(***************************************************************************)
(* Bans and their enforcement.  The main goroutine keeps the table         *)
(* bannedIPs and, for every ban and unban, starts a goroutine that runs    *)
(* the operator's script; nobody waits for a script, orders two of them or *)
(* looks at their result.  What the scripts leave in the firewall is what  *)
(* an address feels.                                                       *)
(*                                                                         *)
(* Time is counted in units; a ban lasts BanTime of them.  A ban in the    *)
(* table is the age it has reached, which the model follows up to BanTime. *)
(***************************************************************************)
EXTENDS Naturals, FiniteSets, Functions

CONSTANTS
  IPs,          \* addresses that may offend
  BanTime,      \* config.BanTime
  Script,       \* "counting": the script of the README, -I and -D.
                \* "checking": example-ban-script.sh, -C before -A or -D.
  Prompt,       \* scripts end before the next unit of time
  MaxLaunches,  \* bound: script launches per address and life of the daemon
  MaxRestarts,  \* bound: stops and crashes of the daemon
  MaxFailures   \* bound: scripts that end without effect

ASSUME ScriptAssumption == Script \in {"counting", "checking"} /\ Prompt \in BOOLEAN
ASSUME BanTimeAssumption == BanTime \in Nat
ASSUME BoundsAssumption ==
  MaxLaunches \in Nat /\ MaxRestarts \in Nat /\ MaxFailures \in Nat

VARIABLES
  up,           \* the daemon is running
  pc,           \* the main goroutine: "idle", or "process" after checkExpiredBans
  bannedIPs,    \* the table: banned addresses, with the age of their ban
  launched,     \* launched[ip]: scripts launched for ip in this life
  jobs,         \* the scripts that have not finished
  rules,        \* rules[ip]: DROP rules for ip in the firewall
  restarts,     \* how often the daemon stopped
  failures      \* how many scripts failed

vars == <<up, pc, bannedIPs, launched, jobs, rules, restarts, failures>>

Banned == DOMAIN bannedIPs
Free == [ip \in {} |-> 0]

-----------------------------------------------------------------------------
(* runScript for a set of addresses: one goroutine each. *)
Launch(act, ips) ==
  /\ launched' = [ip \in IPs |-> IF ip \in ips THEN launched[ip] + 1 ELSE launched[ip]]
  /\ jobs' = jobs \cup {[ip |-> ip, act |-> act, life |-> restarts,
                         n |-> launched[ip] + 1, st |-> "start"] : ip \in ips}

Expired == {ip \in Banned : bannedIPs[ip] >= BanTime}

Init ==
  /\ up = TRUE
  /\ pc = "idle"
  /\ bannedIPs = Free
  /\ launched = [ip \in IPs |-> 0]
  /\ jobs = {}
  /\ rules = [ip \in IPs |-> 0]
  /\ restarts = 0
  /\ failures = 0

(* Time passes for every ban.  The program compares the time since Start   *)
(* with BanTime; how far past it a ban is makes no difference, so the      *)
(* model stops counting there.                                             *)
Elapse ==
  /\ \E ip \in Banned : bannedIPs[ip] < BanTime
  /\ Prompt => jobs = {}
  /\ bannedIPs' = [ip \in Banned |->
                     IF bannedIPs[ip] < BanTime THEN bannedIPs[ip] + 1 ELSE bannedIPs[ip]]
  /\ UNCHANGED <<up, pc, launched, jobs, rules, restarts, failures>>

(* Slip: the entry is forgotten and the script is not run. *)
CheckExpiredBansSilently ==
  /\ up /\ pc = "idle"
  /\ bannedIPs' = Restrict(bannedIPs, Banned \ Expired)
  /\ pc' = "process"
  /\ UNCHANGED <<up, launched, jobs, rules, restarts, failures>>

(* checkExpiredBans, at the start of a tick: one critical section. *)
CheckExpiredBans ==
  /\ up /\ pc = "idle"
  /\ bannedIPs' = Restrict(bannedIPs, Banned \ Expired)
  /\ Launch("unban", Expired)
  /\ pc' = "process"
  /\ UNCHANGED <<up, rules, restarts, failures>>

(* Slip: another offence starts the ban time again. *)
BanOffendersAgain(offenders) ==
  LET new == offenders \ Banned
  IN  /\ up /\ pc = "process"
      /\ \A ip \in new : launched[ip] < MaxLaunches
      /\ bannedIPs' = [ip \in Banned \cup offenders |->
                         IF ip \in offenders THEN 0 ELSE bannedIPs[ip]]
      /\ Launch("ban", new)
      /\ pc' = "idle"
      /\ UNCHANGED <<up, rules, restarts, failures>>

(* Slip: banIP without its test of the table. *)
BanOffendersBlindly(offenders) ==
  /\ up /\ pc = "process"
  /\ \A ip \in offenders : launched[ip] < MaxLaunches
  /\ bannedIPs' = [ip \in Banned \cup offenders |->
                     IF ip \in offenders \ Banned THEN 0 ELSE bannedIPs[ip]]
  /\ Launch("ban", offenders)
  /\ pc' = "idle"
  /\ UNCHANGED <<up, rules, restarts, failures>>

(* The ban loop of processMap: banIP for every address over a threshold,   *)
(* which leaves an address alone that is banned already.                   *)
BanOffenders(offenders) ==
  LET new == offenders \ Banned
  IN  /\ up /\ pc = "process"
      /\ \A ip \in new : launched[ip] < MaxLaunches
      /\ bannedIPs' = [ip \in Banned \cup new |-> IF ip \in new THEN 0 ELSE bannedIPs[ip]]
      /\ Launch("ban", new)
      /\ pc' = "idle"
      /\ UNCHANGED <<up, rules, restarts, failures>>

-----------------------------------------------------------------------------
(* iptables -I/-A adds a rule, -D removes one or fails. *)
Apply(act, n) == IF act = "ban" THEN n + 1 ELSE IF n > 0 THEN n - 1 ELSE 0

(* iptables -C: is there anything left to do? *)
Needed(j) == (j.act = "ban") <=> (rules[j.ip] = 0)

(* Slip: ban does not look whether the rule is there. *)
ScriptCheckUnbanOnly(j) ==
  /\ Script = "checking" /\ j.st = "start"
  /\ jobs' = (jobs \ {j}) \cup (IF Needed(j) \/ j.act = "ban"
                                THEN {[j EXCEPT !.st = "act"]} ELSE {})
  /\ UNCHANGED <<up, pc, bannedIPs, launched, rules, restarts, failures>>

(* example-ban-script.sh looks first, and ends if there is nothing to do; *)
ScriptCheck(j) ==
  /\ Script = "checking" /\ j.st = "start"
  /\ jobs' = (jobs \ {j}) \cup (IF Needed(j) THEN {[j EXCEPT !.st = "act"]} ELSE {})
  /\ UNCHANGED <<up, pc, bannedIPs, launched, rules, restarts, failures>>

(* then it acts, as the script of the README does at once. *)
ScriptAct(j) ==
  /\ Script = "checking" => j.st = "act"
  /\ rules' = [rules EXCEPT ![j.ip] = Apply(j.act, @)]
  /\ jobs' = jobs \ {j}
  /\ UNCHANGED <<up, pc, bannedIPs, launched, restarts, failures>>

(* A script that cannot run, or fails, is logged and forgotten. *)
ScriptFails(j) ==
  /\ failures < MaxFailures
  /\ failures' = failures + 1
  /\ jobs' = jobs \ {j}
  /\ UNCHANGED <<up, pc, bannedIPs, launched, rules, restarts>>

(* A signal, a crash or a service restart: the table is gone, scripts may  *)
(* go with their parent or outlive it, the firewall stays.                 *)
Stop ==
  /\ up /\ restarts < MaxRestarts
  /\ up' = FALSE
  /\ \E alive \in SUBSET jobs : jobs' = alive
  /\ pc' = "idle"
  /\ bannedIPs' = Free
  /\ launched' = [ip \in IPs |-> 0]
  /\ restarts' = restarts + 1
  /\ UNCHANGED <<rules, failures>>

(* Restart=always: main starts with an empty table. *)
Restart ==
  /\ ~up
  /\ Prompt => jobs = {}
  /\ up' = TRUE
  /\ UNCHANGED <<pc, bannedIPs, launched, jobs, rules, restarts, failures>>

Daemon == CheckExpiredBans \/ \E offenders \in SUBSET IPs : BanOffenders(offenders)

RunScript(j) == ScriptCheck(j) \/ ScriptAct(j)

Next ==
  \/ Elapse
  \/ Daemon
  \/ \E j \in jobs : RunScript(j) \/ ScriptFails(j)
  \/ Stop
  \/ Restart

Spec == Init /\ [][Next]_vars

(* Time passes, the ticker keeps firing, a started script ends. *)
Fairness ==
  /\ WF_vars(Elapse)
  /\ WF_vars(Daemon)
  /\ WF_vars(\E j \in jobs : RunScript(j))
  /\ WF_vars(Restart)

FairSpec == Spec /\ Fairness

-----------------------------------------------------------------------------
Acts == {"ban", "unban"}
Job == [ip : IPs, act : Acts, life : Nat, n : Nat, st : {"start", "act"}]
JobsOf(ip) == {j \in jobs : j.ip = ip}

(* The types of the variables; a daemon that is down has no table.  The    *)
(* proofs need it, and Elapse keeps the ages within 0 .. BanTime.          *)
TypeOK ==
  /\ up \in BOOLEAN
  /\ pc \in {"idle", "process"}
  /\ Banned \subseteq IPs
  /\ bannedIPs \in [Banned -> 0 .. BanTime]
  /\ ~up => Banned = {}
  /\ launched \in [IPs -> Nat]
  /\ jobs \subseteq Job
  /\ rules \in [IPs -> Nat]
  /\ restarts \in Nat
  /\ failures \in Nat

(* In each life of the daemon the launches for an address alternate, ban   *)
(* first, and the table says which was the last: no ban is announced twice *)
(* and none is dropped without its unban.                                  *)
LaunchesAlternate ==
  /\ \A ip \in IPs : ip \in Banned <=> launched[ip] % 2 = 1
  /\ \A j \in jobs : j.act = "ban" <=> j.n % 2 = 1

(* Once the scripts for a banned address have ended, it has a rule. *)
BannedMeansBlocked ==
  \A ip \in IPs : (ip \in Banned /\ JobsOf(ip) = {}) => rules[ip] > 0

(* The firewall and the table never differ by more than the scripts that   *)
(* are still to run.                                                       *)
RulesMatch ==
  \A ip \in IPs :
    rules[ip] + Cardinality({j \in JobsOf(ip) : j.act = "ban"}) =
      Cardinality({j \in JobsOf(ip) : j.act = "unban"}) + (IF ip \in Banned THEN 1 ELSE 0)

(* An address never has two rules at a time. *)
SingleRule == \A ip \in IPs : rules[ip] <= 1

(* An address that is not banned, with no script on its way, is not        *)
(* blocked, unless a script failed or the daemon stopped: when unban and   *)
(* the next ban check and act at the same time a rule may be lost, but     *)
(* none is left behind.                                                    *)
NoRuleLeft ==
  (failures = 0 /\ restarts = 0) =>
    \A ip \in IPs : (ip \notin Banned /\ JobsOf(ip) = {}) => rules[ip] = 0

Blocked == {ip \in IPs : rules[ip] > 0}

(* The table and the firewall together keep the promise of BanLease: one   *)
(* lease at a time, none renewed or cut short, and the firewall in         *)
(* agreement with the leases whenever time passes.                         *)
Lease == INSTANCE BanLease WITH
  leases <- bannedIPs,
  blocked <- Blocked

ImplementsLease == Lease!Spec

(* A ban ends, even if the address goes on offending. *)
BanEnds == \A ip \in IPs : (ip \in Banned) ~> (ip \notin Banned)

(* When the offences are over, the firewall is left as it was found. *)
EventuallyUnblocked == <>[](\A ip \in IPs : rules[ip] = 0)
=============================================================================
