------------------------- MODULE BanControlProofs -------------------------
(***************************************************************************)
(* Theorems about BanControl, for any addresses and any ban time.          *)
(*                                                                         *)
(* TypeCorrect and TableIsLaunched need nothing of the scripts.  The       *)
(* firewall follows the table (RulesFollowTable) only under the conditions *)
(* the theorem names; JobInv says what they buy: at most one ban and one   *)
(* unban of an address are on the way, and only while its ban is new.      *)
(***************************************************************************)
EXTENDS BanControl, FiniteSetTheorems, TLAPS

NewJobs(act, ips) ==
  {[ip |-> ip, act |-> act, life |-> restarts, n |-> launched[ip] + 1, st |-> "start"] :
     ip \in ips}

(* Launch counts every address it launches for, and adds one job for each. *)
LEMMA LaunchEffect ==
  ASSUME TypeOK, NEW act \in Acts, NEW ips \in SUBSET IPs, Launch(act, ips)
  PROVE  /\ launched' \in [IPs -> Nat]
         /\ \A ip \in IPs : launched'[ip] = IF ip \in ips THEN launched[ip] + 1 ELSE launched[ip]
         /\ jobs' = jobs \cup NewJobs(act, ips)
         /\ jobs' \subseteq Job
         /\ \A j \in jobs' : j \in jobs \/ /\ j.ip \in ips /\ j.act = act
                                           /\ j.n = launched[j.ip] + 1
                                           /\ j \in NewJobs(act, ips)
<1>1. /\ launched' \in [IPs -> Nat]
      /\ \A ip \in IPs : launched'[ip] = IF ip \in ips THEN launched[ip] + 1 ELSE launched[ip]
  BY DEF Launch, TypeOK
<1>2. jobs' = jobs \cup NewJobs(act, ips)
  BY DEF Launch, NewJobs
<1>3. \A j \in NewJobs(act, ips) : /\ j \in Job
                                   /\ j.ip \in ips /\ j.act = act
                                   /\ j.n = launched[j.ip] + 1
  BY DEF NewJobs, Job, TypeOK
<1> QED
  BY <1>1, <1>2, <1>3 DEF TypeOK

-----------------------------------------------------------------------------
LEMMA TypeInit == Init => TypeOK
<1> SUFFICES ASSUME Init PROVE TypeOK
  OBVIOUS
<1>1. DOMAIN Free = {} /\ Free \in [{} -> 0 .. BanTime]
  BY DEF Free
<1> QED
  BY <1>1 DEF Init, TypeOK, Banned

LEMMA TypeStep == TypeOK /\ [Next]_vars => TypeOK'
<1> SUFFICES ASSUME TypeOK, [Next]_vars PROVE TypeOK'
  OBVIOUS
<1> USE BanTimeAssumption
<1>1. CASE Elapse
  <2>1. DOMAIN bannedIPs' = Banned /\ bannedIPs' \in [Banned -> 0 .. BanTime]
    BY <1>1 DEF Elapse, TypeOK, Banned
  <2> QED
    BY <1>1, <2>1 DEF Elapse, TypeOK, Banned
<1>2. CASE CheckExpiredBans
  <2>1. DOMAIN bannedIPs' = Banned \ Expired /\ bannedIPs' \in [Banned \ Expired -> 0 .. BanTime]
    BY <1>2 DEF CheckExpiredBans, Restrict, TypeOK, Banned
  <2>2. launched' \in [IPs -> Nat] /\ jobs' \subseteq Job
    <3>1. "unban" \in Acts /\ Expired \in SUBSET IPs
      BY DEF Acts, Expired, TypeOK
    <3> QED
      BY <1>2, <3>1, LaunchEffect DEF CheckExpiredBans
  <2> QED
    BY <1>2, <2>1, <2>2 DEF CheckExpiredBans, TypeOK, Banned
<1>3. ASSUME NEW offenders \in SUBSET IPs, BanOffenders(offenders)
      PROVE  TypeOK'
  <2> DEFINE new == offenders \ Banned
  <2>1. /\ DOMAIN bannedIPs' = Banned \cup new
        /\ bannedIPs' \in [Banned \cup new -> 0 .. BanTime]
    BY <1>3 DEF BanOffenders, TypeOK, Banned
  <2>2. launched' \in [IPs -> Nat] /\ jobs' \subseteq Job
    <3>1. "ban" \in Acts /\ new \in SUBSET IPs
      BY DEF Acts
    <3> QED
      BY <1>3, <3>1, LaunchEffect DEF BanOffenders
  <2> QED
    BY <1>3, <2>1, <2>2 DEF BanOffenders, TypeOK, Banned
<1>4. ASSUME NEW j \in jobs, ScriptCheck(j)
      PROVE  TypeOK'
  <2>1. [j EXCEPT !.st = "act"] \in Job
    BY DEF TypeOK, Job
  <2>2. jobs' \subseteq Job
    BY <1>4, <2>1 DEF ScriptCheck, TypeOK
  <2> QED
    BY <1>4, <2>2 DEF ScriptCheck, TypeOK, Banned
<1>5. ASSUME NEW j \in jobs, ScriptAct(j)
      PROVE  TypeOK'
  <2>1. j.ip \in IPs
    BY DEF TypeOK, Job
  <2>2. rules' \in [IPs -> Nat]
    BY <1>5, <2>1 DEF ScriptAct, Apply, TypeOK
  <2> QED
    BY <1>5, <2>2 DEF ScriptAct, TypeOK, Banned
<1>6. ASSUME NEW j \in jobs, ScriptFails(j)
      PROVE  TypeOK'
  BY <1>6 DEF ScriptFails, TypeOK, Banned
<1>7. CASE Stop
  <2>1. DOMAIN Free = {} /\ Free \in [{} -> 0 .. BanTime]
    BY DEF Free
  <2>2. jobs' \subseteq Job /\ launched' \in [IPs -> Nat] /\ restarts' \in Nat
    BY <1>7 DEF Stop, TypeOK
  <2>3. up' = FALSE /\ pc' = "idle" /\ bannedIPs' = Free /\ rules' = rules /\ failures' = failures
    BY <1>7 DEF Stop
  <2>4. Banned' = {}
    BY <2>1, <2>3 DEF Banned
  <2> QED
    BY <2>1, <2>2, <2>3, <2>4 DEF TypeOK
<1>8. CASE Restart
  BY <1>8 DEF Restart, TypeOK, Banned
<1>9. CASE UNCHANGED vars
  BY <1>9 DEF vars, TypeOK, Banned
<1> QED
  BY <1>1, <1>2, <1>3, <1>4, <1>5, <1>6, <1>7, <1>8, <1>9 DEF Next, Daemon, RunScript

(* The type invariant holds of every instance. *)
THEOREM TypeCorrect == Spec => []TypeOK
BY TypeInit, TypeStep, PTL DEF Spec

-----------------------------------------------------------------------------
LEMMA ParityFlips ==
  ASSUME NEW k \in Nat
  PROVE  (k + 1) % 2 = 1 <=> ~(k % 2 = 1)
BY SMT

LEMMA AlternateInit == Init => LaunchesAlternate
BY DEF Init, LaunchesAlternate, Free, Banned

LEMMA AlternateStep == TypeOK /\ LaunchesAlternate /\ [Next]_vars => LaunchesAlternate'
<1> SUFFICES ASSUME TypeOK, LaunchesAlternate, [Next]_vars PROVE LaunchesAlternate'
  OBVIOUS
<1>0. launched \in [IPs -> Nat] /\ jobs \subseteq Job /\ Banned \subseteq IPs
  BY DEF TypeOK
<1>1. CASE Elapse
  BY <1>1 DEF Elapse, LaunchesAlternate, Banned
<1>2. CASE CheckExpiredBans
  <2>1. "unban" \in Acts /\ Expired \in SUBSET IPs /\ Launch("unban", Expired)
    BY <1>0, <1>2 DEF Acts, Expired, CheckExpiredBans
  <2>2. Banned' = Banned \ Expired
    BY <1>2 DEF CheckExpiredBans, Restrict, Banned
  <2>3. ASSUME NEW ip \in IPs PROVE ip \in Banned' <=> launched'[ip] % 2 = 1
    <3>1. ip \in Expired => ip \in Banned
      BY DEF Expired
    <3>2. launched'[ip] = IF ip \in Expired THEN launched[ip] + 1 ELSE launched[ip]
      BY <2>1, LaunchEffect
    <3> QED
      BY <1>0, <2>2, <3>1, <3>2, ParityFlips DEF LaunchesAlternate
  <2>4. ASSUME NEW j \in jobs' PROVE j.act = "ban" <=> j.n % 2 = 1
    <3>1. CASE j \in jobs
      BY <3>1 DEF LaunchesAlternate
    <3>2. CASE j \notin jobs
      <4>1. j.ip \in Expired /\ j.act = "unban" /\ j.n = launched[j.ip] + 1
        BY <2>1, <3>2, LaunchEffect
      <4>2. j.ip \in IPs /\ launched[j.ip] % 2 = 1 /\ launched[j.ip] \in Nat
        BY <1>0, <4>1 DEF Expired, LaunchesAlternate
      <4> QED
        BY <4>1, <4>2, ParityFlips
    <3> QED
      BY <3>1, <3>2
  <2> QED
    BY <2>3, <2>4 DEF LaunchesAlternate
<1>3. ASSUME NEW offenders \in SUBSET IPs, BanOffenders(offenders)
      PROVE  LaunchesAlternate'
  <2> DEFINE new == offenders \ Banned
  <2>1. "ban" \in Acts /\ new \in SUBSET IPs /\ Launch("ban", new)
    BY <1>3 DEF Acts, BanOffenders
  <2>2. Banned' = Banned \cup new
    BY <1>3 DEF BanOffenders, Banned
  <2>3. ASSUME NEW ip \in IPs PROVE ip \in Banned' <=> launched'[ip] % 2 = 1
    <3>1. launched'[ip] = IF ip \in new THEN launched[ip] + 1 ELSE launched[ip]
      BY <2>1, LaunchEffect
    <3> QED
      BY <1>0, <2>2, <3>1, ParityFlips DEF LaunchesAlternate
  <2>4. ASSUME NEW j \in jobs' PROVE j.act = "ban" <=> j.n % 2 = 1
    <3>1. CASE j \in jobs
      BY <3>1 DEF LaunchesAlternate
    <3>2. CASE j \notin jobs
      <4>1. j.ip \in new /\ j.act = "ban" /\ j.n = launched[j.ip] + 1
        BY <2>1, <3>2, LaunchEffect
      <4>2. j.ip \in IPs /\ ~(launched[j.ip] % 2 = 1) /\ launched[j.ip] \in Nat
        BY <1>0, <4>1 DEF LaunchesAlternate
      <4> QED
        BY <4>1, <4>2, ParityFlips
    <3> QED
      BY <3>1, <3>2
  <2> QED
    BY <2>3, <2>4 DEF LaunchesAlternate
<1>4. ASSUME NEW j \in jobs, ScriptCheck(j)
      PROVE  LaunchesAlternate'
  <2> DEFINE done == [j EXCEPT !.st = "act"]
  <2>1. done.act = j.act /\ done.n = j.n
    BY <1>0 DEF Job
  <2>2. jobs' \subseteq jobs \cup {done} /\ launched' = launched /\ Banned' = Banned
    BY <1>4 DEF ScriptCheck, Banned
  <2> QED
    BY <2>1, <2>2 DEF LaunchesAlternate
<1>5. ASSUME NEW j \in jobs, ScriptAct(j) \/ ScriptFails(j)
      PROVE  LaunchesAlternate'
  BY <1>5 DEF ScriptAct, ScriptFails, LaunchesAlternate, Banned
<1>6. CASE Stop
  <2>1. Banned' = {} /\ jobs' \subseteq jobs /\ \A ip \in IPs : launched'[ip] = 0
    BY <1>6 DEF Stop, Free, Banned
  <2> QED
    BY <2>1 DEF LaunchesAlternate
<1>7. CASE Restart
  BY <1>7 DEF Restart, LaunchesAlternate, Banned
<1>8. CASE UNCHANGED vars
  BY <1>8 DEF vars, LaunchesAlternate, Banned
<1> QED
  BY <1>1, <1>2, <1>3, <1>4, <1>5, <1>6, <1>7, <1>8 DEF Next, Daemon, RunScript

(* Whatever the scripts do and however often the daemon restarts, it       *)
(* launches ban and unban of an address in turns, and its table holds      *)
(* exactly the addresses whose last launch was a ban.                      *)
THEOREM TableIsLaunched == Spec => []LaunchesAlternate
<1>1. Init /\ [][Next]_vars /\ []TypeOK => []LaunchesAlternate
  BY AlternateInit, AlternateStep, PTL
<1> QED
  BY TypeCorrect, <1>1, PTL DEF Spec
-----------------------------------------------------------------------------
(* What the theorem needs: the script of the README, scripts that neither  *)
(* fail nor take a unit of time, a ban time, and a daemon that stays up.   *)
PromptScripts ==
  /\ Script = "counting" /\ Prompt = TRUE /\ BanTime > 0
  /\ MaxRestarts = 0 /\ MaxFailures = 0

HasJob(act, ip) == \E j \in jobs : j.ip = ip /\ j.act = act
Num(p) == IF p THEN 1 ELSE 0

(* A script on its way belongs to a ban that is new, or to one that is     *)
(* over, and it is the only one of its kind.                               *)
JobInv ==
  /\ \A j \in jobs : j.act = "ban" => j.ip \in Banned
  /\ \A j \in jobs : j.ip \in Banned => bannedIPs[j.ip] = 0
  /\ \A j, k \in jobs : (j.ip = k.ip /\ j.act = k.act) => j = k
  /\ \A ip \in IPs : rules[ip] + Num(HasJob("ban", ip)) =
                       Num(HasJob("unban", ip)) + Num(ip \in Banned)

(* With one job of a kind at most, counting jobs is asking for one. *)
LEMMA JobCount ==
  ASSUME JobInv, NEW act, NEW ip
  PROVE  Cardinality({j \in JobsOf(ip) : j.act = act}) = Num(HasJob(act, ip))
<1> DEFINE S == {j \in JobsOf(ip) : j.act = act}
<1>1. CASE HasJob(act, ip)
  <2>1. PICK j \in jobs : j.ip = ip /\ j.act = act
    BY <1>1 DEF HasJob
  <2>2. S = {j}
    BY <2>1 DEF JobInv, JobsOf
  <2> QED
    BY <1>1, <2>2, FS_Singleton DEF Num
<1>2. CASE ~HasJob(act, ip)
  <2>1. S = {}
    BY <1>2 DEF HasJob, JobsOf
  <2> QED
    BY <1>2, <2>1, FS_EmptySet DEF Num
<1> QED
  BY <1>1, <1>2

LEMMA JobInvMatches == JobInv => RulesMatch
<1> SUFFICES ASSUME JobInv, NEW ip \in IPs
             PROVE  rules[ip] + Cardinality({j \in JobsOf(ip) : j.act = "ban"}) =
                      Cardinality({j \in JobsOf(ip) : j.act = "unban"})
                        + (IF ip \in Banned THEN 1 ELSE 0)
  BY DEF RulesMatch
<1>1. /\ Cardinality({j \in JobsOf(ip) : j.act = "ban"}) = Num(HasJob("ban", ip))
      /\ Cardinality({j \in JobsOf(ip) : j.act = "unban"}) = Num(HasJob("unban", ip))
  BY JobCount
<1>2. rules[ip] + Num(HasJob("ban", ip)) = Num(HasJob("unban", ip)) + Num(ip \in Banned)
  BY DEF JobInv
<1> QED
  BY <1>1, <1>2 DEF Num

LEMMA JobInit == Init => JobInv
<1> SUFFICES ASSUME Init PROVE JobInv
  OBVIOUS
<1>1. Banned = {} /\ jobs = {}
  BY DEF Init, Banned, Free
<1>2. \A ip \in IPs : rules[ip] = 0 /\ ~HasJob("ban", ip) /\ ~HasJob("unban", ip)
  BY <1>1 DEF Init, HasJob
<1> QED
  BY <1>1, <1>2 DEF JobInv, Num

(* A due ban has no script on its way, so its unban is alone. *)
LEMMA ExpireKeepsJobs ==
  ASSUME PromptScripts, TypeOK, JobInv, CheckExpiredBans
  PROVE  JobInv'
<1>1. /\ "unban" \in Acts /\ Expired \in SUBSET IPs /\ Launch("unban", Expired)
      /\ bannedIPs' = Restrict(bannedIPs, Banned \ Expired) /\ rules' = rules
  BY DEF Acts, Expired, CheckExpiredBans, TypeOK
<1>2. Banned' = Banned \ Expired /\ \A ip \in Banned' : bannedIPs'[ip] = bannedIPs[ip]
  BY <1>1 DEF Restrict, Banned
<1>3. \A j \in jobs : j.ip \notin Expired
  BY BanTimeAssumption DEF Expired, JobInv, PromptScripts
<1>4. /\ jobs' = jobs \cup NewJobs("unban", Expired)
      /\ \A j \in jobs' : j \in jobs \/ (j.ip \in Expired /\ j.act = "unban"
                                         /\ j \in NewJobs("unban", Expired))
  BY <1>1, LaunchEffect
<1>5. \A j, k \in NewJobs("unban", Expired) : j.ip = k.ip => j = k
  BY DEF NewJobs
<1>6. /\ \A j \in jobs' : j.act = "ban" => j.ip \in Banned'
      /\ \A j \in jobs' : j.ip \in Banned' => bannedIPs'[j.ip] = 0
  BY <1>2, <1>3, <1>4 DEF JobInv
<1>7. \A j, k \in jobs' : (j.ip = k.ip /\ j.act = k.act) => j = k
  BY <1>3, <1>4, <1>5 DEF JobInv
<1>8. ASSUME NEW ip \in IPs
      PROVE  rules'[ip] + Num(HasJob("ban", ip)') = Num(HasJob("unban", ip)') + Num(ip \in Banned')
  <2>1. rules[ip] + Num(HasJob("ban", ip)) = Num(HasJob("unban", ip)) + Num(ip \in Banned)
    BY DEF JobInv
  <2>2. HasJob("ban", ip)' <=> HasJob("ban", ip)
    BY <1>4 DEF HasJob
  <2>3. CASE ip \in Expired
    <3>1. ~HasJob("ban", ip) /\ ~HasJob("unban", ip) /\ ip \in Banned
      BY <1>3, <2>3 DEF HasJob, Expired
    <3>2. HasJob("unban", ip)'
      <4> DEFINE j == [ip |-> ip, act |-> "unban", life |-> restarts,
                       n |-> launched[ip] + 1, st |-> "start"]
      <4>1. j \in jobs'
        BY <1>4, <2>3 DEF NewJobs
      <4> QED
        BY <4>1 DEF HasJob
    <3> QED
      BY <1>1, <1>2, <2>1, <2>2, <2>3, <3>1, <3>2 DEF Num
  <2>4. CASE ip \notin Expired
    <3>1. HasJob("unban", ip)' <=> HasJob("unban", ip)
      BY <1>4, <2>4 DEF HasJob
    <3> QED
      BY <1>1, <1>2, <2>1, <2>2, <2>4, <3>1 DEF Num
  <2> QED
    BY <2>3, <2>4
<1> QED
  BY <1>6, <1>7, <1>8 DEF JobInv

(* A new ban has no ban script on its way, only perhaps the last unban. *)
LEMMA BanKeepsJobs ==
  ASSUME TypeOK, JobInv, NEW offenders \in SUBSET IPs, BanOffenders(offenders)
  PROVE  JobInv'
<1> DEFINE new == offenders \ Banned
<1>1. /\ "ban" \in Acts /\ new \in SUBSET IPs /\ Launch("ban", new)
      /\ bannedIPs' = [ip \in Banned \cup new |-> IF ip \in new THEN 0 ELSE bannedIPs[ip]]
      /\ rules' = rules
      /\ \A ip \in new : ip \in IPs /\ ip \notin Banned
  BY DEF Acts, BanOffenders
<1> HIDE DEF new
<1>2. /\ Banned' = Banned \cup new
      /\ \A ip \in Banned : bannedIPs'[ip] = bannedIPs[ip]
      /\ \A ip \in new : bannedIPs'[ip] = 0
  BY <1>1 DEF Banned
<1>3. /\ jobs' = jobs \cup NewJobs("ban", new)
      /\ \A j \in jobs' : j \in jobs \/ (j.ip \in new /\ j.act = "ban"
                                         /\ j \in NewJobs("ban", new))
  BY <1>1, LaunchEffect
<1>4. \A j, k \in NewJobs("ban", new) : j.ip = k.ip => j = k
  BY DEF NewJobs
<1>5. \A j \in jobs : j.act = "ban" => j.ip \notin new
  BY <1>1 DEF JobInv
<1>6. /\ \A j \in jobs' : j.act = "ban" => j.ip \in Banned'
      /\ \A j \in jobs' : j.ip \in Banned' => bannedIPs'[j.ip] = 0
  BY <1>2, <1>3 DEF JobInv
<1>7. \A j, k \in jobs' : (j.ip = k.ip /\ j.act = k.act) => j = k
  BY <1>3, <1>4, <1>5 DEF JobInv
<1>8. ASSUME NEW ip \in IPs
      PROVE  rules'[ip] + Num(HasJob("ban", ip)') = Num(HasJob("unban", ip)') + Num(ip \in Banned')
  <2>1. /\ rules[ip] + Num(HasJob("ban", ip)) = Num(HasJob("unban", ip)) + Num(ip \in Banned)
        /\ rules[ip] \in Nat
    BY DEF JobInv, TypeOK
  <2>2. HasJob("unban", ip)' <=> HasJob("unban", ip)
    BY <1>3 DEF HasJob
  <2>3. CASE ip \in new
    <3>1. ~HasJob("ban", ip) /\ ip \notin Banned
      BY <1>1, <1>5, <2>3 DEF HasJob
    <3>2. HasJob("ban", ip)'
      <4> DEFINE j == [ip |-> ip, act |-> "ban", life |-> restarts,
                       n |-> launched[ip] + 1, st |-> "start"]
      <4>1. j \in jobs'
        BY <1>3, <2>3 DEF NewJobs
      <4> QED
        BY <4>1 DEF HasJob
    <3> QED
      BY <1>1, <1>2, <2>1, <2>2, <2>3, <3>1, <3>2 DEF Num
  <2>4. CASE ip \notin new
    <3>1. HasJob("ban", ip)' <=> HasJob("ban", ip)
      BY <1>3, <2>4 DEF HasJob
    <3> QED
      BY <1>1, <1>2, <2>1, <2>2, <2>4, <3>1 DEF Num
  <2> QED
    BY <2>3, <2>4
<1> QED
  BY <1>6, <1>7, <1>8 DEF JobInv

(* A script moves one unit from what is to be done to what is done; an     *)
(* unban always finds a rule to delete.                                    *)
LEMMA ActKeepsJobs ==
  ASSUME TypeOK, JobInv, NEW j \in jobs, ScriptAct(j)
  PROVE  JobInv'
<1>1. /\ rules' = [rules EXCEPT ![j.ip] = Apply(j.act, @)]
      /\ jobs' = jobs \ {j} /\ bannedIPs' = bannedIPs /\ Banned' = Banned
  BY DEF ScriptAct, Banned
<1>2. j.ip \in IPs /\ j.act \in Acts
  BY DEF TypeOK, Job
<1>3. /\ \A k \in jobs' : k.act = "ban" => k.ip \in Banned'
      /\ \A k \in jobs' : k.ip \in Banned' => bannedIPs'[k.ip] = 0
      /\ \A k, l \in jobs' : (k.ip = l.ip /\ k.act = l.act) => k = l
  BY <1>1 DEF JobInv
<1>4. ASSUME NEW ip \in IPs
      PROVE  rules'[ip] + Num(HasJob("ban", ip)') = Num(HasJob("unban", ip)') + Num(ip \in Banned')
  <2>1. /\ rules[ip] + Num(HasJob("ban", ip)) = Num(HasJob("unban", ip)) + Num(ip \in Banned)
        /\ HasJob("ban", ip) => ip \in Banned
        /\ rules[ip] \in Nat
    BY DEF JobInv, TypeOK, HasJob
  <2>2. CASE ip # j.ip
    <3>1. /\ HasJob("ban", ip)' <=> HasJob("ban", ip)
          /\ HasJob("unban", ip)' <=> HasJob("unban", ip)
      BY <1>1, <2>2 DEF HasJob
    <3>2. rules'[ip] = rules[ip]
      BY <1>1, <1>2, <2>2 DEF TypeOK
    <3> QED
      BY <1>1, <2>1, <3>1, <3>2 DEF Num
  <2>3. CASE ip = j.ip /\ j.act = "ban"
    <3>1. HasJob("ban", ip) /\ ~HasJob("ban", ip)'
      BY <1>1, <2>3 DEF HasJob, JobInv
    <3>2. HasJob("unban", ip)' <=> HasJob("unban", ip)
      BY <1>1, <2>3 DEF HasJob
    <3>3. rules'[ip] = rules[ip] + 1
      BY <1>1, <1>2, <2>3 DEF TypeOK, Apply
    <3> QED
      BY <1>1, <2>1, <3>1, <3>2, <3>3 DEF Num
  <2>4. CASE ip = j.ip /\ j.act = "unban"
    <3>1. HasJob("unban", ip) /\ ~HasJob("unban", ip)'
      BY <1>1, <2>4 DEF HasJob, JobInv
    <3>2. HasJob("ban", ip)' <=> HasJob("ban", ip)
      BY <1>1, <2>4 DEF HasJob
    <3>3. rules[ip] > 0
      BY <2>1, <3>1 DEF Num
    <3>4. rules'[ip] = rules[ip] - 1
      BY <1>1, <1>2, <2>4, <3>3 DEF TypeOK, Apply
    <3> QED
      BY <1>1, <2>1, <3>1, <3>2, <3>4 DEF Num
  <2> QED
    BY <1>2, <2>2, <2>3, <2>4 DEF Acts
<1> QED
  BY <1>3, <1>4 DEF JobInv

LEMMA JobStep ==
  ASSUME PromptScripts, TypeOK, JobInv, [Next]_vars
  PROVE  JobInv'
<1>1. CASE Elapse
  <2>1. jobs = {} /\ jobs' = {} /\ rules' = rules /\ Banned' = Banned
    BY <1>1 DEF Elapse, PromptScripts, Banned
  <2> QED
    BY <2>1 DEF JobInv, HasJob, Num
<1>2. CASE CheckExpiredBans
  BY <1>2, ExpireKeepsJobs
<1>3. ASSUME NEW offenders \in SUBSET IPs, BanOffenders(offenders)
      PROVE  JobInv'
  BY <1>3, BanKeepsJobs
<1>4. ASSUME NEW j \in jobs, RunScript(j) \/ ScriptFails(j)
      PROVE  JobInv'
  <2>1. ~ScriptCheck(j) /\ ~ScriptFails(j)
    BY DEF ScriptCheck, ScriptFails, PromptScripts, TypeOK
  <2> QED
    BY <1>4, <2>1, ActKeepsJobs DEF RunScript
<1>5. CASE Stop
  BY <1>5 DEF Stop, PromptScripts, TypeOK
<1>6. CASE Restart \/ UNCHANGED vars
  <2>1. bannedIPs' = bannedIPs /\ jobs' = jobs /\ rules' = rules /\ Banned' = Banned
    BY <1>6 DEF Restart, vars, Banned
  <2> QED
    BY <2>1 DEF JobInv, HasJob
<1> QED
  BY <1>1, <1>2, <1>3, <1>4, <1>5, <1>6 DEF Next, Daemon

LEMMA JobsAlways ==
  ASSUME PromptScripts
  PROVE  Spec => []JobInv
<1>1. TypeOK /\ JobInv /\ [Next]_vars => JobInv'
  BY JobStep
<1>2. Init /\ [][Next]_vars /\ []TypeOK => []JobInv
  BY JobInit, <1>1, PTL
<1> QED
  BY TypeCorrect, <1>2, PTL DEF Spec

(* For any addresses and ban time: as long as scripts are prompt and never *)
(* fail, the firewall is the table up to the scripts still on their way,   *)
(* although a ban and an unban of an address may run in either order.      *)
THEOREM RulesFollowTable ==
  ASSUME PromptScripts
  PROVE  Spec => []RulesMatch
BY JobsAlways, JobInvMatches, PTL

(* So with those scripts an address that the table says is banned is       *)
(* blocked once its scripts have ended, renewed bans included.  That a     *)
(* renewed ban loses its rule takes a script that looks first, and does so *)
(* before the unban of the same tick has acted.                            *)
THEOREM CountedBansBlock ==
  ASSUME PromptScripts
  PROVE  Spec => []BannedMeansBlocked
<1>1. TypeOK /\ RulesMatch => BannedMeansBlocked
  <2> SUFFICES ASSUME TypeOK, RulesMatch, NEW ip \in IPs, ip \in Banned, JobsOf(ip) = {}
               PROVE  rules[ip] > 0
    BY DEF BannedMeansBlocked
  <2>1. /\ {j \in JobsOf(ip) : j.act = "ban"} = {}
        /\ {j \in JobsOf(ip) : j.act = "unban"} = {}
    OBVIOUS
  <2>2. rules[ip] \in Nat /\ rules[ip] + Cardinality({}) = Cardinality({}) + 1
    BY <2>1 DEF TypeOK, RulesMatch
  <2> QED
    BY <2>2, FS_EmptySet
<1> QED
  BY <1>1, RulesFollowTable, TypeCorrect, PTL

-----------------------------------------------------------------------------
(* BanControl implements BanLease: every step is a step of the lease or    *)
(* leaves table and firewall alone.                                        *)
LEMMA LeaseInit == Init => Lease!Init
<1> SUFFICES ASSUME Init PROVE Lease!Init
  OBVIOUS
<1>1. Blocked = {}
  BY DEF Init, Blocked
<1> QED
  BY <1>1 DEF Init, Lease!Init, Free

(* Without a script on its way the firewall is the table: time may pass. *)
LEMMA ElapseIsAge ==
  ASSUME PromptScripts, TypeOK, JobInv, Elapse
  PROVE  Lease!Age
<1>1. jobs = {} /\ rules' = rules
  BY DEF Elapse, PromptScripts
<1>2. \A ip \in IPs : rules[ip] = Num(ip \in Banned)
  <2>1. \A ip \in IPs : ~HasJob("ban", ip) /\ ~HasJob("unban", ip)
    BY <1>1 DEF HasJob
  <2> QED
    BY <2>1 DEF JobInv, Num, TypeOK
<1>3. Blocked = Banned
  BY <1>2 DEF Blocked, Num, TypeOK
<1> QED
  BY <1>1, <1>3 DEF Elapse, Lease!Age, Lease!Leased, Banned, Blocked

LEMMA CheckIsExpire ==
  ASSUME TypeOK, CheckExpiredBans
  PROVE  Expired \in SUBSET IPs /\ Lease!Expire(Expired)
<1>1. Expired \in SUBSET IPs /\ rules' = rules
  BY DEF CheckExpiredBans, Expired, TypeOK
<1> QED
  BY <1>1 DEF CheckExpiredBans, Expired, Restrict, Lease!Expire, Lease!Leased, Banned, Blocked

LEMMA BanIsGrant ==
  ASSUME NEW offenders \in SUBSET IPs, BanOffenders(offenders)
  PROVE  Lease!Grant(offenders \ Banned)
<1>1. (offenders \ Banned) \cap Banned = {} /\ rules' = rules
  BY DEF BanOffenders
<1> QED
  BY <1>1 DEF BanOffenders, Lease!Grant, Lease!Leased, Banned, Blocked

(* A script blocks or lifts an address only while its lease is new or over. *)
LEMMA ScriptIsBlockOrLift ==
  ASSUME TypeOK, JobInv, NEW j \in jobs, ScriptAct(j)
  PROVE  Lease!Block(j.ip) \/ Lease!Lift(j.ip) \/ UNCHANGED Lease!lvars
<1>1. j.ip \in IPs /\ j.act \in Acts /\ rules \in [IPs -> Nat]
  BY DEF TypeOK, Job
<1>2. /\ bannedIPs' = bannedIPs
      /\ rules' = [rules EXCEPT ![j.ip] = Apply(j.act, @)]
  BY DEF ScriptAct
<1>3. /\ j.act = "ban" => j.ip \in Banned
      /\ j.ip \in Banned => bannedIPs[j.ip] = 0
  BY DEF JobInv
<1>4. CASE j.act = "ban"
  <2>1. Blocked' = Blocked \cup {j.ip}
    BY <1>1, <1>2, <1>4 DEF Blocked, Apply
  <2> QED
    BY <1>2, <1>3, <1>4, <2>1 DEF Lease!Block, Lease!New, Lease!Leased, Banned
<1>5. CASE j.act = "unban"
  <2>1. Blocked' = Blocked \/ Blocked' = Blocked \ {j.ip}
    BY <1>1, <1>2, <1>5 DEF Blocked, Apply
  <2> QED
    BY <1>2, <1>3, <2>1 DEF Lease!Lift, Lease!New, Lease!Leased, Lease!lvars, Banned
<1> QED
  BY <1>1, <1>4, <1>5 DEF Acts

LEMMA LeaseStep ==
  ASSUME PromptScripts, TypeOK, JobInv, [Next]_vars
  PROVE  [Lease!Next]_(Lease!lvars)
<1>1. CASE Elapse
  BY <1>1, ElapseIsAge DEF Lease!Next
<1>2. CASE CheckExpiredBans
  BY <1>2, CheckIsExpire DEF Lease!Next
<1>3. ASSUME NEW offenders \in SUBSET IPs, BanOffenders(offenders)
      PROVE  Lease!Next
  <2>1. offenders \ Banned \in SUBSET IPs
    OBVIOUS
  <2> QED
    BY <1>3, <2>1, BanIsGrant DEF Lease!Next
<1>4. ASSUME NEW j \in jobs, RunScript(j) \/ ScriptFails(j)
      PROVE  [Lease!Next]_(Lease!lvars)
  <2>1. ScriptAct(j) /\ j.ip \in IPs
    BY <1>4 DEF RunScript, ScriptCheck, ScriptFails, PromptScripts, TypeOK, Job
  <2> QED
    BY <2>1, ScriptIsBlockOrLift DEF Lease!Next
<1>5. CASE Stop
  BY <1>5 DEF Stop, PromptScripts, TypeOK
<1>6. CASE Restart \/ UNCHANGED vars
  BY <1>6 DEF Restart, vars, Lease!lvars, Blocked
<1> QED
  BY <1>1, <1>2, <1>3, <1>4, <1>5, <1>6 DEF Next, Daemon

(* With prompt scripts a ban is a lease: it is never renewed nor cut short *)
(* and the firewall is right whenever time passes, for any addresses and   *)
(* ban time.                                                               *)
THEOREM BansAreLeases ==
  ASSUME PromptScripts
  PROVE  Spec => ImplementsLease
<1>1. TypeOK /\ JobInv /\ [Next]_vars => [Lease!Next]_(Lease!lvars)
  BY LeaseStep
<1> QED
  BY <1>1, LeaseInit, TypeCorrect, JobsAlways, PTL DEF Spec, ImplementsLease, Lease!Spec

(* What the leases promise: a ban older than a unit of time is in force. *)
THEOREM AgedBansBlock ==
  ASSUME PromptScripts
  PROVE  Spec => []Lease!Enforced
<1>1. Lease!Init => Lease!Enforced
  BY DEF Lease!Init, Lease!Enforced, Lease!Leased
<1>2. Lease!Enforced /\ [Lease!Next]_(Lease!lvars) => Lease!Enforced'
  BY DEF Lease!Enforced, Lease!Next, Lease!lvars, Lease!Age, Lease!Grant, Lease!Expire,
         Lease!Block, Lease!Lift, Lease!New, Lease!Leased
<1> QED
  BY <1>1, <1>2, BansAreLeases, PTL DEF ImplementsLease, Lease!Spec

-----------------------------------------------------------------------------
(* The script that looks first: it may fail and the daemon may restart, as *)
(* long as scripts end before the next unit of time or life.               *)
PromptChecking == Script = "checking" /\ Prompt = TRUE /\ BanTime > 0

(* One ban script of an address at a time, and no rule can appear between  *)
(* its look and its -A.                                                    *)
CheckInv ==
  /\ \A j \in jobs : (j.act = "ban" /\ up) => (j.ip \in Banned /\ bannedIPs[j.ip] = 0)
  /\ \A j, k \in jobs : (j.ip = k.ip /\ j.act = "ban" /\ k.act = "ban") => j = k
  /\ \A j \in jobs : (j.act = "ban" /\ j.st = "act") => rules[j.ip] = 0
  /\ SingleRule

LEMMA CheckInvExpire ==
  ASSUME PromptChecking, TypeOK, CheckInv, CheckExpiredBans
  PROVE  CheckInv'
<1>1. /\ "unban" \in Acts /\ Expired \in SUBSET IPs /\ Launch("unban", Expired)
      /\ bannedIPs' = Restrict(bannedIPs, Banned \ Expired) /\ rules' = rules /\ up /\ up' = up
  BY DEF Acts, Expired, CheckExpiredBans, TypeOK
<1>2. Banned' = Banned \ Expired /\ \A ip \in Banned' : bannedIPs'[ip] = bannedIPs[ip]
  BY <1>1 DEF Restrict, Banned
<1>3. \A j \in jobs' : j.act = "ban" => j \in jobs
  BY <1>1, LaunchEffect
<1>4. \A j \in jobs : j.act = "ban" => j.ip \notin Expired
  BY <1>1, BanTimeAssumption DEF Expired, CheckInv, PromptChecking
<1> QED
  BY <1>1, <1>2, <1>3, <1>4 DEF CheckInv, SingleRule

LEMMA CheckInvBan ==
  ASSUME TypeOK, CheckInv, NEW offenders \in SUBSET IPs, BanOffenders(offenders)
  PROVE  CheckInv'
<1> DEFINE new == offenders \ Banned
<1>1. /\ "ban" \in Acts /\ new \in SUBSET IPs /\ Launch("ban", new)
      /\ bannedIPs' = [ip \in Banned \cup new |-> IF ip \in new THEN 0 ELSE bannedIPs[ip]]
      /\ rules' = rules /\ up /\ up' = up
      /\ \A ip \in new : ip \notin Banned
  BY DEF Acts, BanOffenders
<1> HIDE DEF new
<1>2. /\ Banned' = Banned \cup new
      /\ \A ip \in Banned : bannedIPs'[ip] = bannedIPs[ip]
      /\ \A ip \in new : bannedIPs'[ip] = 0
  BY <1>1 DEF Banned
<1>3. \A j \in jobs' : j \in jobs \/ (j.ip \in new /\ j \in NewJobs("ban", new))
  BY <1>1, LaunchEffect
<1>4. \A j \in NewJobs("ban", new) : j.st = "start"
                                     /\ \A k \in NewJobs("ban", new) : j.ip = k.ip => j = k
  BY DEF NewJobs
<1>5. \A j \in jobs : j.act = "ban" => j.ip \notin new
  BY <1>1 DEF CheckInv
<1>6. \A j \in jobs' : (j.act = "ban" /\ up') => (j.ip \in Banned' /\ bannedIPs'[j.ip] = 0)
  BY <1>1, <1>2, <1>3 DEF CheckInv
<1>7. \A j, k \in jobs' : (j.ip = k.ip /\ j.act = "ban" /\ k.act = "ban") => j = k
  BY <1>3, <1>4, <1>5 DEF CheckInv
<1>8. \A j \in jobs' : (j.act = "ban" /\ j.st = "act") => rules'[j.ip] = 0
  BY <1>1, <1>3, <1>4 DEF CheckInv
<1> QED
  BY <1>1, <1>6, <1>7, <1>8 DEF CheckInv, SingleRule

LEMMA CheckInvLook ==
  ASSUME TypeOK, CheckInv, NEW j \in jobs, ScriptCheck(j)
  PROVE  CheckInv'
<1> DEFINE looked == [j EXCEPT !.st = "act"]
<1>1. looked.ip = j.ip /\ looked.act = j.act /\ j.act \in Acts
  BY DEF TypeOK, Job
<1>2. /\ jobs' = (jobs \ {j}) \cup (IF Needed(j) THEN {looked} ELSE {})
      /\ UNCHANGED <<up, bannedIPs, rules>> /\ Banned' = Banned
  BY DEF ScriptCheck, Banned
<1> HIDE DEF looked
<1>3. \A k \in jobs' : k \in jobs \ {j} \/ (k = looked /\ Needed(j))
  BY <1>2
<1> QED
  BY <1>1, <1>2, <1>3 DEF CheckInv, SingleRule, Needed

LEMMA CheckInvAct ==
  ASSUME PromptChecking, TypeOK, CheckInv, NEW j \in jobs, ScriptAct(j)
  PROVE  CheckInv'
<1>1. /\ j.st = "act" /\ jobs' = jobs \ {j}
      /\ UNCHANGED <<up, bannedIPs>> /\ Banned' = Banned
      /\ rules' = [rules EXCEPT ![j.ip] = Apply(j.act, @)]
  BY DEF ScriptAct, PromptChecking, Banned
<1>2. j.ip \in IPs /\ j.act \in Acts /\ rules \in [IPs -> Nat]
  BY DEF TypeOK, Job
<1>3. SingleRule'
  BY <1>1, <1>2 DEF CheckInv, SingleRule, Apply, Acts
<1>4. \A k \in jobs' : (k.act = "ban" /\ k.st = "act") => rules'[k.ip] = 0
  <2> SUFFICES ASSUME NEW k \in jobs', k.act = "ban", k.st = "act" PROVE rules'[k.ip] = 0
    OBVIOUS
  <2>1. k \in jobs /\ k # j /\ rules[k.ip] = 0 /\ k.ip \in IPs
    BY <1>1 DEF CheckInv, TypeOK, Job
  <2>2. CASE k.ip = j.ip
    <3>1. j.act = "unban"
      BY <1>2, <2>1, <2>2 DEF CheckInv, Acts
    <3> QED
      BY <1>1, <1>2, <2>1, <2>2, <3>1 DEF Apply
  <2>3. CASE k.ip # j.ip
    BY <1>1, <1>2, <2>1, <2>3
  <2> QED
    BY <2>2, <2>3
<1> QED
  BY <1>1, <1>3, <1>4 DEF CheckInv

LEMMA CheckAlways ==
  ASSUME PromptChecking
  PROVE  Spec => []CheckInv
<1>1. Init => CheckInv
  BY DEF Init, CheckInv, SingleRule
<1>2. TypeOK /\ CheckInv /\ [Next]_vars => CheckInv'
  <2> SUFFICES ASSUME TypeOK, CheckInv, [Next]_vars PROVE CheckInv'
    OBVIOUS
  <2>1. CASE Elapse
    <3>1. jobs' = {} /\ rules' = rules
      BY <2>1 DEF Elapse, PromptChecking
    <3> QED
      BY <3>1 DEF CheckInv, SingleRule
  <2>2. CASE Stop
    <3>1. jobs' \subseteq jobs /\ rules' = rules /\ up' = FALSE
      BY <2>2 DEF Stop
    <3> QED
      BY <3>1 DEF CheckInv, SingleRule
  <2>3. CASE Restart
    <3>1. jobs' = {} /\ rules' = rules
      BY <2>3 DEF Restart, PromptChecking
    <3> QED
      BY <3>1 DEF CheckInv, SingleRule
  <2>4. ASSUME NEW j \in jobs, ScriptFails(j) PROVE CheckInv'
    BY <2>4 DEF ScriptFails, CheckInv, SingleRule, Banned
  <2>5. CASE UNCHANGED vars
    BY <2>5 DEF vars, CheckInv, SingleRule, Banned
  <2> QED
    BY <2>1, <2>2, <2>3, <2>4, <2>5, CheckInvExpire, CheckInvBan, CheckInvLook, CheckInvAct
       DEF Next, Daemon, RunScript
<1> QED
  BY <1>1, <1>2, TypeCorrect, PTL DEF Spec

(* For any addresses and ban time, and any failures and restarts: a script *)
(* that looks first never stacks two rules for an address.                 *)
THEOREM CheckedRulesAreSingle ==
  ASSUME PromptChecking
  PROVE  Spec => []SingleRule
<1>1. CheckInv => SingleRule
  BY DEF CheckInv
<1> QED
  BY <1>1, CheckAlways, PTL

-----------------------------------------------------------------------------
(* Without failures and stops, a rule whose ban is over has its unban      *)
(* script still on the way.                                                *)
LiftInv ==
  (failures = 0 /\ restarts = 0) =>
    /\ up
    /\ \A ip \in IPs : (ip \notin Banned /\ rules[ip] > 0) => HasJob("unban", ip)

LEMMA LiftInvExpire ==
  ASSUME TypeOK, LiftInv, CheckExpiredBans
  PROVE  LiftInv'
<1>1. /\ "unban" \in Acts /\ Expired \in SUBSET IPs /\ Launch("unban", Expired)
      /\ bannedIPs' = Restrict(bannedIPs, Banned \ Expired)
      /\ UNCHANGED <<up, rules, restarts, failures>>
  BY DEF Acts, Expired, CheckExpiredBans, TypeOK
<1>2. Banned' = Banned \ Expired
  BY <1>1 DEF Restrict, Banned
<1>3. jobs' = jobs \cup NewJobs("unban", Expired)
  BY <1>1, LaunchEffect
<1>4. ASSUME NEW ip \in Expired PROVE HasJob("unban", ip)'
  <2> DEFINE j == [ip |-> ip, act |-> "unban", life |-> restarts,
                   n |-> launched[ip] + 1, st |-> "start"]
  <2>1. j \in jobs'
    BY <1>3 DEF NewJobs
  <2> QED
    BY <2>1 DEF HasJob
<1>5. \A ip : HasJob("unban", ip) => HasJob("unban", ip)'
  BY <1>3 DEF HasJob
<1> QED
  BY <1>1, <1>2, <1>4, <1>5 DEF LiftInv

LEMMA LiftInvScript ==
  ASSUME PromptChecking, TypeOK, CheckInv, LiftInv, NEW j \in jobs, RunScript(j)
  PROVE  LiftInv'
<1>1. /\ UNCHANGED <<up, restarts, failures>> /\ Banned' = Banned
      /\ j.ip \in IPs /\ j.act \in Acts /\ rules \in [IPs -> Nat]
  BY DEF RunScript, ScriptCheck, ScriptAct, Banned, TypeOK, Job
<1> SUFFICES ASSUME failures = 0, restarts = 0, NEW ip \in IPs,
                    ip \notin Banned, rules'[ip] > 0
             PROVE  HasJob("unban", ip)'
  BY <1>1 DEF LiftInv
<1>2. up /\ (j.ip = ip => j.act = "unban")
  BY <1>1 DEF LiftInv, CheckInv, Acts
<1>3. CASE ScriptCheck(j)
  <2> DEFINE looked == [j EXCEPT !.st = "act"]
  <2>1. looked.ip = j.ip /\ looked.act = j.act
    BY DEF TypeOK, Job
  <2>2. /\ jobs' = (jobs \ {j}) \cup (IF Needed(j) THEN {looked} ELSE {}) /\ rules' = rules
    BY <1>3 DEF ScriptCheck
  <2> HIDE DEF looked
  <2>3. PICK k \in jobs : k.ip = ip /\ k.act = "unban"
    BY <2>2 DEF LiftInv, HasJob
  <2>4. CASE k = j
    <3>1. Needed(j)
      BY <1>1, <2>2, <2>3, <2>4 DEF Needed
    <3>2. looked \in jobs'
      BY <2>2, <3>1
    <3> QED
      BY <2>1, <2>3, <2>4, <3>2 DEF HasJob
  <2>5. CASE k # j
    BY <2>2, <2>3, <2>5 DEF HasJob
  <2> QED
    BY <2>4, <2>5
<1>4. CASE ScriptAct(j)
  <2>1. jobs' = jobs \ {j} /\ rules' = [rules EXCEPT ![j.ip] = Apply(j.act, @)]
    BY <1>4 DEF ScriptAct
  <2>2. j.ip # ip
    BY <1>1, <1>2, <2>1 DEF CheckInv, SingleRule, Apply
  <2>3. rules[ip] > 0
    BY <1>1, <2>1, <2>2
  <2> QED
    BY <2>1, <2>2, <2>3 DEF LiftInv, HasJob
<1> QED
  BY <1>3, <1>4 DEF RunScript

LEMMA LiftInvStep ==
  ASSUME PromptChecking, TypeOK, CheckInv, LiftInv, [Next]_vars
  PROVE  LiftInv'
<1>1. CASE CheckExpiredBans
  BY <1>1, LiftInvExpire
<1>2. ASSUME NEW j \in jobs, RunScript(j) PROVE LiftInv'
  BY <1>2, LiftInvScript
<1>3. ASSUME NEW j \in jobs, ScriptFails(j) PROVE LiftInv'
  BY <1>3 DEF ScriptFails, LiftInv, TypeOK
<1>4. CASE Stop
  BY <1>4 DEF Stop, LiftInv, TypeOK
<1>5. CASE Restart
  BY <1>5 DEF Restart, LiftInv
<1>6. ASSUME NEW offenders \in SUBSET IPs, BanOffenders(offenders) PROVE LiftInv'
  <2> DEFINE new == offenders \ Banned
  <2>1. /\ Banned' = Banned \cup new /\ jobs \subseteq jobs'
        /\ UNCHANGED <<up, rules, restarts, failures>>
    BY <1>6 DEF BanOffenders, Launch, Banned
  <2> QED
    BY <2>1 DEF LiftInv, HasJob
<1>7. CASE Elapse \/ UNCHANGED vars
  BY <1>7 DEF Elapse, vars, LiftInv, HasJob, Banned
<1> QED
  BY <1>1, <1>2, <1>3, <1>4, <1>5, <1>6, <1>7 DEF Next, Daemon

(* A script that looks first leaves no rule behind, for any addresses and  *)
(* ban time: when the unban of one ban runs beside the next ban, a rule    *)
(* can be lost (BannedMeansBlocked fails) but none outlives its ban.       *)
THEOREM CheckedRulesAreLifted ==
  ASSUME PromptChecking
  PROVE  Spec => []NoRuleLeft
<1>1. Init => LiftInv
  BY DEF Init, LiftInv
<1>2. TypeOK /\ CheckInv /\ LiftInv /\ [Next]_vars => LiftInv'
  BY LiftInvStep
<1>3. TypeOK /\ LiftInv => NoRuleLeft
  BY DEF TypeOK, LiftInv, NoRuleLeft, HasJob, JobsOf
<1> QED
  BY <1>1, <1>2, <1>3, CheckAlways, TypeCorrect, PTL DEF Spec
=============================================================================
