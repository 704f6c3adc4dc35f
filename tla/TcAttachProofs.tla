-------------------------- MODULE TcAttachProofs --------------------------
(***************************************************************************)
(* Theorems about TcAttach, for any handles, any number of lives and       *)
(* whatever the others do to the interface: mutual exclusion of the two    *)
(* attachers and, from it, that filters do not stack while they are only   *)
(* ever lost with the qdisc, and that the cleanup at exit then leaves none *)
(* unless the watcher is at work.                                          *)
(***************************************************************************)
EXTENDS TcAttach, SequenceTheorems, TLAPS

(* The first attachment of a life checks nothing and takes no lock, but    *)
(* the watcher is not there yet; every later one is made by the holder of  *)
(* attachMu.  No lock outlives the process.                                *)
LockInv ==
  /\ step \in [Attachers -> Steps]
  /\ phase = "starting" =>
       /\ step["main"] \in {"qdisc", "ingress", "egress", "publish"}
       /\ step["watch"] = "idle"
       /\ mu = "free"
  /\ phase = "down" => mu = "free" /\ step = Idle
  /\ \A p \in Attachers : (Attaching(p) /\ phase # "starting") => mu = p

LEMMA InitLocked == Init => LockInv
  BY DEF Init, LockInv, Idle, Attachers, Steps, Attaching

(* What an attacher p under way may do to the lock: keep it while it goes  *)
(* on, or give it back when it ends.                                       *)
LEMMA AttachKeepsLocked ==
  ASSUME LockInv, NEW p \in Attachers, Attach(p)
  PROVE  LockInv'
<1>1. step[p] \in {"ingress?", "egress?", "qdisc", "ingress", "egress", "publish"}
  BY DEF Attach, CheckIngress, CheckEgress, AddQdisc, Publish, AddFilter,
         AddFilterWithoutHandle, AddFilterFails, AddFilterConflicts, Hooks
<1>2. Attaching(p)
  BY <1>1 DEF Attaching
<1>3. CASE /\ \E s \in Steps \ {"idle", "delete ingress", "delete egress"} :
                step' = [step EXCEPT ![p] = s]
           /\ phase = "starting" => step'[p] \in {"qdisc", "ingress", "egress", "publish"}
           /\ UNCHANGED <<phase, mu>>
  BY <1>2, <1>3 DEF LockInv, Attaching, Attachers, Idle
<1>4. CASE /\ step' = [step EXCEPT ![p] = "idle"]
           /\ mu' = "free"
           /\ phase' \in {phase, "running", "down"}
           /\ phase' # "starting"
           /\ phase' = "down" => phase \in {"starting", "down"}
  <2>1. \A q \in Attachers \ {p} : ~Attaching(q)
    BY <1>2 DEF LockInv, Attaching, Attachers
  <2> QED
    <3>1. phase' = "down" => phase = "starting" /\ p = "main"
      BY <1>2, <1>4 DEF LockInv, Attaching, Attachers, Idle
    <3>2. phase' = "down" => step' = Idle
      BY <1>4, <3>1 DEF LockInv, Attachers, Idle
    <3> QED
      BY <1>4, <2>1, <3>2 DEF LockInv, Attaching, Attachers, Steps
<1>5. phase = "starting" => p = "main" /\ step[p] \notin {"ingress?", "egress?"}
  BY <1>2 DEF LockInv, Attachers, Attaching
<1>6. \/ /\ \E s \in Steps \ {"idle", "delete ingress", "delete egress"} :
              step' = [step EXCEPT ![p] = s]
         /\ phase = "starting" => step'[p] \in {"qdisc", "ingress", "egress", "publish"}
         /\ UNCHANGED <<phase, mu>>
      \/ /\ step' = [step EXCEPT ![p] = "idle"]
         /\ mu' = "free"
         /\ phase' \in {phase, "running", "down"}
         /\ phase' # "starting"
         /\ phase' = "down" => phase \in {"starting", "down"}
  <2>1. CASE CheckIngress(p)
    BY <1>5, <2>1 DEF CheckIngress, LockInv, Steps
  <2>2. CASE CheckEgress(p)
    BY <1>5, <2>2 DEF CheckEgress, Unlock, LockInv, Steps
  <2>3. CASE AddQdisc(p)
    BY <2>3 DEF AddQdisc, LockInv, Steps
  <2>4. CASE Publish(p)
    BY <2>4 DEF Publish, Unlock
  <2>5. CASE \E hook \in Hooks : AddFilter(p, hook) \/ AddFilterWithoutHandle(p, hook)
    BY <2>5 DEF AddFilter, AddFilterWithoutHandle, AfterAdding, LockInv, Steps
  <2>6. CASE \E hook \in Hooks : AddFilterFails(p, hook) \/ AddFilterConflicts(p, hook)
    BY <2>6 DEF AddFilterFails, AddFilterConflicts, Abort
  <2> QED
    BY <2>1, <2>2, <2>3, <2>4, <2>5, <2>6 DEF Attach
<1> QED
  BY <1>3, <1>4, <1>6

LEMMA NextKeepsLocked == LockInv /\ [Next]_vars => LockInv'
<1> SUFFICES ASSUME LockInv, [Next]_vars PROVE LockInv'
  OBVIOUS
<1>1. ASSUME NEW p \in Attachers, FindLink(p) \/ Lock(p) PROVE LockInv'
  <2>1. phase \in {"running", "exiting"} \/ step[p] = "lock"
    BY <1>1 DEF FindLink, Lock
  <2>2. phase \notin {"starting", "down"}
    BY <1>1, <2>1 DEF LockInv, FindLink, Lock, Attachers, Idle
  <2>3. CASE FindLink(p)
    BY <2>2, <2>3 DEF LockInv, FindLink, Attaching, Attachers, Steps
  <2>4. CASE Lock(p)
    BY <2>2, <2>4 DEF LockInv, Lock, Attaching, Attachers, Steps
  <2> QED
    BY <1>1, <2>3, <2>4
<1>2. ASSUME NEW p \in Attachers, Attach(p) PROVE LockInv'
  BY <1>2, AttachKeepsLocked
<1>3. CASE Terminate
  BY <1>3 DEF LockInv, Terminate, Attaching, Attachers, Steps
<1>4. CASE DeleteIngress
  BY <1>4 DEF LockInv, DeleteIngress, Attaching, Attachers, Steps, Idle
<1>5. CASE \E cleanly \in BOOLEAN : Exit(cleanly)
  BY <1>5 DEF LockInv, Exit, Idle, Attaching, Attachers, Steps
<1>6. CASE Restart
  BY <1>6 DEF LockInv, Restart, Idle, Attaching, Attachers, Steps
<1>7. CASE UNCHANGED <<phase, step, mu>>
  BY <1>7 DEF LockInv, Attaching
<1> QED
  BY <1>1, <1>2, <1>3, <1>4, <1>5, <1>6, <1>7
  DEF Next, DeleteEgress, Crash, Others, WipeQdisc, FlushHook, RemoveInterface, CreateInterface,
      vars, Attachers, Hooks

(* Main and the watcher are never both between the check and the result    *)
(* of reattachIfMissing: what attachMu is for (main.go, "cannot attach     *)
(* concurrently and stack duplicate filters").                             *)
THEOREM AttachersExclude == Spec => []OneAttacher
<1>1. LockInv => OneAttacher
  BY DEF LockInv, OneAttacher, Attachers, Attaching
<1> QED
  BY InitLocked, NextKeepsLocked, <1>1, PTL DEF Spec

-----------------------------------------------------------------------------
Filter(n) == [owner : 1 .. n, h : Handles \cup {0}]

LEMMA RemovalType ==
  ASSUME NEW S, NEW s \in Seq(S), NEW i \in DOMAIN s
  PROVE  RemoveAt(s, i) \in Seq(S)
<1>1. i \in 1 .. Len(s)
  OBVIOUS
<1>2. SubSeq(s, 1, i - 1) \in Seq(S) /\ SubSeq(s, i + 1, Len(s)) \in Seq(S)
  BY <1>1
<1> QED
  BY <1>2 DEF RemoveAt

(* TypeOK falls into what is in the kernel and what the daemon has. *)
KernelOK ==
  /\ qdisc \in BOOLEAN
  /\ filters \in [Hooks -> Seq(Filter(life))]
  /\ ~qdisc => filters = Nothing

DaemonOK ==
  /\ link \in BOOLEAN /\ stale \subseteq Holders
  /\ phase \in {"starting", "running", "exiting", "down"}
  /\ life \in 1 .. MaxLives
  /\ step \in [Attachers -> Steps]
  /\ handles \in [Attachers -> [Hooks -> Handles \cup {0}]]
  /\ mu \in Attachers \cup {"free"}
  /\ pair \in [Hooks -> Handles \cup {0}]
  /\ clean \in BOOLEAN /\ partial \in BOOLEAN
  /\ changes \in 0 .. MaxChanges
  /\ listErrors \in 0 .. MaxListErrors
  /\ addErrors \in 0 .. MaxAddErrors

LEMMA TypeParts ==
  /\ TypeOK <=> KernelOK /\ DaemonOK
  /\ TypeOK' <=> KernelOK' /\ DaemonOK'
BY DEF TypeOK, KernelOK, DaemonOK, Filter

LEMMA NothingTyped == \A n : Nothing \in [Hooks -> Seq(Filter(n))]
BY DEF Nothing

LEMMA DeleteType ==
  ASSUME KernelOK, NEW hook \in Hooks, NEW h, Delete(hook, h)
  PROVE  /\ filters' \in [Hooks -> Seq(Filter(life))]
         /\ ~qdisc => filters' = Nothing
<1> DEFINE old == filters[hook]
           at == CHOOSE i \in DOMAIN old : old[i].h = h
           new == IF h = 0 THEN <<>> ELSE IF Conflict(hook, h) THEN RemoveAt(old, at) ELSE old
<1>1. old \in Seq(Filter(life)) /\ <<>> \in Seq(Filter(life))
  BY DEF KernelOK
<1>2. Conflict(hook, h) => RemoveAt(old, at) \in Seq(Filter(life))
  <2> SUFFICES ASSUME Conflict(hook, h) PROVE at \in DOMAIN old
    BY <1>1, RemovalType
  <2> QED
    BY DEF Conflict
<1>3. ~qdisc => ~Conflict(hook, h) /\ old = <<>>
  BY DEF KernelOK, Nothing, Conflict
<1>4. filters' = filters \/ filters' = [filters EXCEPT ![hook] = new]
  BY DEF Delete
<1>5. new \in Seq(Filter(life)) /\ (~qdisc => new = <<>>)
  BY <1>1, <1>2, <1>3
<1> HIDE DEF old, at, new
<1>6. filters' \in [Hooks -> Seq(Filter(life))]
  BY <1>4, <1>5 DEF KernelOK
<1>7. ~qdisc => filters' = Nothing
  BY <1>4, <1>5 DEF KernelOK, Nothing
<1> QED
  BY <1>6, <1>7

LEMMA PrependType ==
  ASSUME KernelOK, DaemonOK, NEW hook \in Hooks, NEW h \in Handles \cup {0}, Prepend(hook, h)
  PROVE  filters' \in [Hooks -> Seq(Filter(life))]
<1> DEFINE new == [owner |-> life, h |-> h]
<1>1. new \in Filter(life)
  BY DEF DaemonOK, Filter
<1>2. filters[hook] \in Seq(Filter(life))
  BY DEF KernelOK
<1>3. filters' = [filters EXCEPT ![hook] = <<new>> \o @]
  BY DEF Prepend
<1> HIDE DEF new
<1>4. <<new>> \o filters[hook] \in Seq(Filter(life))
  BY <1>1, <1>2
<1> QED
  BY <1>3, <1>4 DEF KernelOK

LEMMA InitTyped == Init => TypeOK
<1> SUFFICES ASSUME Init PROVE KernelOK /\ DaemonOK
  BY TypeParts
<1>1. KernelOK
  BY NothingTyped DEF Init, KernelOK
<1>2. DaemonOK
  <2>1. step \in [Attachers -> Steps]
    BY DEF Init, Idle, Attachers, Steps
  <2>2. handles \in [Attachers -> [Hooks -> Handles \cup {0}]] /\ pair \in [Hooks -> Handles \cup {0}]
    BY DEF Init, NoPair
  <2>3. /\ changes \in 0 .. MaxChanges /\ listErrors \in 0 .. MaxListErrors
        /\ addErrors \in 0 .. MaxAddErrors /\ life \in 1 .. MaxLives
    BY BoundsAssumption DEF Init
  <2>4. /\ phase \in {"starting", "running", "exiting", "down"}
        /\ mu \in Attachers \cup {"free"} /\ clean \in BOOLEAN /\ partial \in BOOLEAN
    BY DEF Init
  <2> QED
    BY <2>1, <2>2, <2>3, <2>4 DEF Init, DaemonOK
<1> QED
  BY <1>1, <1>2

LEMMA DaemonTyped == DaemonOK /\ [Next]_vars => DaemonOK'
<1> SUFFICES ASSUME DaemonOK, [Next]_vars PROVE DaemonOK'
  OBVIOUS
<1> USE BoundsAssumption DEF DaemonOK
<1>1. ASSUME NEW p \in Attachers, FindLink(p) \/ Lock(p) PROVE DaemonOK'
  BY <1>1 DEF FindLink, Lock, Steps, bounds, linkVars
<1>2. ASSUME NEW p \in Attachers, CheckIngress(p) \/ CheckEgress(p) PROVE DaemonOK'
  <2>1. listErrors' \in 0 .. MaxListErrors
    BY <1>2 DEF CheckIngress, CheckEgress, ListFilters
  <2>2. step' \in [Attachers -> Steps] /\ mu' \in Attachers \cup {"free"}
    BY <1>2 DEF CheckIngress, CheckEgress, Unlock, Steps
  <2> QED
    BY <1>2, <2>1, <2>2 DEF CheckIngress, CheckEgress, linkVars
<1>3. ASSUME NEW p \in Attachers, AddQdisc(p) PROVE DaemonOK'
  <2>1. addErrors' \in 0 .. MaxAddErrors
    BY <1>3 DEF AddQdisc
  <2>2. handles' \in [Attachers -> [Hooks -> Handles \cup {0}]]
    BY <1>3 DEF AddQdisc
  <2>3. step' \in [Attachers -> Steps]
    BY <1>3 DEF AddQdisc, Steps
  <2> QED
    BY <1>3, <2>1, <2>2, <2>3 DEF AddQdisc, linkVars
<1>4. ASSUME NEW p \in Attachers, Publish(p) PROVE DaemonOK'
  <2>1. stale' \subseteq Holders
    BY <1>4 DEF Publish, StaleAs, Holders
  <2> QED
    BY <1>4, <2>1 DEF Publish, Unlock, Steps, bounds
<1>5. ASSUME NEW p \in Attachers, NEW hook \in Hooks, AddFilter(p, hook) PROVE DaemonOK'
  BY <1>5 DEF AddFilter, AfterAdding, Steps, bounds, linkVars
<1>6. ASSUME NEW p \in Attachers, NEW hook \in Hooks, AddFilterWithoutHandle(p, hook) PROVE DaemonOK'
  <2>1. handles' \in [Attachers -> [Hooks -> Handles \cup {0}]]
    BY <1>6 DEF AddFilterWithoutHandle
  <2>2. step' \in [Attachers -> Steps]
    BY <1>6 DEF AddFilterWithoutHandle, AfterAdding, Steps
  <2>3. addErrors' \in 0 .. MaxAddErrors
    BY <1>6 DEF AddFilterWithoutHandle
  <2> QED
    BY <1>6, <2>1, <2>2, <2>3 DEF AddFilterWithoutHandle, linkVars
<1>7. ASSUME NEW p \in Attachers, NEW hook \in Hooks,
             AddFilterFails(p, hook) \/ AddFilterConflicts(p, hook)
      PROVE  DaemonOK'
  <2>1. addErrors' \in 0 .. MaxAddErrors
    BY <1>7 DEF AddFilterFails, AddFilterConflicts
  <2>2. Abort(p) /\ UNCHANGED <<link, stale, changes, listErrors>>
    BY <1>7 DEF AddFilterFails, AddFilterConflicts, linkVars
  <2> QED
    BY <2>1, <2>2 DEF Abort, Steps
<1>8. CASE Terminate
  <2>1. stale' \subseteq Holders
    BY <1>8 DEF Terminate, StaleAs, Holders, Attachers
  <2> QED
    BY <1>8, <2>1 DEF Terminate, Steps, bounds, Attachers
<1>9. CASE DeleteIngress
  BY <1>9 DEF DeleteIngress, Steps, bounds, Attachers, linkVars
<1>10. ASSUME NEW cleanly \in BOOLEAN, Exit(cleanly) PROVE DaemonOK'
  BY <1>10 DEF Exit, Idle, NoPair, Attachers, Hooks, Steps, bounds
<1>11. CASE Restart
  <2>1. addErrors' \in 0 .. MaxAddErrors
    <3>1. addErrors' = addErrors \/ (addErrors < MaxAddErrors /\ addErrors' = addErrors + 1)
      BY <1>11, Zenon DEF Restart
    <3> QED
      BY <3>1
  <2>2. life' \in 1 .. MaxLives
    BY <1>11 DEF Restart
  <2>3. step' \in [Attachers -> Steps]
    BY <1>11 DEF Restart, Idle, Steps, Attachers
  <2> QED
    BY <1>11, <2>1, <2>2, <2>3 DEF Restart, linkVars
<1>12. ASSUME WipeQdisc \/ \E hook \in Hooks : FlushHook(hook) PROVE DaemonOK'
  <2>1. partial' \in BOOLEAN
    BY <1>12 DEF WipeQdisc, FlushHook
  <2>2. changes' \in 0 .. MaxChanges
    <3>1. changes < MaxChanges /\ changes' = changes + 1
      BY <1>12, Zenon DEF WipeQdisc, FlushHook
    <3> QED
      BY <3>1
  <2>3. UNCHANGED <<link, stale, phase, life, step, handles, mu, pair, clean, listErrors, addErrors>>
    BY <1>12 DEF WipeQdisc, FlushHook, linkVars
  <2> QED
    BY <2>1, <2>2, <2>3
<1>13. CASE UNCHANGED vars
  BY <1>13 DEF vars, bounds, linkVars
<1>14. CASE RemoveInterface \/ CreateInterface
  <2>1. UNCHANGED <<phase, life, step, handles, mu, pair, clean, partial, listErrors, addErrors>>
    BY <1>14 DEF RemoveInterface, CreateInterface, bounds
  <2>2. link' \in BOOLEAN /\ stale' \subseteq Holders
    BY <1>14 DEF RemoveInterface, CreateInterface
  <2>3. changes' \in 0 .. MaxChanges
    BY <1>14 DEF RemoveInterface, CreateInterface, bounds
  <2> QED
    BY <2>1, <2>2, <2>3
<1> QED
  BY <1>1, <1>2, <1>3, <1>4, <1>5, <1>6, <1>7, <1>8, <1>9, <1>10, <1>11, <1>12, <1>13,
     <1>14 DEF Next, Attach, DeleteEgress, Crash, Others

LEMMA KernelTyped == KernelOK /\ DaemonOK /\ [Next]_vars => KernelOK'
<1> SUFFICES ASSUME KernelOK, DaemonOK, [Next]_vars PROVE KernelOK'
  OBVIOUS
<1>1. CASE UNCHANGED <<kernelVars, life>>
  BY <1>1 DEF KernelOK, kernelVars
<1>2. ASSUME NEW p \in Attachers, AddQdisc(p) PROVE KernelOK'
  <2>1. qdisc' \in {TRUE, qdisc} /\ UNCHANGED <<filters, life>>
    BY <1>2 DEF AddQdisc
  <2> QED
    BY <2>1 DEF KernelOK
<1>3. ASSUME NEW p \in Attachers, NEW hook \in Hooks,
             AddFilter(p, hook) \/ AddFilterWithoutHandle(p, hook)
      PROVE  KernelOK'
  <2>1. qdisc /\ qdisc' = qdisc /\ life' = life
    BY <1>3 DEF AddFilter, AddFilterWithoutHandle
  <2>2. \E h \in Handles \cup {0} : Prepend(hook, h)
    BY <1>3 DEF AddFilter, AddFilterWithoutHandle, DaemonOK
  <2> QED
    BY <2>1, <2>2, PrependType DEF KernelOK
<1>4. ASSUME NEW p \in Attachers, NEW hook \in Hooks, AddFilterConflicts(p, hook) PROVE KernelOK'
  BY <1>4, NothingTyped DEF KernelOK, AddFilterConflicts, Abort, kernelVars
<1>5. ASSUME NEW hook \in Hooks, NEW h, Delete(hook, h), UNCHANGED <<qdisc, life>> PROVE KernelOK'
  BY <1>5, DeleteType DEF KernelOK
<1>6. CASE Restart
  <2>1. life' = life + 1 /\ life \in Nat
    BY <1>6 DEF Restart, DaemonOK
  <2>2. Filter(life) \subseteq Filter(life')
    BY <2>1 DEF Filter
  <2>3. \A hook \in Hooks : filters[hook] \in Seq(Filter(life'))
    BY <2>2 DEF KernelOK
  <2>4. filters \in [Hooks -> Seq(Filter(life'))]
    BY <2>3 DEF KernelOK
  <2>5. Nothing \in [Hooks -> Seq(Filter(life'))]
    BY NothingTyped
  <2>6. UNCHANGED kernelVars \/ (qdisc' = FALSE /\ filters' = Nothing)
    BY <1>6 DEF Restart
  <2>7. (Filter(life))' = Filter(life')
    BY DEF Filter
  <2> QED
    BY <2>4, <2>5, <2>6, <2>7 DEF KernelOK, kernelVars
<1>7. CASE WipeQdisc
  <2>1. qdisc' \in BOOLEAN /\ filters' = Nothing /\ life' = life
    BY <1>7 DEF WipeQdisc
  <2> QED
    BY <2>1, NothingTyped DEF KernelOK
<1>8. ASSUME NEW hook \in Hooks, FlushHook(hook) PROVE KernelOK'
  <2>1. /\ UNCHANGED <<qdisc, life>> /\ filters' = [filters EXCEPT ![hook] = <<>>]
        /\ <<>> \in Seq(Filter(life))
    BY <1>8 DEF FlushHook
  <2> QED
    BY <2>1 DEF KernelOK, Nothing
<1>9. CASE RemoveInterface
  BY <1>9, NothingTyped DEF KernelOK, RemoveInterface
<1> QED
  <2>1. ASSUME NEW p \in Attachers, FindLink(p) \/ Lock(p) \/ Attach(p) PROVE KernelOK'
    BY <1>1, <1>2, <1>3, <1>4, <2>1
       DEF FindLink, Lock, Attach, CheckIngress, CheckEgress, Publish, AddFilterFails, Abort
  <2>2. CASE Terminate \/ DeleteIngress \/ DeleteEgress \/ Crash
    BY <1>1, <1>5, <2>2 DEF Terminate, DeleteIngress, DeleteEgress, Crash, Exit, Hooks, kernelVars
  <2> QED
    BY <1>1, <1>6, <1>7, <1>8, <1>9, <2>1, <2>2 DEF Next, Others, CreateInterface, vars

(* The type invariant holds of every instance. *)
THEOREM TypeCorrect == Spec => []TypeOK
<1>1. TypeOK /\ [Next]_vars => TypeOK'
  BY TypeParts, DaemonTyped, KernelTyped
<1> QED
  BY InitTyped, <1>1, PTL DEF Spec

-----------------------------------------------------------------------------
(* The hook has one filter of the running daemon, and h is its handle. *)
Sole(hook, h) == \E i \in Nat : Own(hook) = {i} /\ filters[hook][i].h = h

(* p may be changing the interface; before its first filter an attacher    *)
(* that has missed the interface's return can do nothing.                  *)
InAttachTC(p) ==
  /\ step[p] \in {"qdisc", "ingress", "egress", "publish"}
  /\ p \in stale => step[p] \notin {"qdisc", "ingress"}
Up == phase \in {"starting", "running"}

(* While filters are lost with the qdisc only, an attachment starts from   *)
(* hooks without filters of this life (in a running daemon: without any),  *)
(* adds one to each, and a loss in between leaves it no qdisc to go on     *)
(* with.  So between attachments both hooks have what pair says, or none   *)
(* has anything.                                                           *)
Stage(p) ==
  /\ (step[p] \in {"qdisc", "ingress"} /\ p \notin stale) =>
       /\ \A hook \in Hooks : Own(hook) = {}
       /\ phase = "running" => filters = Nothing
  /\ step[p] = "egress" =>
       /\ Own("egress") = {}
       /\ ~qdisc \/ (p \notin stale /\ Sole("ingress", handles[p]["ingress"]))
  /\ step[p] = "publish" =>
       \/ filters = Nothing
       \/ p \notin stale /\ \A hook \in Hooks : Sole(hook, handles[p][hook])

Settled ==
  (phase = "running" /\ \A p \in Attachers : ~InAttachTC(p)) =>
     \/ filters = Nothing
     \/ "pair" \notin stale /\ \A hook \in Hooks : Sole(hook, pair[hook])

StackInv ==
  /\ step["main"] \in {"delete ingress", "delete egress"} => phase = "exiting"
  /\ (WholeLosses /\ Up) => /\ \A p \in Attachers : Stage(p)
                            /\ Settled

LEMMA NothingOwned ==
  ASSUME NEW hook \in Hooks, filters[hook] = <<>>
  PROVE  Own(hook) = {} /\ \A h : ~Sole(hook, h)
BY DEF Own, Sole

LEMMA NothingIsEmpty == \A hook \in Hooks : Nothing[hook] = <<>>
BY DEF Nothing

(* No other attacher is under way. *)
LEMMA Alone ==
  ASSUME LockInv, NEW p \in Attachers, Attaching(p), NEW q \in Attachers \ {p}
  PROVE  ~Attaching(q) /\ ~InAttachTC(q)
BY DEF LockInv, Attaching, InAttachTC, Attachers

LEMMA PrependIsSole ==
  ASSUME KernelOK, NEW hook \in Hooks, NEW h, Prepend(hook, h), life' = life, Own(hook) = {}
  PROVE  /\ Sole(hook, h)'
         /\ \A k \in Hooks \ {hook} : filters'[k] = filters[k]
<1> DEFINE s == filters[hook]
           new == [owner |-> life, h |-> h]
<1>1. s \in Seq(Filter(life)) /\ \A i \in DOMAIN s : s[i].owner # life
  BY DEF KernelOK, Own
<1>2. filters' = [filters EXCEPT ![hook] = <<new>> \o s]
  BY DEF Prepend
<1>3. new.owner = life /\ new.h = h
  OBVIOUS
<1> HIDE DEF s, new
<1>4. filters'[hook] = <<new>> \o s /\ \A k \in Hooks \ {hook} : filters'[k] = filters[k]
  BY <1>2 DEF KernelOK
<1>5. /\ DOMAIN (<<new>> \o s) = 1 .. (Len(s) + 1)
      /\ (<<new>> \o s)[1] = new
      /\ \A i \in 2 .. (Len(s) + 1) : (<<new>> \o s)[i] = s[i - 1] /\ (i - 1) \in DOMAIN s
  BY <1>1
<1>6. Own(hook)' = {1}
  <2>1. Own(hook)' = {i \in DOMAIN filters'[hook] : filters'[hook][i].owner = life'}
    BY DEF Own
  <2>2. Len(s) \in Nat
    BY <1>1
  <2>3. \A i \in 1 .. (Len(s) + 1) : filters'[hook][i].owner = life <=> i = 1
    BY <1>1, <1>3, <1>4, <1>5, <2>2
  <2> QED
    BY <1>4, <1>5, <2>1, <2>2, <2>3
<1> QED
  BY <1>3, <1>4, <1>5, <1>6 DEF Sole

(* The attacher alone decides, and it leaves StackInv as it found it. *)
LEMMA StackAttach ==
  ASSUME TypeOK, LockInv, StackInv, NEW p \in Attachers, Attach(p)
  PROVE  StackInv'
<1>1. step[p] \in {"ingress?", "egress?", "qdisc", "ingress", "egress", "publish"}
  BY DEF Attach, CheckIngress, CheckEgress, AddQdisc, Publish, AddFilter,
         AddFilterWithoutHandle, AddFilterFails, AddFilterConflicts, Hooks
<1>2. Attaching(p) /\ \A q \in Attachers \ {p} : ~Attaching(q) /\ ~InAttachTC(q)
  BY <1>1, Alone DEF Attaching
<1>3. /\ \A q \in Attachers \ {p} : step'[q] = step[q]
      /\ step'[p] \in {"egress?", "idle", "qdisc", "ingress", "egress", "publish"}
      /\ life' = life
      /\ \A q \in Attachers : q \in stale' <=> q \in stale
  BY DEF TypeOK, linkVars, StaleAs, Attachers, Attach, CheckIngress, CheckEgress, Unlock,
         AddQdisc, Publish, AddFilter, AddFilterWithoutHandle, AfterAdding, AddFilterFails, AddFilterConflicts, Abort, Hooks
<1>4. step'["main"] \in {"delete ingress", "delete egress"} => phase' = "exiting"
  <2>1. phase' = phase \/ phase = "starting"
    BY DEF Attach, CheckIngress, CheckEgress, Unlock, AddQdisc, Publish, AddFilter,
           AddFilterWithoutHandle, AddFilterFails, AddFilterConflicts, Abort
  <2> QED
    BY <1>3, <2>1 DEF StackInv, LockInv, Attachers
<1> SUFFICES ASSUME WholeLosses', Up'
             PROVE  Stage(p)' /\ Settled'
  <2>1. \A q \in Attachers \ {p} : step'[q] \notin {"qdisc", "ingress", "egress", "publish"}
    BY <1>2, <1>3 DEF Attaching
  <2>2. \A q \in Attachers \ {p} : Stage(q)'
    BY <2>1 DEF Stage
  <2> QED
    BY <1>4, <2>2 DEF StackInv
<1>5. WholeLosses /\ Up
  <2>1. partial' = partial /\ (addErrors' = addErrors \/ addErrors' = addErrors + 1)
    BY DEF Attach, CheckIngress, CheckEgress, AddQdisc, Publish, AddFilter, bounds,
           AddFilterWithoutHandle, AddFilterFails, AddFilterConflicts, Abort
  <2>2. phase' # phase => phase = "starting"
    BY DEF Attach, CheckIngress, CheckEgress, Unlock, AddQdisc, Publish, AddFilter,
           AddFilterWithoutHandle, AddFilterFails, AddFilterConflicts, Abort
  <2>3. addErrors \in Nat
    BY BoundsAssumption DEF TypeOK
  <2> QED
    BY <2>1, <2>2, <2>3 DEF WholeLosses, Up
<1>6. addErrors' = 0 /\ addErrors = 0 /\ Stage(p) /\ Settled
  BY <1>5 DEF WholeLosses, StackInv
<1>7. step[p] \in {"ingress?", "egress?"} => phase = "running" /\ \A q \in Attachers : ~InAttachTC(q)
  BY <1>2, <1>5 DEF LockInv, InAttachTC, Attachers, Up
<1>8. CASE CheckIngress(p) \/ CheckEgress(p)
  <2>1. /\ UNCHANGED <<kernelVars, phase, handles, pair, stale>>
        /\ phase = "running" /\ \A q \in Attachers : ~InAttachTC(q)
    BY <1>7, <1>8 DEF CheckIngress, CheckEgress, linkVars
  <2>2. step'[p] \in {"egress?", "idle"} \/
        (step'[p] = "qdisc" /\ (p \in stale \/ \E hook \in Hooks : filters[hook] = <<>>))
    BY <1>8 DEF CheckIngress, CheckEgress, HasFilter, Unlock, TypeOK, Hooks
  <2>3. filters = Nothing \/ ("pair" \notin stale /\ \A hook \in Hooks : Sole(hook, pair[hook]))
    BY <1>6, <2>1 DEF Settled
  <2>4. CASE step'[p] \in {"egress?", "idle"} \/ (step'[p] = "qdisc" /\ p \in stale)
    BY <1>3, <2>1, <2>3, <2>4 DEF Stage, Settled, Sole, Own, kernelVars
  <2>5. CASE step'[p] = "qdisc" /\ \E hook \in Hooks : filters[hook] = <<>>
    <3>1. filters = Nothing
      BY <2>3, <2>5, NothingOwned
    <3>2. \A hook \in Hooks : Own(hook)' = {}
      BY <1>3, <2>1, <3>1, NothingIsEmpty, NothingOwned DEF Own, kernelVars
    <3> QED
      BY <2>1, <2>5, <3>1, <3>2 DEF Stage, Settled, InAttachTC, kernelVars
  <2> QED
    BY <2>2, <2>4, <2>5
<1>9. CASE AddQdisc(p)
  <2>1. /\ UNCHANGED <<filters, phase, stale>> /\ step[p] = "qdisc" /\ step'[p] = "ingress"
    BY <1>9 DEF AddQdisc, TypeOK, linkVars
  <2>2. (p \in stale' <=> p \in stale) /\ \A hook \in Hooks : Own(hook)' = Own(hook)
    BY <1>3, <2>1 DEF Own
  <2>3. Stage(p)'
    BY <1>6, <2>1, <2>2 DEF Stage
  <2>4. pair' = pair /\ \A q \in Attachers : InAttachTC(q)' <=> InAttachTC(q)
    BY <1>3, <1>9, <2>1 DEF AddQdisc, InAttachTC
  <2> QED
    BY <1>6, <2>1, <2>2, <2>3, <2>4 DEF Settled, Sole
<1>10. ASSUME NEW hook \in Hooks, AddFilter(p, hook) PROVE Stage(p)' /\ Settled'
  <2>1. /\ p \notin stale /\ qdisc /\ qdisc' = qdisc /\ step[p] = hook
        /\ UNCHANGED <<phase, handles>>
        /\ Prepend(hook, handles[p][hook])
        /\ step'[p] = IF hook = "ingress" THEN "egress" ELSE "publish"
    BY <1>10 DEF AddFilter, AfterAdding, TypeOK
  <2>2. Own(hook) = {} /\ KernelOK
    BY <1>6, <2>1, TypeParts DEF Stage, Hooks
  <2>3. Sole(hook, handles[p][hook])' /\ \A k \in Hooks \ {hook} : filters'[k] = filters[k]
    <3>1. ASSUME NEW h, h = handles[p][hook]
          PROVE  /\ \E i \in Nat : Own(hook)' = {i} /\ filters'[hook][i].h = h
                 /\ \A k \in Hooks \ {hook} : filters'[k] = filters[k]
      <4>1. Prepend(hook, h)
        BY <2>1, <3>1
      <4> QED
        BY <1>3, <2>2, <4>1, PrependIsSole DEF Sole
    <3> QED
      BY <2>1, <3>1 DEF Sole
  <2>4. CASE hook = "ingress"
    <3>1. Own("egress") = {} /\ filters'["egress"] = filters["egress"]
      BY <1>6, <2>1, <2>3, <2>4 DEF Stage, Hooks
    <3> QED
      BY <1>3, <2>1, <2>3, <2>4, <3>1 DEF Stage, Settled, InAttachTC, Own
  <2>5. CASE hook = "egress"
    <3>1. Sole("ingress", handles[p]["ingress"]) /\ filters'["ingress"] = filters["ingress"]
      BY <1>6, <2>1, <2>3, <2>5 DEF Stage, Hooks
    <3>2. Sole("ingress", handles[p]["ingress"])'
      BY <1>3, <2>1, <3>1 DEF Sole, Own
    <3> QED
      BY <1>3, <2>1, <2>3, <2>5, <3>2 DEF Stage, Settled, InAttachTC, Hooks
  <2> QED
    BY <2>4, <2>5 DEF Hooks
<1>11. ASSUME NEW hook \in Hooks, AddFilterFails(p, hook) \/ AddFilterConflicts(p, hook)
       PROVE  Stage(p)' /\ Settled'
  <2>1. /\ step'[p] = "idle" /\ UNCHANGED <<pair, stale>>
        /\ phase' = "running" => phase = "running"
    BY <1>11 DEF AddFilterFails, AddFilterConflicts, Abort, TypeOK, linkVars
  <2>2. filters' = Nothing \/ (filters' = filters /\ (~qdisc \/ p \in stale) /\ step[p] = hook)
    BY <1>6, <1>11 DEF AddFilterFails, AddFilterConflicts, kernelVars
  <2>3. filters' = Nothing \/ (filters' = filters /\ p \in stale /\ step[p] = "ingress")
    <3>1. ~qdisc => filters = Nothing
      BY DEF TypeOK
    <3>2. step[p] = "egress" => ~qdisc \/ p \notin stale
      BY <1>6 DEF Stage
    <3> QED
      BY <2>2, <3>1, <3>2 DEF Hooks
  <2>4. Stage(p)'
    BY <2>1 DEF Stage
  <2>5. CASE filters' = Nothing
    BY <2>4, <2>5 DEF Settled, Nothing
  <2>6. CASE filters' = filters /\ p \in stale /\ step[p] = "ingress"
    <3>1. \A q \in Attachers : ~InAttachTC(q)
      BY <1>2, <2>6 DEF InAttachTC
    <3>2. phase = "running" =>
            filters = Nothing \/ ("pair" \notin stale /\ \A k \in Hooks : Sole(k, pair[k]))
      BY <1>6, <3>1 DEF Settled
    <3> QED
      BY <1>3, <2>1, <2>4, <2>6, <3>2 DEF Settled, Sole, Own
  <2> QED
    BY <2>3, <2>5, <2>6
<1>12. ASSUME NEW hook \in Hooks PROVE ~AddFilterWithoutHandle(p, hook)
  BY <1>6 DEF AddFilterWithoutHandle
<1>13. CASE Publish(p)
  <2>1. /\ UNCHANGED filters /\ pair' = handles[p] /\ step[p] = "publish" /\ step'[p] = "idle"
        /\ p \notin stale => "pair" \notin stale'
    BY <1>13 DEF Publish, Unlock, kernelVars, TypeOK, StaleAs
  <2>2. filters = Nothing \/ (p \notin stale /\ \A hook \in Hooks : Sole(hook, handles[p][hook]))
    BY <1>6, <2>1 DEF Stage
  <2>3. filters' = Nothing \/ ("pair" \notin stale' /\ \A hook \in Hooks : Sole(hook, pair[hook])')
    BY <1>3, <2>1, <2>2 DEF Sole, Own
  <2> QED
    BY <2>1, <2>3 DEF Stage, Settled, Nothing
<1> QED
  BY <1>8, <1>9, <1>10, <1>11, <1>12, <1>13 DEF Attach

LEMMA StackStep == TypeOK /\ LockInv /\ StackInv /\ [Next]_vars => StackInv'
<1> SUFFICES ASSUME TypeOK, LockInv, StackInv, [Next]_vars PROVE StackInv'
  OBVIOUS
<1>1. ASSUME NEW p \in Attachers, FindLink(p) \/ Lock(p) PROVE StackInv'
  <2>1. /\ UNCHANGED <<qdisc, filters, phase, life, handles, pair, partial, addErrors>>
        /\ "pair" \in stale' <=> "pair" \in stale
        /\ \A q \in Attachers \ {p} : step'[q] = step[q] /\ (q \in stale' <=> q \in stale)
        /\ step'[p] \in {"lock", "ingress?"} /\ step[p] \in {"idle", "lock"}
    BY <1>1 DEF FindLink, Lock, kernelVars, linkVars, bounds, TypeOK, Attachers
  <2>2. /\ \A q \in Attachers : InAttachTC(q)' <=> InAttachTC(q)
        /\ step'["main"] \in {"delete ingress", "delete egress"} => step'["main"] = step["main"]
    BY <2>1 DEF InAttachTC, TypeOK, Attachers
  <2>3. WholeLosses' /\ Up' => \A q \in Attachers : Stage(q)'
    <3> SUFFICES ASSUME WholeLosses, Up, NEW q \in Attachers PROVE Stage(q)'
      BY <2>1 DEF WholeLosses, Up
    <3>1. Stage(q)
      BY DEF StackInv
    <3>2. CASE q = p
      BY <2>1, <3>2 DEF Stage
    <3>3. CASE q # p
      BY <2>1, <3>1, <3>3 DEF Stage, Sole, Own
    <3> QED
      BY <3>2, <3>3
  <2>4. WholeLosses' /\ Up' => Settled'
    BY <2>1, <2>2 DEF StackInv, Settled, WholeLosses, Up, Sole, Own
  <2> QED
    BY <2>1, <2>2, <2>3, <2>4 DEF StackInv
<1>2. ASSUME NEW p \in Attachers, Attach(p) PROVE StackInv'
  BY <1>2, StackAttach
<1>3. CASE Terminate \/ DeleteIngress
  <2>1. phase' = "exiting"
    BY <1>3 DEF Terminate, DeleteIngress, StackInv
  <2> QED
    BY <2>1 DEF StackInv, Up
<1>4. CASE DeleteEgress \/ Crash
  <2>1. phase' = "down" /\ step' = Idle
    BY <1>4 DEF DeleteEgress, Crash, Exit
  <2> QED
    BY <2>1 DEF StackInv, Up, Idle, Attachers
<1>5. CASE Restart
  <2>1. /\ phase' = "starting" /\ step' = [Idle EXCEPT !["main"] = "qdisc"] /\ life' = life + 1
        /\ filters' = filters \/ filters' = Nothing
    BY <1>5 DEF Restart, kernelVars
  <2>2. step'["main"] = "qdisc" /\ \A q \in Attachers : step'[q] \in {"qdisc", "idle"}
    BY <2>1 DEF Idle, Attachers
  <2>3. \A hook \in Hooks : Own(hook)' = {}
    <3>1. ASSUME NEW hook \in Hooks, NEW i \in DOMAIN filters[hook]
          PROVE  filters[hook][i].owner \in 1 .. life
      <4>1. filters[hook] \in Seq(Filter(life))
        BY DEF TypeOK, Filter
      <4>2. filters[hook][i] \in Filter(life)
        BY <4>1
      <4> QED
        BY <4>2 DEF Filter
    <3>2. life \in Nat
      BY DEF TypeOK
    <3> QED
      BY <2>1, <3>1, <3>2, NothingIsEmpty DEF Own
  <2> QED
    BY <2>1, <2>2, <2>3 DEF StackInv, Stage, Settled
<1>6. CASE WipeQdisc \/ RemoveInterface
  <2>1. UNCHANGED <<phase, life, step, handles, pair, addErrors>> /\ filters' = Nothing
    BY <1>6 DEF WipeQdisc, RemoveInterface
  <2>2. WholeLosses' => ~qdisc'
    BY <1>6 DEF WipeQdisc, RemoveInterface, WholeLosses
  <2>3. \A hook \in Hooks : Own(hook)' = {}
    BY <2>1, NothingIsEmpty DEF Own
  <2>4. WholeLosses' => /\ \A q \in Attachers : Stage(q)'
                        /\ Settled'
    BY <2>1, <2>2, <2>3 DEF Stage, Settled, Hooks, Nothing
  <2>5. step'["main"] \in {"delete ingress", "delete egress"} => phase' = "exiting"
    BY <2>1 DEF StackInv
  <2> QED
    BY <2>4, <2>5, Zenon DEF StackInv
<1>7. ASSUME NEW hook \in Hooks, FlushHook(hook) PROVE StackInv'
  BY <1>7 DEF FlushHook, StackInv, WholeLosses
<1>8. CASE CreateInterface \/ UNCHANGED vars
  <2>1. UNCHANGED <<stale, qdisc, filters, phase, life, step, handles, pair, partial, addErrors>>
    BY <1>8 DEF CreateInterface, vars, linkVars, kernelVars, bounds
  <2>2. \A hook \in Hooks : Own(hook)' = Own(hook)
    BY <2>1 DEF Own
  <2>3. \A q \in Attachers : Stage(q)' <=> Stage(q)
    BY <2>1, <2>2 DEF Stage, Sole, Hooks
  <2>4. (Settled' <=> Settled) /\ (WholeLosses' <=> WholeLosses) /\ (Up' <=> Up)
    BY <2>1, <2>2 DEF Settled, InAttachTC, WholeLosses, Up, Sole
  <2> QED
    BY <2>1, <2>3, <2>4 DEF StackInv
<1> QED
  BY <1>1, <1>2, <1>3, <1>4, <1>5, <1>6, <1>7, <1>8 DEF Next, Others

LEMMA StackInit == Init => StackInv
<1> SUFFICES ASSUME Init PROVE StackInv
  OBVIOUS
<1>1. /\ phase = "starting" /\ filters = Nothing
      /\ step["main"] = "qdisc" /\ step["watch"] = "idle"
  BY DEF Init, Idle, Attachers
<1>2. \A hook \in Hooks : Own(hook) = {}
  BY <1>1, NothingIsEmpty, NothingOwned
<1> QED
  BY <1>1, <1>2 DEF StackInv, Stage, Settled, Attachers

LEMMA StackAlways == Spec => [](TypeOK /\ LockInv /\ StackInv)
BY InitLocked, NextKeepsLocked, StackInit, StackStep, TypeCorrect, PTL DEF Spec

(* A running daemon whose filters are only ever lost with the qdisc never  *)
(* stacks two of its own, through failing lists, wipes in the middle of an *)
(* attachment, leftovers of earlier lives and colliding handles.           *)
THEOREM WipesDoNotStack == Spec => []NoDuplicatesAfterWipes
<1>1. TypeOK /\ LockInv /\ StackInv => NoDuplicatesAfterWipes
  <2> SUFFICES ASSUME TypeOK, StackInv, WholeLosses, phase = "running", NEW hook \in Hooks
               PROVE  \A i, j \in Own(hook) : i = j
    BY DEF NoDuplicatesAfterWipes, NoDuplicates
  <2>1. Settled /\ \A p \in Attachers : Stage(p)
    BY DEF StackInv, Up
  <2>2. filters = Nothing => Own(hook) = {}
    BY NothingIsEmpty, NothingOwned
  <2>3. CASE \A p \in Attachers : ~InAttachTC(p)
    BY <2>1, <2>2, <2>3 DEF Settled, Sole
  <2>4. ASSUME NEW p \in Attachers, InAttachTC(p) PROVE \A i, j \in Own(hook) : i = j
    <3>1. ~qdisc => filters = Nothing
      BY DEF TypeOK
    <3>2. CASE step[p] \in {"qdisc", "ingress"}
      BY <2>1, <2>4, <3>2 DEF Stage, InAttachTC
    <3>3. CASE step[p] = "egress"
      BY <2>1, <2>2, <3>1, <3>3 DEF Stage, Sole, Hooks
    <3>4. CASE step[p] = "publish"
      BY <2>1, <2>2, <3>4 DEF Stage, Sole
    <3> QED
      BY <2>4, <3>2, <3>3, <3>4 DEF InAttachTC
  <2> QED
    BY <2>3, <2>4
<1> QED
  BY <1>1, StackAlways, PTL

(* Under the same proviso the remembered pair is the attached one whenever *)
(* nobody is attaching: the orderly exit deletes the right filters.        *)
THEOREM RememberedPairIsCurrent == Spec => []PairIsCurrent
<1>1. TypeOK /\ LockInv /\ StackInv => PairIsCurrent
  <2> SUFFICES ASSUME StackInv, WholeLosses, phase = "running",
                      ~Attaching("main"), ~Attaching("watch"),
                      NEW hook \in Hooks, NEW i \in Own(hook)
               PROVE  filters[hook][i].h = pair[hook]
    BY DEF PairIsCurrent
  <2>1. \A p \in Attachers : ~InAttachTC(p)
    BY DEF Attaching, InAttachTC, Attachers
  <2>2. filters = Nothing \/ Sole(hook, pair[hook])
    BY <2>1 DEF StackInv, Up, Settled
  <2>3. filters = Nothing => Own(hook) = {}
    BY NothingIsEmpty, NothingOwned
  <2> QED
    BY <2>2, <2>3 DEF Sole
<1> QED
  BY <1>1, StackAlways, PTL

-----------------------------------------------------------------------------
(* The kernel refuses a handle it has, so the filters of a hook that have  *)
(* handles of their own are told apart by them.                            *)
Differ(s) == \A i, j \in DOMAIN s : (s[i].h = s[j].h /\ s[i].h # 0) => i = j
HandlesDiffer == \A hook \in Hooks : Differ(filters[hook])

LEMMA RemovalElements ==
  ASSUME NEW S, NEW s \in Seq(S), NEW at \in DOMAIN s
  PROVE  /\ DOMAIN RemoveAt(s, at) = 1 .. (Len(s) - 1)
         /\ \A k \in 1 .. (Len(s) - 1) :
              /\ (IF k < at THEN k ELSE k + 1) \in (DOMAIN s) \ {at}
              /\ RemoveAt(s, at)[k] = s[IF k < at THEN k ELSE k + 1]
<1> DEFINE a == SubSeq(s, 1, at - 1)
           b == SubSeq(s, at + 1, Len(s))
<1>1. at \in 1 .. Len(s) /\ Len(s) \in Nat /\ DOMAIN s = 1 .. Len(s)
  OBVIOUS
<1>2. a \in Seq(S) /\ Len(a) = at - 1 /\ \A k \in 1 .. (at - 1) : a[k] = s[k]
  BY <1>1
<1>3. b \in Seq(S) /\ Len(b) = Len(s) - at /\ \A k \in 1 .. (Len(s) - at) : b[k] = s[at + k]
  BY <1>1
<1>4. RemoveAt(s, at) = a \o b
  BY DEF RemoveAt
<1> HIDE DEF a, b
<1>5. DOMAIN (a \o b) = 1 .. (Len(s) - 1)
  <2>1. DOMAIN (a \o b) = 1 .. (Len(a) + Len(b))
    <3>1. (a \o b) \in Seq(S) /\ Len(a \o b) = Len(a) + Len(b)
      BY <1>2, <1>3, ConcatProperties
    <3> QED
      BY <3>1, LenProperties
  <2>2. (at - 1) + (Len(s) - at) = Len(s) - 1
    BY <1>1
  <2> QED
    BY <1>2, <1>3, <2>1, <2>2
<1>6. ASSUME NEW k \in 1 .. (Len(s) - 1) PROVE (a \o b)[k] = s[IF k < at THEN k ELSE k + 1]
  <2>1. CASE k < at
    BY <1>1, <1>2, <1>3, <2>1
  <2>2. CASE ~(k < at)
    <3>1. (a \o b)[k] = b[k - (at - 1)] /\ k - (at - 1) \in 1 .. (Len(s) - at)
      BY <1>1, <1>2, <1>3, <2>2
    <3>2. at + (k - (at - 1)) = k + 1
      BY <1>1
    <3> QED
      BY <1>3, <2>2, <3>1, <3>2
  <2> QED
    BY <2>1, <2>2
<1>7. ASSUME NEW k \in 1 .. (Len(s) - 1)
      PROVE  (IF k < at THEN k ELSE k + 1) \in (DOMAIN s) \ {at}
  BY <1>1
<1> QED
  BY <1>4, <1>5, <1>6, <1>7

(* Taking one filter out leaves the others and their order.                *)
LEMMA RemovalDiffers ==
  ASSUME NEW S, NEW s \in Seq(S), NEW at \in DOMAIN s, Differ(s)
  PROVE  Differ(RemoveAt(s, at))
<1>1. Len(s) \in Nat /\ at \in Nat
  OBVIOUS
<1>2. DOMAIN RemoveAt(s, at) = 1 .. (Len(s) - 1)
  BY RemovalElements
<1> SUFFICES ASSUME NEW i \in 1 .. (Len(s) - 1), NEW j \in 1 .. (Len(s) - 1),
                    RemoveAt(s, at)[i].h = RemoveAt(s, at)[j].h, RemoveAt(s, at)[i].h # 0
             PROVE  i = j
  BY <1>2, Zenon DEF Differ
<1> DEFINE from(k) == IF k < at THEN k ELSE k + 1
<1>3. /\ from(i) \in DOMAIN s /\ from(j) \in DOMAIN s
      /\ RemoveAt(s, at)[i] = s[from(i)] /\ RemoveAt(s, at)[j] = s[from(j)]
  BY RemovalElements
<1>4. from(i) = from(j)
  BY <1>3 DEF Differ
<1> QED
  BY <1>1, <1>4

(* What the cleanup does to a hook: it adds nothing of this life, and if   *)
(* h is the handle of its only filter there, that filter is gone.          *)
LEMMA DeletesOwn ==
  ASSUME KernelOK, HandlesDiffer, NEW hook \in Hooks, NEW h, Delete(hook, h), life' = life
  PROVE  /\ HandlesDiffer'
         /\ \A k \in Hooks \ {hook} : filters'[k] = filters[k]
         /\ Own(hook) = {} => Own(hook)' = {}
         /\ ("main" \notin stale /\ Sole(hook, h)) => Own(hook)' = {}
<1> DEFINE old == filters[hook]
           at == CHOOSE i \in DOMAIN old : old[i].h = h
           new == IF h = 0 THEN <<>> ELSE IF Conflict(hook, h) THEN RemoveAt(old, at) ELSE old
<1>1. old \in Seq(Filter(life)) /\ Differ(old) /\ Differ(<<>>)
  BY DEF KernelOK, HandlesDiffer, Differ
<1>2. Conflict(hook, h) => at \in DOMAIN old /\ old[at].h = h
  BY DEF Conflict
<1>3. \/ filters' = filters /\ "main" \in stale
      \/ filters' = [filters EXCEPT ![hook] = new]
  BY DEF Delete
<1>4. DOMAIN filters = Hooks
  BY DEF KernelOK
<1>5. Differ(new)
  BY <1>1, <1>2, RemovalDiffers
<1>6. ASSUME NEW k \in DOMAIN new, new[k].owner = life
      PROVE  \E i \in Own(hook) : h # 0 /\ (Conflict(hook, h) => i # at)
  <2>1. CASE h = 0
    BY <1>6, <2>1
  <2>2. CASE h # 0 /\ ~Conflict(hook, h)
    BY <1>6, <2>2 DEF Own
  <2>3. CASE h # 0 /\ Conflict(hook, h)
    <3>1. /\ DOMAIN RemoveAt(old, at) = 1 .. (Len(old) - 1)
          /\ \A m \in 1 .. (Len(old) - 1) :
               /\ (IF m < at THEN m ELSE m + 1) \in (DOMAIN old) \ {at}
               /\ RemoveAt(old, at)[m] = old[IF m < at THEN m ELSE m + 1]
      <4>1. at \in DOMAIN old /\ old \in Seq(Filter(life))
        BY <1>1, <1>2, <2>3
      <4> HIDE DEF old, at
      <4> QED
        BY <4>1, RemovalElements
    <3>2. new = RemoveAt(old, at)
      BY <2>3
    <3> HIDE DEF old, at, new
    <3>3. PICK i \in (DOMAIN old) \ {at} : new[k] = old[i]
      BY <1>6, <3>1, <3>2
    <3>4. i \in Own(hook)
      BY <1>6, <3>3 DEF Own, old
    <3> QED
      BY <2>3, <3>3, <3>4
  <2> QED
    BY <2>1, <2>2, <2>3
<1>7. Sole(hook, h) => ~\E i \in Own(hook) : h # 0 /\ (Conflict(hook, h) => i # at)
  <2> SUFFICES ASSUME NEW i \in Nat, Own(hook) = {i}, old[i].h = h, h # 0
               PROVE  Conflict(hook, h) /\ i = at
    BY DEF Sole
  <2>1. i \in DOMAIN old
    BY DEF Own
  <2>2. Conflict(hook, h)
    BY <2>1 DEF Conflict
  <2> QED
    BY <1>1, <1>2, <2>1, <2>2 DEF Differ
<1> HIDE DEF old, at, new
<1>8. HandlesDiffer' /\ \A k \in Hooks \ {hook} : filters'[k] = filters[k]
  BY <1>3, <1>4, <1>5 DEF HandlesDiffer
<1>9. ASSUME NEW k \in Own(hook)', filters' = [filters EXCEPT ![hook] = new]
      PROVE  \E i \in Own(hook) : h # 0 /\ (Conflict(hook, h) => i # at)
  <2>1. filters'[hook] = new
    BY <1>4, <1>9
  <2>2. k \in DOMAIN new /\ new[k].owner = life
    BY <1>9, <2>1 DEF Own
  <2> QED
    BY <1>6, <2>2
<1>10. filters' = filters => Own(hook)' = Own(hook)
  BY DEF Own
<1> QED
  BY <1>3, <1>7, <1>8, <1>9, <1>10

LEMMA PrependDiffers ==
  ASSUME KernelOK, HandlesDiffer, NEW hook \in Hooks, NEW h, Prepend(hook, h),
         h = 0 \/ ~Conflict(hook, h)
  PROVE  HandlesDiffer'
<1> DEFINE s == filters[hook]
           new == [owner |-> life, h |-> h]
<1>1. s \in Seq(Filter(life)) /\ Differ(s) /\ new.h = h
  BY DEF KernelOK, HandlesDiffer
<1>2. filters' = [filters EXCEPT ![hook] = <<new>> \o s] /\ DOMAIN filters = Hooks
  BY DEF Prepend, KernelOK
<1>3. h = 0 \/ \A i \in DOMAIN s : s[i].h # h
  BY DEF Conflict
<1> HIDE DEF s, new
<1>4. Differ(<<new>> \o s)
  <2>1. /\ DOMAIN (<<new>> \o s) = 1 .. (Len(s) + 1) /\ Len(s) \in Nat
        /\ (<<new>> \o s)[1] = new
        /\ \A i \in 2 .. (Len(s) + 1) : (<<new>> \o s)[i] = s[i - 1] /\ (i - 1) \in DOMAIN s
    BY <1>1
  <2> DEFINE t == <<new>> \o s
  <2> HIDE DEF t
  <2> SUFFICES ASSUME NEW i \in 1 .. (Len(s) + 1), NEW j \in 1 .. (Len(s) + 1),
                      t[i].h = t[j].h, t[i].h # 0
               PROVE  i = j
    BY <2>1 DEF Differ, t
  <2>2. CASE i = 1 \/ j = 1
    BY <1>1, <1>3, <2>1, <2>2 DEF t
  <2>3. CASE i # 1 /\ j # 1
    <3>1. /\ i - 1 \in DOMAIN s /\ j - 1 \in DOMAIN s
          /\ t[i] = s[i - 1] /\ t[j] = s[j - 1]
      BY <2>1, <2>3 DEF t
    <3>2. i - 1 = j - 1
      BY <1>1, <3>1 DEF Differ
    <3> QED
      BY <3>2
  <2> QED
    BY <2>2, <2>3
<1> QED
  BY <1>2, <1>4 DEF HandlesDiffer, s

LEMMA DifferStep == TypeOK /\ HandlesDiffer /\ [Next]_vars => HandlesDiffer'
<1> SUFFICES ASSUME TypeOK, HandlesDiffer, [Next]_vars PROVE HandlesDiffer'
  OBVIOUS
<1>1. KernelOK
  BY TypeParts
<1>2. CASE filters' \in {filters, Nothing}
  BY <1>2 DEF HandlesDiffer, Differ, Nothing
<1>3. ASSUME NEW p \in Attachers, NEW hook \in Hooks,
             AddFilter(p, hook) \/ AddFilterWithoutHandle(p, hook)
      PROVE  HandlesDiffer'
  <2>1. \E h : Prepend(hook, h) /\ (h = 0 \/ ~Conflict(hook, h))
    BY <1>3 DEF AddFilter, AddFilterWithoutHandle
  <2> QED
    BY <1>1, <2>1, PrependDiffers
<1>4. CASE DeleteIngress \/ DeleteEgress
  <2>1. \E hook \in Hooks : \E h : Delete(hook, h) /\ life' = life
    BY <1>4 DEF DeleteIngress, DeleteEgress, Exit, Hooks
  <2> QED
    BY <1>1, <2>1, DeletesOwn
<1>5. ASSUME NEW hook \in Hooks, FlushHook(hook) PROVE HandlesDiffer'
  BY <1>1, <1>5 DEF FlushHook, HandlesDiffer, Differ, KernelOK
<1>6. ASSUME NEW p \in Attachers, FindLink(p) \/ Lock(p) \/ Attach(p) PROVE HandlesDiffer'
  BY <1>2, <1>3, <1>6 DEF FindLink, Lock, Attach, CheckIngress, CheckEgress, AddQdisc, Publish,
                          AddFilterFails, AddFilterConflicts, kernelVars
<1> QED
  BY <1>2, <1>4, <1>5, <1>6 DEF Next, Terminate, Crash, Restart, Others, WipeQdisc, RemoveInterface,
                                CreateInterface, kernelVars, vars

(* The watcher has no attachment under way while main cleans up.  The code *)
(* does not see to it: reattachIfMissing may hold attachMu at SIGTERM, and *)
(* the cleanup does not take it.                                           *)
WatcherQuiet == phase = "exiting" => step["watch"] = "idle"

(* The cleanup has the handles of what is attached, and what it deleted    *)
(* does not come back.                                                     *)
Exiting ==
  /\ step["main"] = "delete ingress" =>
       \/ filters = Nothing
       \/ "main" \notin stale /\ \A hook \in Hooks : Sole(hook, handles["main"][hook])
  /\ step["main"] = "delete egress" =>
       /\ Own("ingress") = {}
       /\ \/ Own("egress") = {}
          \/ "main" \notin stale /\ Sole("egress", handles["main"]["egress"])

ExitInv ==
  /\ clean => phase = "down"
  /\ phase = "exiting" => step["main"] \in {"delete ingress", "delete egress"}
  /\ WholeLosses => Exiting /\ CleanExit

LEMMA DeleteIngressExits ==
  ASSUME TypeOK, HandlesDiffer, StackInv, ExitInv, DeleteIngress
  PROVE  ExitInv'
<1>1. /\ step["main"] = "delete ingress" /\ step'["main"] = "delete egress"
      /\ UNCHANGED <<stale, phase, life, handles, clean, partial, addErrors>>
  BY DEF DeleteIngress, TypeOK, linkVars, bounds, Attachers
<1>2. Delete("ingress", handles["main"]["ingress"]) /\ KernelOK /\ "ingress" \in Hooks
  BY TypeParts DEF DeleteIngress, Hooks
<1>3. /\ filters'["egress"] = filters["egress"]
      /\ Own("ingress") = {} => Own("ingress")' = {}
      /\ ("main" \notin stale /\ Sole("ingress", handles["main"]["ingress"])) => Own("ingress")' = {}
  <2>1. ASSUME NEW h, h = handles["main"]["ingress"]
        PROVE  /\ filters'["egress"] = filters["egress"]
               /\ Own("ingress") = {} => Own("ingress")' = {}
               /\ ("main" \notin stale /\ Sole("ingress", h)) => Own("ingress")' = {}
    <3>1. Delete("ingress", h) /\ "egress" \in Hooks \ {"ingress"}
      BY <1>2, <2>1 DEF Hooks
    <3> QED
      BY <1>1, <1>2, <3>1, DeletesOwn
  <2> QED
    BY <2>1
<1>4. Own("egress")' = Own("egress")
  BY <1>1, <1>3 DEF Own
<1>5. phase = "exiting" /\ ~clean
  BY <1>1 DEF StackInv, ExitInv
<1>6. WholeLosses' => Exiting'
  <2> SUFFICES ASSUME WholeLosses PROVE Exiting'
    BY <1>1 DEF WholeLosses
  <2>1. \/ filters = Nothing
        \/ "main" \notin stale /\ \A hook \in Hooks : Sole(hook, handles["main"][hook])
    BY <1>1 DEF ExitInv, Exiting
  <2>2. CASE filters = Nothing
    <3>1. Own("ingress") = {} /\ Own("egress") = {}
      BY <2>2, NothingIsEmpty, NothingOwned DEF Hooks
    <3> QED
      BY <1>1, <1>3, <1>4, <3>1 DEF Exiting
  <2>3. CASE "main" \notin stale /\ \A hook \in Hooks : Sole(hook, handles["main"][hook])
    <3>1. Sole("egress", handles["main"]["egress"])'
      BY <1>1, <1>3, <1>4, <2>3 DEF Sole, Hooks
    <3> QED
      BY <1>1, <1>3, <2>3, <3>1 DEF Exiting, Hooks
  <2> QED
    BY <2>1, <2>2, <2>3
<1> QED
  BY <1>1, <1>5, <1>6 DEF ExitInv, CleanExit

LEMMA DeleteEgressExits ==
  ASSUME TypeOK, HandlesDiffer, ExitInv, DeleteEgress
  PROVE  ExitInv'
<1>1. /\ step["main"] = "delete egress" /\ phase' = "down" /\ step'["main"] = "idle"
      /\ UNCHANGED <<life, partial, addErrors>>
  BY DEF DeleteEgress, Exit, Idle, bounds, Attachers
<1>2. Delete("egress", handles["main"]["egress"]) /\ KernelOK /\ "egress" \in Hooks
  BY TypeParts DEF DeleteEgress, Hooks
<1>3. /\ filters'["ingress"] = filters["ingress"]
      /\ Own("egress") = {} => Own("egress")' = {}
      /\ ("main" \notin stale /\ Sole("egress", handles["main"]["egress"])) => Own("egress")' = {}
  <2>1. ASSUME NEW h, h = handles["main"]["egress"]
        PROVE  /\ filters'["ingress"] = filters["ingress"]
               /\ Own("egress") = {} => Own("egress")' = {}
               /\ ("main" \notin stale /\ Sole("egress", h)) => Own("egress")' = {}
    <3>1. Delete("egress", h) /\ "ingress" \in Hooks \ {"egress"}
      BY <1>2, <2>1 DEF Hooks
    <3> QED
      BY <1>1, <1>2, <3>1, DeletesOwn
  <2> QED
    BY <2>1
<1>4. Own("ingress")' = Own("ingress")
  BY <1>1, <1>3 DEF Own
<1>5. WholeLosses' => Exiting' /\ CleanExit'
  BY <1>1, <1>3, <1>4 DEF WholeLosses, ExitInv, Exiting, CleanExit, Hooks
<1> QED
  BY <1>1, <1>5 DEF ExitInv

LEMMA ExitStep ==
  /\ TypeOK /\ LockInv /\ StackInv /\ HandlesDiffer /\ WatcherQuiet /\ WatcherQuiet'
  /\ ExitInv /\ [Next]_vars
  => ExitInv'
<1> SUFFICES ASSUME TypeOK, LockInv, StackInv, HandlesDiffer, WatcherQuiet, WatcherQuiet',
                    ExitInv, [Next]_vars
             PROVE  ExitInv'
  OBVIOUS
<1>1. ASSUME NEW p \in Attachers, FindLink(p) \/ Lock(p) PROVE ExitInv'
  <2>1. /\ UNCHANGED <<filters, phase, life, handles, clean, partial, addErrors>>
        /\ step[p] \in {"idle", "lock"} /\ step'[p] \in {"lock", "ingress?"}
        /\ \A q \in Attachers \ {p} : step'[q] = step[q]
        /\ "main" \notin stale => "main" \notin stale'
        /\ FindLink(p) /\ p = "main" => phase # "exiting"
    BY <1>1 DEF FindLink, Lock, kernelVars, linkVars, bounds, TypeOK, Attachers
  <2>2. phase = "exiting" => step'["main"] = step["main"]
    BY <2>1 DEF ExitInv, Attachers
  <2>3. \A hook \in Hooks : Own(hook)' = Own(hook)
    BY <2>1 DEF Own
  <2>4. step'["main"] \in {"delete ingress", "delete egress"} => step'["main"] = step["main"]
    BY <2>1 DEF Attachers
  <2>5. Exiting => Exiting'
    BY <2>1, <2>3, <2>4 DEF Exiting, Sole, Hooks
  <2>6. CleanExit => CleanExit'
    BY <2>1, <2>3 DEF CleanExit
  <2> QED
    BY <2>1, <2>2, <2>5, <2>6 DEF ExitInv, WholeLosses
<1>2. ASSUME NEW p \in Attachers, Attach(p) PROVE ExitInv'
  <2>1. step[p] \in {"ingress?", "egress?", "qdisc", "ingress", "egress", "publish"}
    BY <1>2 DEF Attach, CheckIngress, CheckEgress, AddQdisc, Publish, AddFilter,
                AddFilterWithoutHandle, AddFilterFails, AddFilterConflicts, Hooks
  <2>2. phase \notin {"exiting", "down"}
    BY <2>1 DEF ExitInv, WatcherQuiet, LockInv, Idle, Attachers
  <2>3. clean' = clean /\ phase' # "exiting"
    BY <1>2, <2>2 DEF Attach, CheckIngress, CheckEgress, AddQdisc, Publish, AddFilter,
                      AddFilterWithoutHandle, AddFilterFails, AddFilterConflicts, Abort
  <2>4. step'["main"] \notin {"delete ingress", "delete egress"}
    <3>1. StackInv'
      BY <1>2, StackAttach
    <3> QED
      BY <2>3, <3>1 DEF StackInv
  <2> QED
    BY <2>2, <2>3, <2>4 DEF ExitInv, Exiting, CleanExit
<1>3. CASE Terminate
  <2>1. /\ phase = "running" /\ step["main"] = "idle" /\ phase' = "exiting"
        /\ step'["main"] = "delete ingress" /\ step'["watch"] = step["watch"]
        /\ handles'["main"] = pair
        /\ "main" \in stale' <=> "pair" \in stale
        /\ UNCHANGED <<filters, life, clean, partial, addErrors>>
    BY <1>3 DEF Terminate, TypeOK, StaleAs, kernelVars, bounds, Attachers
  <2>2. \A p \in Attachers : ~InAttachTC(p)
    BY <2>1 DEF WatcherQuiet, InAttachTC, Attachers
  <2>3. WholeLosses' => Exiting'
    <3> SUFFICES ASSUME WholeLosses PROVE Exiting'
      BY <2>1 DEF WholeLosses
    <3>1. filters = Nothing \/ ("pair" \notin stale /\ \A hook \in Hooks : Sole(hook, pair[hook]))
      BY <2>1, <2>2 DEF StackInv, Up, Settled
    <3>2. CASE filters = Nothing
      BY <2>1, <3>2 DEF Exiting, Nothing
    <3>3. CASE "pair" \notin stale /\ \A hook \in Hooks : Sole(hook, pair[hook])
      <4>1. \A hook \in Hooks : Own(hook)' = Own(hook)
        BY <2>1 DEF Own
      <4>2. \A hook \in Hooks : Sole(hook, handles["main"][hook])'
        BY <2>1, <3>3, <4>1 DEF Sole
      <4> QED
        BY <2>1, <3>3, <4>2 DEF Exiting
    <3> QED
      BY <3>1, <3>2, <3>3
  <2> QED
    BY <2>1, <2>3 DEF ExitInv, CleanExit
<1>4. CASE DeleteIngress
  BY <1>4, DeleteIngressExits
<1>5. CASE DeleteEgress
  BY <1>5, DeleteEgressExits
<1>6. CASE Crash \/ Restart
  <2>1. /\ ~clean' /\ phase' # "exiting"
        /\ step'["main"] \in {"idle", "qdisc"}
    BY <1>6 DEF Crash, Exit, Restart, Idle, Attachers
  <2> QED
    BY <2>1 DEF ExitInv, Exiting, CleanExit
<1>7. CASE WipeQdisc \/ RemoveInterface
  <2>1. UNCHANGED <<phase, life, step, handles, clean>> /\ filters' = Nothing
    BY <1>7 DEF WipeQdisc, RemoveInterface
  <2>2. \A hook \in Hooks : Own(hook)' = {}
    BY <2>1, NothingIsEmpty DEF Own
  <2>3. Exiting' /\ CleanExit'
    BY <2>1, <2>2 DEF Exiting, CleanExit, Hooks, Nothing
  <2> QED
    BY <2>1, <2>3 DEF ExitInv
<1>8. ASSUME NEW hook \in Hooks, FlushHook(hook) PROVE ExitInv'
  BY <1>8 DEF FlushHook, ExitInv, WholeLosses
<1>9. CASE CreateInterface \/ UNCHANGED vars
  <2>1. UNCHANGED <<stale, filters, phase, life, step, handles, clean, partial, addErrors>>
    BY <1>9 DEF CreateInterface, vars, linkVars, kernelVars, bounds
  <2>2. \A hook \in Hooks : Own(hook)' = Own(hook)
    BY <2>1 DEF Own
  <2>3. (Exiting' <=> Exiting) /\ (CleanExit' <=> CleanExit) /\ (WholeLosses' <=> WholeLosses)
    BY <2>1, <2>2 DEF Exiting, CleanExit, WholeLosses, Sole, Hooks
  <2> QED
    BY <2>1, <2>3 DEF ExitInv
<1> QED
  BY <1>1, <1>2, <1>3, <1>4, <1>5, <1>6, <1>7, <1>8, <1>9 DEF Next, Others

LEMMA ExitInit == Init => HandlesDiffer /\ ExitInv
BY DEF Init, HandlesDiffer, Differ, ExitInv, Exiting, CleanExit, Idle, Attachers, Nothing

(* While filters are only lost with the qdisc, a daemon that is told to    *)
(* stop when its watcher is not at work leaves none of its own behind,     *)
(* through any number of earlier attachments, crashes and interfaces that  *)
(* came back.                                                              *)
THEOREM QuietExitIsClean == Spec /\ []WatcherQuiet => [](WholeLosses => CleanExit)
<1>1. ExitInv => (WholeLosses => CleanExit)
  BY DEF ExitInv
<1> QED
  BY ExitInit, DifferStep, ExitStep, StackAlways, <1>1, PTL DEF Spec

(* So a daemon whose link subscription failed, which is left with the      *)
(* ticker alone, always cleans up after itself.                            *)
THEOREM ExitWithoutWatcherIsClean ==
  ASSUME ~Watching
  PROVE  Spec => [](WholeLosses => CleanExit)
<1> DEFINE NoWatcher == step["watch"] = "idle"
<1>1. Init => NoWatcher
  BY DEF Init, Idle, Attachers
<1>2. LockInv /\ NoWatcher /\ [Next]_vars => NoWatcher'
  <2> SUFFICES ASSUME LockInv, NoWatcher, [Next]_vars PROVE NoWatcher'
    OBVIOUS
  <2>1. "watch" \in DOMAIN step
    BY DEF LockInv, Attachers
  <2>2. ASSUME NEW p \in Attachers, FindLink(p) \/ Lock(p) \/ Attach(p) PROVE NoWatcher'
    <3>1. p = "main"
      BY <2>2 DEF Attachers, FindLink, Lock, Attach, CheckIngress, CheckEgress, AddQdisc, Publish,
                  AddFilter, AddFilterWithoutHandle, AddFilterFails, AddFilterConflicts, Hooks
    <3> QED
      BY <2>1, <2>2, <3>1 DEF FindLink, Lock, Attach, CheckIngress, CheckEgress, Unlock,
                                  AddQdisc, Publish, AddFilter, AddFilterWithoutHandle,
                                  AfterAdding, AddFilterFails, AddFilterConflicts, Abort
  <2> QED
    BY <2>1, <2>2 DEF Next, Terminate, DeleteIngress, DeleteEgress, Crash, Exit, Restart, Others,
                      WipeQdisc, FlushHook, RemoveInterface, CreateInterface, Idle, Attachers, vars
<1>3. NoWatcher => WatcherQuiet
  BY DEF WatcherQuiet
<1> HIDE DEF NoWatcher
<1> QED
  BY <1>1, <1>2, <1>3, InitLocked, NextKeepsLocked, QuietExitIsClean, PTL DEF Spec
=============================================================================
