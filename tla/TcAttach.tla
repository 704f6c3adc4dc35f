----------------------------- MODULE TcAttach -----------------------------
(***************************************************************************)
(* Keeping the classifiers attached.  At startup, on every tick and on     *)
(* link updates the daemon sees to it that the clsact qdisc of the         *)
(* interface has its two filters; other programs rewrite the qdisc at any  *)
(* time, and the interface itself may go and come back under another       *)
(* index.  The main goroutine and the link watcher serialize on attachMu;  *)
(* the cleanup at exit does not.                                           *)
(*                                                                         *)
(* Every filter in the model bears the names of this program: it belongs   *)
(* to the running daemon or to an earlier life of it.  A new filter goes   *)
(* in front of the older ones, and as the classifier returns TC_ACT_OK     *)
(* only the first one of a hook sees the packets.                          *)
(***************************************************************************)
EXTENDS Naturals, Sequences, SequencesExt

CONSTANTS
  Handles,       \* the handles a 16-bit timestamp makes; 0 asks the kernel for one
  ForceCleanup,  \* the values of -force-cleanup it is started with
  Watching,      \* the link subscription works
  PartialLoss,   \* others also flush single hooks, or put a new qdisc in place at once
  MaxChanges,    \* bound: changes others make
  MaxLives,      \* bound: lives of the daemon
  MaxListErrors, \* bound: FilterList calls that fail
  MaxAddErrors   \* bound: QdiscAdd, FilterAdd and tc calls that fail for no visible reason

ASSUME HandlesAssumption == Handles \subseteq Nat \ {0} /\ Handles # {}
ASSUME SwitchAssumption ==
  /\ ForceCleanup \subseteq BOOLEAN /\ ForceCleanup # {}
  /\ Watching \in BOOLEAN /\ PartialLoss \in BOOLEAN
ASSUME BoundsAssumption ==
  /\ MaxChanges \in Nat /\ MaxLives \in Nat \ {0}
  /\ MaxListErrors \in Nat /\ MaxAddErrors \in Nat

Hooks == {"ingress", "egress"}
Attachers == {"main", "watch"}

Holders == Attachers \cup {"pair"}

VARIABLES
  link,       \* the interface exists
  stale,      \* those of Holders that hold the index of an interface that is gone
  qdisc,      \* the interface has a clsact qdisc
  filters,    \* filters[hook]: [owner, h], newest first
  phase,      \* of the daemon: "starting", "running", "exiting", "down"
  life,       \* which run of the daemon this is
  step,       \* step[p]: where attacher p is, "idle" when it is not attaching
  handles,    \* handles[p][hook]: the handle p uses for the hook
  mu,         \* attachMu: "free" or its holder
  pair,       \* handles of filterIngress and filterEgress
  clean,      \* history: the last exit ran the deferred cleanup
  partial,    \* history: others removed a filter and left the qdisc usable
  changes, listErrors, addErrors

linkVars == <<link, stale>>
kernelVars == <<qdisc, filters>>
bounds == <<changes, listErrors, addErrors>>
vars == <<linkVars, kernelVars, phase, life, step, handles, mu, pair, clean, partial, bounds>>

Nothing == [hook \in Hooks |-> <<>>]
NoPair == [hook \in Hooks |-> 0]
Idle == [p \in Attachers |-> "idle"]

Init ==
  /\ link = TRUE
  /\ stale = {}
  /\ qdisc \in BOOLEAN
  /\ filters = Nothing
  /\ phase = "starting"
  /\ life = 1
  /\ step = [Idle EXCEPT !["main"] = "qdisc"]
  /\ handles = [p \in Attachers |-> NoPair]
  /\ mu = "free"
  /\ pair = NoPair
  /\ clean = FALSE
  /\ partial = FALSE
  /\ changes = 0 /\ listErrors = 0 /\ addErrors = 0

-----------------------------------------------------------------------------
(* LinkByName, by ensureAttached on a tick or by the watcher on a link     *)
(* update, which may still come while main is exiting.  Without the        *)
(* interface there is nothing to do.                                       *)
FindLink(p) ==
  /\ phase = "running" \/ (phase = "exiting" /\ p = "watch")
  /\ step[p] = "idle"
  /\ p = "watch" => Watching
  /\ link
  /\ stale' = stale \ {p}
  /\ step' = [step EXCEPT ![p] = "lock"]
  /\ UNCHANGED <<link, kernelVars, phase, life, handles, mu, pair, clean, partial, bounds>>

(* Slip: nobody takes attachMu. *)
LockNothing(p) ==
  /\ step[p] = "lock"
  /\ mu' = p
  /\ step' = [step EXCEPT ![p] = "ingress?"]
  /\ UNCHANGED <<linkVars, kernelVars, phase, life, handles, pair, clean, partial, bounds>>

(* reattachIfMissing, for the interface that was looked up before waiting. *)
Lock(p) ==
  /\ step[p] = "lock"
  /\ mu = "free"
  /\ mu' = p
  /\ step' = [step EXCEPT ![p] = "ingress?"]
  /\ UNCHANGED <<linkVars, kernelVars, phase, life, handles, pair, clean, partial, bounds>>

(* Slip: the error path forgets to unlock. *)
AbortLocked(p) ==
  /\ step' = [step EXCEPT ![p] = "idle"]
  /\ phase' = IF phase = "starting" THEN "down" ELSE phase
  /\ UNCHANGED <<life, handles, pair, clean, partial, mu>>

(* attachTC returns an error: retried later, but fatal at startup, where   *)
(* log.Fatalf skips every deferred function.                               *)
Abort(p) ==
  /\ step' = [step EXCEPT ![p] = "idle"]
  /\ phase' = IF phase = "starting" THEN "down" ELSE phase
  /\ mu' = "free"
  /\ UNCHANGED <<life, handles, pair, clean, partial>>

Unlock(p) ==
  /\ step' = [step EXCEPT ![p] = "idle"]
  /\ mu' = "free"

(* Slip: a failed FilterList counts as a missing filter. *)
HasFilterCautious(p, hook, listed) == listed /\ p \notin stale /\ filters[hook] # <<>>

(* hasFilter: by program ID or by name, so a filter of an earlier life     *)
(* will do; an interface that is gone lists none; when the list cannot be  *)
(* had the answer is yes.                                                  *)
HasFilter(p, hook, listed) == listed => p \notin stale /\ filters[hook] # <<>>

(* FilterList, which may fail. *)
ListFilters(listed) ==
  /\ ~listed => listErrors < MaxListErrors
  /\ listErrors' = IF listed THEN listErrors ELSE listErrors + 1

CheckIngress(p) ==
  /\ step[p] = "ingress?"
  /\ \E listed \in BOOLEAN :
       /\ ListFilters(listed)
       /\ step' = [step EXCEPT ![p] = IF HasFilter(p, "ingress", listed) THEN "egress?" ELSE "qdisc"]
  /\ UNCHANGED <<linkVars, kernelVars, phase, life, handles, mu, pair, clean, partial, changes,
                 addErrors>>

CheckEgress(p) ==
  /\ step[p] = "egress?"
  /\ \E listed \in BOOLEAN :
       /\ ListFilters(listed)
       /\ IF HasFilter(p, "egress", listed)
          THEN Unlock(p)
          ELSE step' = [step EXCEPT ![p] = "qdisc"] /\ UNCHANGED mu
  /\ UNCHANGED <<linkVars, kernelVars, phase, life, handles, pair, clean, partial, changes,
                 addErrors>>

(* Slip: the timestamp is not cut to 16 bits. *)
AddQdiscWide(p) ==
  /\ step[p] = "qdisc"
  /\ qdisc' = TRUE
  /\ \E h \in Handles \cup {Max(Handles) + 1} :
       handles' = [handles EXCEPT ![p] = [hook \in Hooks |-> h]]
  /\ step' = [step EXCEPT ![p] = "ingress"]
  /\ UNCHANGED <<linkVars, filters, phase, life, mu, pair, clean, partial, bounds>>

(* attachTC: QdiscAdd, whose error is only logged, then the handles of the *)
(* second in which this happens.                                           *)
AddQdisc(p) ==
  /\ step[p] = "qdisc"
  /\ \/ p \notin stale /\ qdisc' = TRUE /\ UNCHANGED addErrors
     \/ p \in stale /\ UNCHANGED <<qdisc, addErrors>>
     \/ /\ addErrors < MaxAddErrors
        /\ addErrors' = addErrors + 1
        /\ UNCHANGED qdisc
  /\ \E h \in Handles : handles' = [handles EXCEPT ![p] = [hook \in Hooks |-> h]]
  /\ step' = [step EXCEPT ![p] = "ingress"]
  /\ UNCHANGED <<linkVars, filters, phase, life, mu, pair, clean, partial, changes, listErrors>>

-----------------------------------------------------------------------------
Conflict(hook, h) == \E i \in DOMAIN filters[hook] : filters[hook][i].h = h

Prepend(hook, h) ==
  filters' = [filters EXCEPT ![hook] = <<[owner |-> life, h |-> h]>> \o @]

AfterAdding(p, hook) ==
  step' = [step EXCEPT ![p] = IF hook = "ingress" THEN "egress" ELSE "publish"]

(* FilterAdd succeeds. *)
AddFilter(p, hook) ==
  /\ step[p] = hook
  /\ p \notin stale /\ qdisc /\ ~Conflict(hook, handles[p][hook])
  /\ Prepend(hook, handles[p][hook])
  /\ AfterAdding(p, hook)
  /\ UNCHANGED <<linkVars, qdisc, phase, life, handles, mu, pair, clean, partial, bounds>>

(* FilterAdd fails for no visible reason and succeeds with handle 0. *)
AddFilterWithoutHandle(p, hook) ==
  /\ step[p] = hook
  /\ p \notin stale /\ qdisc /\ addErrors < MaxAddErrors
  /\ addErrors' = addErrors + 1
  /\ handles' = [handles EXCEPT ![p][hook] = 0]
  /\ Prepend(hook, 0)
  /\ AfterAdding(p, hook)
  /\ UNCHANGED <<linkVars, qdisc, phase, life, mu, pair, clean, partial, changes, listErrors>>

(* Both attempts fail: the qdisc or the interface is gone, or no visible   *)
(* reason.                                                                 *)
AddFilterFails(p, hook) ==
  /\ step[p] = hook
  /\ \/ (~qdisc \/ p \in stale) /\ UNCHANGED addErrors
     \/ qdisc /\ addErrors < MaxAddErrors /\ addErrors' = addErrors + 1
  /\ Abort(p)
  /\ UNCHANGED <<linkVars, kernelVars, changes, listErrors>>

(* "file exists": cleanupExistingFilters lists filters of no interface and *)
(* deletes handles nobody uses, so it ends up deleting the qdisc; with it  *)
(* gone, or still there when tc fails too, the second FilterAdd fails.     *)
AddFilterConflicts(p, hook) ==
  /\ step[p] = hook
  /\ p \notin stale /\ qdisc /\ Conflict(hook, handles[p][hook])
  /\ \/ qdisc' = FALSE /\ filters' = Nothing /\ UNCHANGED addErrors
     \/ /\ addErrors < MaxAddErrors
        /\ addErrors' = addErrors + 1
        /\ UNCHANGED kernelVars
  /\ Abort(p)
  /\ UNCHANGED <<linkVars, changes, listErrors>>

(* x takes over the interface index that y has. *)
StaleAs(x, y) == IF y \in stale THEN stale \cup {x} ELSE stale \ {x}

(* Slip: the pair attached at startup is remembered for good. *)
PublishOnce(p) ==
  /\ step[p] = "publish"
  /\ pair' = IF phase = "starting" THEN handles[p] ELSE pair
  /\ stale' = IF phase = "starting" THEN StaleAs("pair", p) ELSE stale
  /\ phase' = IF phase = "starting" THEN "running" ELSE phase
  /\ Unlock(p)
  /\ UNCHANGED <<link, kernelVars, life, handles, clean, partial, bounds>>

(* Both filters are in: filterIngress and filterEgress are set. *)
Publish(p) ==
  /\ step[p] = "publish"
  /\ pair' = handles[p]
  /\ stale' = StaleAs("pair", p)
  /\ phase' = IF phase = "starting" THEN "running" ELSE phase
  /\ Unlock(p)
  /\ UNCHANGED <<link, kernelVars, life, handles, clean, partial, bounds>>

Attach(p) ==
  \/ CheckIngress(p) \/ CheckEgress(p) \/ AddQdisc(p) \/ Publish(p)
  \/ \E hook \in Hooks :
       \/ AddFilter(p, hook) \/ AddFilterWithoutHandle(p, hook)
       \/ AddFilterFails(p, hook) \/ AddFilterConflicts(p, hook)

-----------------------------------------------------------------------------
(* SIGTERM, seen between two ticks: the cleanup reads the pair ... *)
Terminate ==
  /\ phase = "running" /\ step["main"] = "idle"
  /\ phase' = "exiting"
  /\ step' = [step EXCEPT !["main"] = "delete ingress"]
  /\ handles' = [handles EXCEPT !["main"] = pair]
  /\ stale' = StaleAs("main", "pair")
  /\ UNCHANGED <<link, kernelVars, life, mu, pair, clean, partial, bounds>>

(* ... and deletes its two filters, if they are of this interface; handle  *)
(* 0 stands for every filter of the hook's priority.                       *)
Delete(hook, h) ==
  LET old == filters[hook]
      at == CHOOSE i \in DOMAIN old : old[i].h = h
  IN  IF "main" \in stale
      THEN UNCHANGED filters
      ELSE filters' = [filters EXCEPT ![hook] =
             IF h = 0 THEN <<>> ELSE IF Conflict(hook, h) THEN RemoveAt(old, at) ELSE old]

DeleteIngress ==
  /\ step["main"] = "delete ingress"
  /\ Delete("ingress", handles["main"]["ingress"])
  /\ step' = [step EXCEPT !["main"] = "delete egress"]
  /\ UNCHANGED <<linkVars, qdisc, phase, life, handles, mu, pair, clean, partial, bounds>>

(* The process is gone, and with it the watcher, wherever it was. *)
Exit(cleanly) ==
  /\ phase' = "down"
  /\ step' = Idle
  /\ mu' = "free"
  /\ handles' = [p \in Attachers |-> NoPair]
  /\ pair' = NoPair
  /\ stale' = {}
  /\ clean' = cleanly
  /\ UNCHANGED <<link, qdisc, life, partial, bounds>>

DeleteEgress ==
  /\ step["main"] = "delete egress"
  /\ Delete("egress", handles["main"]["egress"])
  /\ Exit(TRUE)

Crash ==
  /\ phase # "down" /\ life < MaxLives
  /\ Exit(FALSE)
  /\ UNCHANGED filters

(* The service manager starts the daemon again, and the new process looks  *)
(* the interface up itself; cleanupExistingFilters has an effect only when *)
(* it is forced: the qdisc goes, if tc lets it.  A start without the       *)
(* interface is fatal at once.                                             *)
Restart ==
  /\ phase = "down" /\ life < MaxLives
  /\ link
  /\ stale' = {}
  /\ life' = life + 1
  /\ phase' = "starting"
  /\ step' = [Idle EXCEPT !["main"] = "qdisc"]
  /\ clean' = FALSE
  /\ \/ FALSE \in ForceCleanup /\ UNCHANGED <<kernelVars, addErrors>>
     \/ TRUE \in ForceCleanup /\ qdisc' = FALSE /\ filters' = Nothing /\ UNCHANGED addErrors
     \/ /\ TRUE \in ForceCleanup /\ addErrors < MaxAddErrors
        /\ addErrors' = addErrors + 1
        /\ UNCHANGED kernelVars
  /\ UNCHANGED <<link, handles, mu, pair, partial, changes, listErrors>>

(* tc qdisc del dev ... clsact, alone or with a tc qdisc add that follows: *)
(* what a router's config commit does, and this program's -cleanup-only.   *)
WipeQdisc ==
  /\ qdisc /\ changes < MaxChanges
  /\ changes' = changes + 1
  /\ qdisc' \in (IF PartialLoss THEN BOOLEAN ELSE {FALSE})
  /\ filters' = Nothing
  /\ partial' = (partial \/ qdisc')
  /\ UNCHANGED <<linkVars, phase, life, step, handles, mu, pair, clean, listErrors, addErrors>>

(* tc filter del dev ... ingress or egress. *)
FlushHook(hook) ==
  /\ PartialLoss /\ filters[hook] # <<>> /\ changes < MaxChanges
  /\ changes' = changes + 1
  /\ filters' = [filters EXCEPT ![hook] = <<>>]
  /\ partial' = TRUE
  /\ UNCHANGED <<linkVars, qdisc, phase, life, step, handles, mu, pair, clean, listErrors,
                 addErrors>>

(* The interface is deleted; *)
RemoveInterface ==
  /\ link /\ changes < MaxChanges
  /\ changes' = changes + 1
  /\ link' = FALSE
  /\ stale' = Holders
  /\ qdisc' = FALSE
  /\ filters' = Nothing
  /\ UNCHANGED <<phase, life, step, handles, mu, pair, clean, partial, listErrors, addErrors>>

(* it comes back, with another index. *)
CreateInterface ==
  /\ ~link
  /\ link' = TRUE
  /\ UNCHANGED <<stale, kernelVars, phase, life, step, handles, mu, pair, clean, partial, bounds>>

Others ==
  \/ WipeQdisc \/ RemoveInterface \/ CreateInterface
  \/ \E hook \in Hooks : FlushHook(hook)

Next ==
  \/ \E p \in Attachers : FindLink(p) \/ Lock(p) \/ Attach(p)
  \/ Terminate \/ DeleteIngress \/ DeleteEgress
  \/ Crash \/ Restart
  \/ Others

Spec == Init /\ [][Next]_vars

(* The ticker fires again and again, a goroutine that waits for the mutex  *)
(* gets it in the end, and none stops in the middle; nobody owes the       *)
(* watcher a link update.                                                  *)
Fairness ==
  /\ WF_vars(FindLink("main"))
  /\ \A p \in Attachers : SF_vars(Lock(p)) /\ WF_vars(Attach(p))
  /\ WF_vars(DeleteIngress) /\ WF_vars(DeleteEgress)
  /\ WF_vars(Restart)

FairSpec == Spec /\ Fairness

-----------------------------------------------------------------------------
Own(hook) == {i \in DOMAIN filters[hook] : filters[hook][i].owner = life}

Steps == {"idle", "lock", "ingress?", "egress?", "qdisc", "ingress", "egress", "publish",
          "delete ingress", "delete egress"}

(* The variables hold what the program can hold; handles fit 16 bits. *)
TypeOK ==
  /\ link \in BOOLEAN /\ stale \subseteq Holders
  /\ qdisc \in BOOLEAN
  /\ filters \in [Hooks -> Seq([owner : 1 .. life, h : Handles \cup {0}])]
  /\ ~qdisc => filters = Nothing
  /\ phase \in {"starting", "running", "exiting", "down"}
  /\ life \in 1 .. MaxLives
  /\ step \in [Attachers -> Steps]
  /\ handles \in [Attachers -> [Hooks -> Handles \cup {0}]]
  /\ mu \in Attachers \cup {"free"}
  /\ pair \in [Hooks -> Handles \cup {0}]
  /\ clean \in BOOLEAN /\ partial \in BOOLEAN
  /\ changes \in 0 .. MaxChanges
  /\ listErrors \in 0 .. MaxListErrors
  /\ addErrors \in 0 .. MaxAddErrors

(* Main and the watcher are never both between the check and the result of *)
(* reattachIfMissing.                                                      *)
Attaching(p) == step[p] \notin {"idle", "lock", "delete ingress", "delete egress"}
OneAttacher == ~(Attaching("main") /\ Attaching("watch"))

(* A running daemon never stacks a second filter of its own on a hook ... *)
NoDuplicates ==
  phase = "running" => \A hook \in Hooks : \A i, j \in Own(hook) : i = j

(* ... as long as its filters are lost with the qdisc or the interface and *)
(* no call fails that should work: failing lists, losses in the middle of  *)
(* an attachment, leftovers of an earlier life and a watcher at work do    *)
(* not matter.                                                             *)
WholeLosses == ~partial /\ addErrors = 0
NoDuplicatesAfterWipes == WholeLosses => NoDuplicates

(* Under the same proviso the pair that the cleanup at exit will delete is *)
(* the one that is attached, however often it was replaced and by whom.    *)
PairIsCurrent ==
  (WholeLosses /\ phase = "running" /\ ~Attaching("main") /\ ~Attaching("watch"))
    => \A hook \in Hooks : \A i \in Own(hook) : filters[hook][i].h = pair[hook]

(* After an orderly exit none of its filters is left. *)
CleanExit == (phase = "down" /\ clean) => \A hook \in Hooks : Own(hook) = {}

(* Both hooks are served by the running daemon. *)
Collecting == \A hook \in Hooks : 1 \in Own(hook)

(* When the others leave the interface alone, a running daemon ends up     *)
(* counting the traffic of both directions, and stays so.                  *)
EventuallyCollecting == <>[](phase = "running" /\ link => Collecting)
=============================================================================
