------------------------------ MODULE Exporter ------------------------------
(***************************************************************************)
(* What becomes of the rates of a pass: processMap selects lines for       *)
(* Graphite, for InfluxDB and for the display, and starts a goroutine per  *)
(* batch.  The Graphite goroutines share one TCP connection under a mutex, *)
(* open it when there is none and drop it when a write fails; a batch that *)
(* is not written is lost.  The exit path closes the connection without    *)
(* the mutex.                                                              *)
(*                                                                         *)
(* A pass has one row here, the rates of a flow or of an address: rows are *)
(* selected independently of each other.  All three outputs are enabled.   *)
(***************************************************************************)
EXTENDS Naturals, FiniteSets

CONSTANTS
  Rates,       \* the values of a rate, 0 among them
  Min,         \* MinFlowPps, MinFlowMbps, MinIPsPps, MinIPsMbps; 0 = no limit
  Batches,     \* bound: batches in flight per backend
  NoBatch,     \* the mutex is free
  Conns,       \* TCP connections
  NoConn,      \* nil
  NoRow,       \* there is no pass under way
  MaxFaults    \* bound: faults of the Graphite server

Kinds == {"flow", "ip"}
Units == {"pps", "mbps"}
Dirs == {"rx", "tx"}
Rows == [kind : Kinds, rates : [Units -> [Dirs -> Rates]]]
Series == Units \X Dirs

ASSUME RatesAssumption == Rates \subseteq Nat
ASSUME MinAssumption == Min \in [Kinds -> [Units -> Nat]]
ASSUME NullAssumption == NoBatch \notin Batches /\ NoConn \notin Conns /\ NoRow \notin Rows
ASSUME FaultsAssumption == MaxFaults \in Nat

VARIABLES
  pc,          \* what main does: waits, or where it is in processMap or exit
  row,         \* the rates of this pass
  lines,       \* the series it has put into batches so far
  atExit,      \* what the exit path has read from graphiteConn
  sender,      \* the goroutines in sendGraphiteBatch: "waiting" for the mutex, ...
  graphiteMu,  \* who holds the mutex
  graphiteConn,
  sock,        \* the sockets: "none" once we closed them, "half" when the peer
               \* has closed and we do not know, "dead" when a write will fail
  server,      \* Graphite: "up", "down", or "hung": alive but not reading
  faults,
  post         \* the goroutines in sendInfluxBatch

mainVars == <<pc, row, lines, atExit>>
graphiteVars == <<sender, graphiteMu, graphiteConn, sock>>
vars == <<mainVars, graphiteVars, server, faults, post>>

-----------------------------------------------------------------------------
Total(r, u) == r.rates[u]["rx"] + r.rates[u]["tx"]

(* meetsFlowThresholds and meetsIPThresholds: something moved, and both    *)
(* totals reach their minimum, if there is one.                            *)
Meets(r) ==
  /\ \E u \in Units : Total(r, u) # 0
  /\ \A u \in Units : Min[r.kind][u] = 0 \/ Total(r, u) >= Min[r.kind][u]

(* Within such a row each direction has to reach the minimum by itself. *)
GraphiteLines(r) ==
  {s \in Series :
     LET rate == r.rates[s[1]][s[2]]
         min == Min[r.kind][s[1]]
     IN  Meets(r) /\ rate > 0 /\ (min = 0 \/ rate >= min)}

(* Slip: the test of the single direction is left out. *)
InfluxLinesByTotal(r) == {s \in Series : Meets(r) /\ r.rates[s[1]][s[2]] > 0}

InfluxLines(r) ==
  {s \in Series :
     LET rate == r.rates[s[1]][s[2]]
         min == Min[r.kind][s[1]]
     IN  Meets(r) /\ rate > 0 /\ (min = 0 \/ rate >= min)}

Displayed(r) == Meets(r)

-----------------------------------------------------------------------------
NoLines == [graphite |-> {}, influx |-> {}]

Init ==
  /\ pc = "idle"
  /\ row = NoRow
  /\ lines = NoLines
  /\ atExit = NoConn
  /\ sender = [b \in Batches |-> "free"]
  /\ graphiteMu = NoBatch
  /\ graphiteConn = NoConn
  /\ sock = [c \in Conns |-> "none"]
  /\ server \in {"up", "down"}
  /\ faults = 0
  /\ post = [b \in Batches |-> "free"]

(* A tick: the collector's pass ends with this row. *)
Tick ==
  /\ pc = "idle"
  /\ \E b \in Batches : sender[b] = "free"
  /\ \E b \in Batches : post[b] = "free"
  /\ row' \in Rows
  /\ pc' = "graphite"
  /\ UNCHANGED <<lines, atExit, graphiteVars, server, faults, post>>

(* go sendGraphiteBatch, unless there is nothing to send. *)
StartGraphite(b) ==
  /\ pc = "graphite"
  /\ GraphiteLines(row) # {}
  /\ sender[b] = "free"
  /\ sender' = [sender EXCEPT ![b] = "waiting"]
  /\ lines' = [lines EXCEPT !.graphite = GraphiteLines(row)]
  /\ pc' = "influx"
  /\ UNCHANGED <<row, atExit, graphiteMu, graphiteConn, sock, server, faults, post>>

NoGraphite ==
  /\ pc = "graphite"
  /\ GraphiteLines(row) = {}
  /\ pc' = "influx"
  /\ UNCHANGED <<row, lines, atExit, graphiteVars, server, faults, post>>

StartInflux(b) ==
  /\ pc = "influx"
  /\ InfluxLines(row) # {}
  /\ post[b] = "free"
  /\ post' = [post EXCEPT ![b] = "posting"]
  /\ lines' = [lines EXCEPT !.influx = InfluxLines(row)]
  /\ pc' = "display"
  /\ UNCHANGED <<row, atExit, graphiteVars, server, faults>>

NoInflux ==
  /\ pc = "influx"
  /\ InfluxLines(row) = {}
  /\ pc' = "display"
  /\ UNCHANGED <<row, lines, atExit, graphiteVars, server, faults, post>>

(* generateDisplayMetrics prints, and the pass is over. *)
Display ==
  /\ pc = "display"
  /\ pc' = "idle"
  /\ row' = NoRow
  /\ lines' = NoLines
  /\ UNCHANGED <<atExit, graphiteVars, server, faults, post>>

-----------------------------------------------------------------------------
(* Slip: no mutex. *)
LockNothing(b) ==
  /\ sender[b] = "waiting"
  /\ sender' = [sender EXCEPT ![b] = "check"]
  /\ UNCHANGED <<mainVars, graphiteMu, graphiteConn, sock, server, faults, post>>

Lock(b) ==
  /\ sender[b] = "waiting"
  /\ graphiteMu = NoBatch
  /\ graphiteMu' = b
  /\ sender' = [sender EXCEPT ![b] = "check"]
  /\ UNCHANGED <<mainVars, graphiteConn, sock, server, faults, post>>

Check(b) ==
  /\ sender[b] = "check"
  /\ sender' = [sender EXCEPT ![b] = IF graphiteConn = NoConn THEN "dial" ELSE "write"]
  /\ UNCHANGED <<mainVars, graphiteMu, graphiteConn, sock, server, faults, post>>

(* Slip: an early return that does not unlock. *)
ReturnLocked(b) ==
  /\ graphiteMu' = IF sender[b] = "dial" THEN graphiteMu ELSE NoBatch
  /\ sender' = [sender EXCEPT ![b] = "free"]

(* The goroutine ends, with the deferred unlock. *)
Return(b) ==
  /\ graphiteMu' = NoBatch
  /\ sender' = [sender EXCEPT ![b] = "free"]

(* net.Dial.  A server that does not read still has its backlog. *)
DialSucceeds(b, c) ==
  /\ sender[b] = "dial"
  /\ server # "down"
  /\ sock[c] = "none"
  /\ sock' = [sock EXCEPT ![c] = "open"]
  /\ graphiteConn' = c
  /\ sender' = [sender EXCEPT ![b] = "write"]
  /\ UNCHANGED <<mainVars, graphiteMu, server, faults, post>>

(* Slip: the result is stored before the error is looked at. *)
DialFailsStored(b) ==
  /\ sender[b] = "dial"
  /\ server # "up"
  /\ graphiteConn' = "failed"
  /\ Return(b)
  /\ UNCHANGED <<mainVars, sock, server, faults, post>>

DialFails(b) ==
  /\ sender[b] = "dial"
  /\ server # "up"
  /\ Return(b)
  /\ UNCHANGED <<mainVars, graphiteConn, sock, server, faults, post>>

Peer == IF graphiteConn = NoConn THEN "none" ELSE sock[graphiteConn]

(* Slip: a connection per batch. *)
WriteReachesOnce(b) ==
  /\ sender[b] = "write"
  /\ Peer = "open" /\ server = "up"
  /\ Return(b)
  /\ sock' = [sock EXCEPT ![graphiteConn] = "none"]
  /\ graphiteConn' = NoConn
  /\ UNCHANGED <<mainVars, server, faults, post>>

(* conn.Write.  The batch reaches a server that reads, *)
WriteReaches(b) ==
  /\ sender[b] = "write"
  /\ Peer = "open" /\ server = "up"
  /\ Return(b)
  /\ UNCHANGED <<mainVars, graphiteConn, sock, server, faults, post>>

(* or stays in the buffers of one that does not, if they have room. *)
WriteBuffered(b) ==
  /\ sender[b] = "write"
  /\ Peer = "open" /\ server = "hung"
  /\ Return(b)
  /\ UNCHANGED <<mainVars, graphiteConn, sock, server, faults, post>>

(* The first write after the peer has closed succeeds; the answer is a reset. *)
WriteLost(b) ==
  /\ sender[b] = "write"
  /\ Peer = "half"
  /\ sock' = [sock EXCEPT ![graphiteConn] = "dead"]
  /\ Return(b)
  /\ UNCHANGED <<mainVars, graphiteConn, server, faults, post>>

(* Slip: the connection is closed and not forgotten. *)
WriteFailsKeeps(b) ==
  /\ sender[b] = "write"
  /\ Peer \in {"dead", "none"}
  /\ sock' = [sock EXCEPT ![graphiteConn] = "none"]
  /\ Return(b)
  /\ UNCHANGED <<mainVars, graphiteConn, server, faults, post>>

(* A write on a reset connection, or on one we have closed, fails: the      *)
(* connection is closed and forgotten, the batch dropped.                  *)
WriteFails(b) ==
  /\ sender[b] = "write"
  /\ Peer \in {"dead", "none"}
  /\ sock' = [c \in Conns |-> IF c = graphiteConn THEN "none" ELSE sock[c]]
  /\ graphiteConn' = NoConn
  /\ Return(b)
  /\ UNCHANGED <<mainVars, server, faults, post>>

Send(b) ==
  \/ Check(b)
  \/ (\E c \in Conns : DialSucceeds(b, c)) \/ DialFails(b)
  \/ WriteReaches(b) \/ WriteLost(b) \/ WriteFails(b)

(* http.Post returns, with whatever status or error: nothing depends on it. *)
(* It has no timeout and need never return.                                 *)
PostEnds(b) ==
  /\ post[b] = "posting"
  /\ post' = [post EXCEPT ![b] = "free"]
  /\ UNCHANGED <<mainVars, graphiteVars, server, faults>>

-----------------------------------------------------------------------------
(* The servers. *)

Fault ==
  /\ pc # "exited"
  /\ faults < MaxFaults
  /\ faults' = faults + 1

ServerStops ==
  /\ Fault
  /\ server # "down"
  /\ server' = "down"
  /\ \E end \in {"half", "dead"} :
       sock' = [c \in Conns |-> IF sock[c] \in {"open", "half"} THEN end ELSE sock[c]]
  /\ UNCHANGED <<mainVars, sender, graphiteMu, graphiteConn, post>>

ServerHangs ==
  /\ Fault
  /\ server = "up"
  /\ server' = "hung"
  /\ UNCHANGED <<mainVars, graphiteVars, post>>

(* The server, or something on the way, closes an idle connection. *)
PeerCloses(c) ==
  /\ Fault
  /\ server = "up"
  /\ sock[c] = "open"
  /\ sock' = [sock EXCEPT ![c] = "half"]
  /\ UNCHANGED <<mainVars, sender, graphiteMu, graphiteConn, server, post>>

ServerReady ==
  /\ pc # "exited"
  /\ server # "up"
  /\ server' = "up"
  /\ UNCHANGED <<mainVars, graphiteVars, faults, post>>

-----------------------------------------------------------------------------
(* A signal is taken between two ticks. *)
Terminate ==
  /\ pc = "idle"
  /\ pc' = "exiting"
  /\ UNCHANGED <<row, lines, atExit, graphiteVars, server, faults, post>>

(* The deferred cleanup looks at graphiteConn without graphiteMu, *)
FindConnAtExit ==
  /\ pc = "exiting"
  /\ atExit' = graphiteConn
  /\ pc' = IF graphiteConn = NoConn THEN "closed" ELSE "closing"
  /\ UNCHANGED <<row, lines, graphiteVars, server, faults, post>>

(* Slip: the connection is also forgotten, as in the error path. *)
CloseAtExitAndForget ==
  /\ pc = "closing"
  /\ \E conn \in {atExit, graphiteConn} :
       /\ pc' = IF conn = NoConn THEN "panicked" ELSE "closed"
       /\ sock' = [c \in Conns |-> IF c = conn THEN "none" ELSE sock[c]]
  /\ graphiteConn' = NoConn
  /\ UNCHANGED <<row, lines, atExit, sender, graphiteMu, server, faults, post>>

(* and closes what it has read, or what it reads when it is compiled to    *)
(* read again: another connection, or none, and then it panics.            *)
CloseAtExit ==
  /\ pc = "closing"
  /\ \E conn \in {atExit, graphiteConn} :
       /\ pc' = IF conn = NoConn THEN "panicked" ELSE "closed"
       /\ sock' = [c \in Conns |-> IF c = conn THEN "none" ELSE sock[c]]
  /\ UNCHANGED <<row, lines, atExit, sender, graphiteMu, graphiteConn, server, faults, post>>

(* main returns or dies, and every goroutine and socket goes with the      *)
(* process.                                                                *)
Exit ==
  /\ pc \in {"closed", "panicked"}
  /\ pc' = "exited"
  /\ sender' = [b \in Batches |-> "free"]
  /\ post' = [b \in Batches |-> "free"]
  /\ graphiteMu' = NoBatch
  /\ graphiteConn' = NoConn
  /\ atExit' = NoConn
  /\ sock' = [c \in Conns |-> "none"]
  /\ UNCHANGED <<row, lines, server, faults>>

ProcessMap ==
  \/ \E b \in Batches : StartGraphite(b) \/ StartInflux(b)
  \/ NoGraphite \/ NoInflux \/ Display

Next ==
  \/ Tick \/ ProcessMap
  \/ \E b \in Batches : Lock(b) \/ Send(b) \/ WriteBuffered(b) \/ PostEnds(b)
  \/ ServerStops \/ ServerHangs \/ ServerReady
  \/ \E c \in Conns : PeerCloses(c)
  \/ Terminate \/ FindConnAtExit \/ CloseAtExit \/ Exit

Spec == Init /\ [][Next]_vars

(* main goes on with a pass; a goroutine goes on unless the network keeps   *)
(* it, and sync.Mutex hands the lock to every waiter in the end.           *)
Fairness ==
  /\ WF_vars(ProcessMap)
  /\ \A b \in Batches : SF_vars(Lock(b)) /\ WF_vars(Send(b))

FairSpec == Spec /\ Fairness

-----------------------------------------------------------------------------
TypeOK ==
  /\ pc \in {"idle", "graphite", "influx", "display", "exiting", "closing", "closed",
            "panicked", "exited"}
  /\ row \in Rows \cup {NoRow}
  /\ pc \in {"graphite", "influx", "display"} => row \in Rows
  /\ atExit \in Conns \cup {NoConn}
  /\ lines \in [graphite : SUBSET Series, influx : SUBSET Series]
  /\ sender \in [Batches -> {"free", "waiting", "check", "dial", "write"}]
  /\ graphiteMu \in Batches \cup {NoBatch}
  /\ graphiteConn \in Conns \cup {NoConn}
  /\ sock \in [Conns -> {"none", "open", "half", "dead"}]
  /\ server \in {"up", "down", "hung"}
  /\ faults \in 0 .. MaxFaults
  /\ post \in [Batches -> {"free", "posting"}]

(* The three outputs agree.  Both backends get the same series of a pass,  *)
(* of nothing that the display does not show; what is above every minimum  *)
(* is exported, what is below its own is not; and a row that is shown and  *)
(* exports nothing has no direction above its minimum: only the sum of the *)
(* two reaches it.  Nothing is said of a rate at the minimum itself, but   *)
(* that the outputs treat it alike: the code exports it, where README.md   *)
(* (lines 74 and 75) says "> 10 PPS".                                      *)
ExportsAgree ==
  pc = "display" =>
    LET rate(s) == row.rates[s[1]][s[2]]
        min(s) == Min[row.kind][s[1]]
    IN  /\ lines.graphite = lines.influx
        /\ lines.graphite # {} => Displayed(row)
        /\ (\A u \in Units : Total(row, u) > Min[row.kind][u] \/ Min[row.kind][u] = 0) =>
             \A s \in Series : rate(s) > min(s) => s \in lines.graphite
        /\ \A s \in lines.graphite : rate(s) > 0 /\ rate(s) >= min(s)
        /\ Displayed(row) /\ lines.graphite = {} => \A s \in Series : rate(s) <= min(s)

(* However writes fail, servers come and go and the exit path interferes,   *)
(* no connection is left open but the current one.                          *)
OneConnection == \A c \in Conns : sock[c] # "none" => c = graphiteConn

(* A sender that has found or made a connection still has one when it       *)
(* writes: nobody takes graphiteConn away under it, not even at exit.       *)
NoNilWrite == \A b \in Batches : sender[b] = "write" => graphiteConn # NoConn

(* The exit path's two unlocked looks at graphiteConn differ, and it        *)
(* crashes, only after a fault of the server or of a connection: a sender   *)
(* that meets none leaves the connection in place.                          *)
CrashNeedsFault == pc = "panicked" => faults > 0

(* Unless the server stops reading for good, every batch's goroutine ends:  *)
(* they do not pile up behind the mutex.                                    *)
SendersEnd ==
  <>[](server # "hung") =>
    \A b \in Batches : (sender[b] = "waiting") ~> (sender[b] = "free")

(* When the server is back for good, batches reach it again, for as long as *)
(* there are any: a dead connection costs batches but does not stay.        *)
DeliveryResumes ==
  (<>[](server = "up") /\ []<>(\E b \in Batches : sender[b] = "waiting"))
    => []<><<\E b \in Batches : WriteReaches(b)>>_vars
=============================================================================
