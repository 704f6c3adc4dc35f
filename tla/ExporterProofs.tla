--------------------------- MODULE ExporterProofs ---------------------------
(***************************************************************************)
(* Theorems about Exporter, for any number of batches, connections and     *)
(* faults, any rates and any minimums.                                     *)
(*                                                                         *)
(* OneConnection and NoNilWrite rest on the mutex: SenderInv says that a   *)
(* goroutine past Lock holds it, and that graphiteConn is nil for as long  *)
(* as one dials.  The exit path respects none of this, but it only closes  *)
(* the connection and leaves graphiteConn as it is.  FaultInv follows a    *)
(* fault to the nil pointer that the exit path may meet.                   *)
(***************************************************************************)
EXTENDS Exporter, TLAPS

SenderInv ==
  /\ \A b \in Batches : sender[b] \in {"check", "dial", "write"} => graphiteMu = b
  /\ \A b \in Batches : sender[b] = "dial" => graphiteConn = NoConn
  /\ NoNilWrite
  /\ OneConnection

(* The batches of the pass under way. *)
LinesInv ==
  /\ pc \notin {"influx", "display"} => lines = NoLines
  /\ pc \in {"influx", "display"} => lines.graphite = GraphiteLines(row)
  /\ pc = "influx" => lines.influx = {}
  /\ pc = "display" => lines.influx = InfluxLines(row)

LEMMA LinesType ==
  ASSUME NEW r
  PROVE  GraphiteLines(r) \in SUBSET Series /\ InfluxLines(r) \in SUBSET Series
BY DEF GraphiteLines, InfluxLines

(* The variables hold what the daemon can hold, through faults and exit. *)
THEOREM TypeCorrect == Spec => []TypeOK
<1>1. Init => TypeOK
  BY FaultsAssumption DEF Init, TypeOK, NoLines
<1>2. TypeOK /\ [Next]_vars => TypeOK'
  <2> SUFFICES ASSUME TypeOK, [Next]_vars PROVE TypeOK'
    OBVIOUS
  <2> USE DEF TypeOK, graphiteVars, mainVars
  <2>1. CASE Tick
    BY <2>1 DEF Tick
  <2>2. CASE ProcessMap
    <3>1. ASSUME NEW b \in Batches, StartGraphite(b) PROVE TypeOK'
      BY <3>1, LinesType DEF StartGraphite
    <3>2. ASSUME NEW b \in Batches, StartInflux(b) PROVE TypeOK'
      BY <3>2, LinesType DEF StartInflux
    <3>3. ASSUME NoGraphite \/ NoInflux \/ Display PROVE TypeOK'
      BY <3>3 DEF NoGraphite, NoInflux, Display, NoLines
    <3> QED  BY <2>2, <3>1, <3>2, <3>3 DEF ProcessMap
  <2>3. ASSUME NEW b \in Batches, Lock(b) \/ Check(b) \/ PostEnds(b) PROVE TypeOK'
    BY <2>3 DEF Lock, Check, PostEnds
  <2>4. ASSUME NEW b \in Batches, NEW c \in Conns, DialSucceeds(b, c) PROVE TypeOK'
    BY <2>4 DEF DialSucceeds
  <2>5. ASSUME NEW b \in Batches,
               DialFails(b) \/ WriteReaches(b) \/ WriteBuffered(b) \/ WriteLost(b) \/ WriteFails(b)
        PROVE  TypeOK'
    BY <2>5 DEF DialFails, WriteReaches, WriteBuffered, WriteLost, WriteFails, Return
  <2>6. CASE ServerStops
    BY <2>6, FaultsAssumption DEF ServerStops, Fault
  <2>7. CASE ServerHangs \/ ServerReady
    BY <2>7, FaultsAssumption DEF ServerHangs, ServerReady, Fault
  <2>8. ASSUME NEW c \in Conns, PeerCloses(c) PROVE TypeOK'
    BY <2>8, FaultsAssumption DEF PeerCloses, Fault
  <2>9. CASE Terminate \/ FindConnAtExit \/ CloseAtExit \/ Exit
    BY <2>9 DEF Terminate, FindConnAtExit, CloseAtExit, Exit
  <2>10. CASE UNCHANGED vars
    BY <2>10 DEF vars
  <2> QED  BY <2>1, <2>2, <2>3, <2>4, <2>5, <2>6, <2>7, <2>8, <2>9, <2>10 DEF Next, Send
<1> QED  BY <1>1, <1>2, PTL DEF Spec

LEMMA SenderInvHolds == Spec => []SenderInv
<1>1. Init => SenderInv
  BY DEF Init, SenderInv, NoNilWrite, OneConnection
<1>2. TypeOK /\ SenderInv /\ [Next]_vars => SenderInv'
  <2> SUFFICES ASSUME TypeOK, SenderInv, [Next]_vars PROVE SenderInv'
    OBVIOUS
  <2> USE DEF TypeOK, SenderInv, NoNilWrite, OneConnection, graphiteVars, mainVars
  <2> USE NullAssumption
  <2>1. CASE Tick
    BY <2>1 DEF Tick
  <2>2. CASE ProcessMap
    BY <2>2 DEF ProcessMap, StartGraphite, StartInflux, NoGraphite, NoInflux, Display
  <2>3. ASSUME NEW b \in Batches, Lock(b) \/ Check(b) \/ PostEnds(b) PROVE SenderInv'
    BY <2>3 DEF Lock, Check, PostEnds
  <2>4. ASSUME NEW b \in Batches, NEW c \in Conns, DialSucceeds(b, c) PROVE SenderInv'
    BY <2>4 DEF DialSucceeds
  <2>5. ASSUME NEW b \in Batches,
               DialFails(b) \/ WriteReaches(b) \/ WriteBuffered(b) \/ WriteLost(b)
        PROVE  SenderInv'
    BY <2>5 DEF DialFails, WriteReaches, WriteBuffered, WriteLost, Return, Peer
  <2>6. ASSUME NEW b \in Batches, WriteFails(b) PROVE SenderInv'
    BY <2>6 DEF WriteFails, Return
  <2>7. CASE ServerStops
    BY <2>7 DEF ServerStops
  <2>8. CASE ServerHangs \/ ServerReady
    BY <2>8 DEF ServerHangs, ServerReady
  <2>9. ASSUME NEW c \in Conns, PeerCloses(c) PROVE SenderInv'
    BY <2>9 DEF PeerCloses
  <2>10. CASE Terminate \/ FindConnAtExit \/ CloseAtExit \/ Exit
    BY <2>10 DEF Terminate, FindConnAtExit, CloseAtExit, Exit
  <2>11. CASE UNCHANGED vars
    BY <2>11 DEF vars
  <2> QED  BY <2>1, <2>2, <2>3, <2>4, <2>5, <2>6, <2>7, <2>8, <2>9, <2>10, <2>11 DEF Next, Send
<1> QED  BY <1>1, <1>2, TypeCorrect, PTL DEF Spec

(* sendGraphiteBatch leaks no connection, whatever fails and whoever closes. *)
THEOREM NoConnectionLeaks == Spec => []OneConnection
BY SenderInvHolds, PTL DEF SenderInv

(* graphiteConn is never nil where a sender writes, at exit included. *)
THEOREM ConnectionStays == Spec => []NoNilWrite
BY SenderInvHolds, PTL DEF SenderInv

(* Where a fault has left its traces: only a socket that the peer has      *)
(* closed makes a write fail, and only a failed write resets graphiteConn. *)
FaultInv ==
  /\ \A c \in Conns : sock[c] \in {"half", "dead"} => faults > 0
  /\ pc \notin {"closed", "panicked", "exited"} /\ graphiteConn # NoConn
       => sock[graphiteConn] # "none"
  /\ pc = "closing" => atExit # NoConn /\ (graphiteConn # NoConn \/ faults > 0)
  /\ CrashNeedsFault

(* The exit path meets nil only after a fault, however it interleaves with  *)
(* any number of senders.                                                   *)
THEOREM CrashAtExitNeedsFault == Spec => []CrashNeedsFault
<1>1. Init => FaultInv
  BY DEF Init, FaultInv, CrashNeedsFault
<1>2. TypeOK /\ SenderInv /\ FaultInv /\ [Next]_vars => FaultInv'
  <2> SUFFICES ASSUME TypeOK, SenderInv, FaultInv, [Next]_vars PROVE FaultInv'
    OBVIOUS
  <2>1. /\ faults \in Nat /\ graphiteConn \in Conns \cup {NoConn} /\ atExit \in Conns \cup {NoConn}
        /\ sock \in [Conns -> {"none", "open", "half", "dead"}] /\ NoConn \notin Conns
    BY FaultsAssumption, NullAssumption DEF TypeOK
  <2> USE DEF FaultInv, CrashNeedsFault, graphiteVars, mainVars
  <2>2. CASE Tick
    BY <2>2 DEF Tick
  <2>3. CASE ProcessMap
    BY <2>3 DEF ProcessMap, StartGraphite, StartInflux, NoGraphite, NoInflux, Display
  <2>4. ASSUME NEW b \in Batches, Lock(b) \/ Check(b) \/ PostEnds(b) PROVE FaultInv'
    BY <2>4 DEF Lock, Check, PostEnds
  <2>5. ASSUME NEW b \in Batches, NEW c \in Conns, DialSucceeds(b, c) PROVE FaultInv'
    BY <2>1, <2>5 DEF DialSucceeds
  <2>6. ASSUME NEW b \in Batches, DialFails(b) \/ WriteReaches(b) \/ WriteBuffered(b)
        PROVE  FaultInv'
    BY <2>6 DEF DialFails, WriteReaches, WriteBuffered, Return
  <2>7. ASSUME NEW b \in Batches, WriteLost(b) PROVE FaultInv'
    <3>1. graphiteConn \in Conns /\ sock[graphiteConn] = "half" /\ faults > 0
      BY <2>1, <2>7 DEF WriteLost, Peer
    <3> QED  BY <2>1, <2>7, <3>1 DEF WriteLost, Return
  <2>8. ASSUME NEW b \in Batches, WriteFails(b) PROVE FaultInv'
    <3>1. graphiteConn # NoConn
      BY <2>8 DEF WriteFails, SenderInv, NoNilWrite
    <3>2. pc = "closing" => faults > 0
      BY <2>1, <2>8, <3>1 DEF WriteFails, Peer
    <3> QED  BY <2>1, <2>8, <3>2 DEF WriteFails, Return
  <2>9. CASE ServerStops
    BY <2>1, <2>9 DEF ServerStops, Fault
  <2>10. CASE ServerHangs \/ ServerReady
    BY <2>1, <2>10 DEF ServerHangs, ServerReady, Fault
  <2>11. ASSUME NEW c \in Conns, PeerCloses(c) PROVE FaultInv'
    BY <2>1, <2>11 DEF PeerCloses, Fault
  <2>12. CASE Terminate \/ FindConnAtExit
    BY <2>12 DEF Terminate, FindConnAtExit
  <2>13. CASE CloseAtExit
    <3>1. PICK conn \in {atExit, graphiteConn} :
            /\ pc' = IF conn = NoConn THEN "panicked" ELSE "closed"
            /\ sock' = [c \in Conns |-> IF c = conn THEN "none" ELSE sock[c]]
      BY <2>13 DEF CloseAtExit
    <3>2. conn = NoConn => faults > 0
      BY <2>13, <3>1 DEF CloseAtExit
    <3> QED  BY <2>1, <2>13, <3>1, <3>2 DEF CloseAtExit
  <2>14. CASE Exit
    BY <2>14 DEF Exit
  <2>15. CASE UNCHANGED vars
    BY <2>15 DEF vars
  <2> QED
    BY <2>2, <2>3, <2>4, <2>5, <2>6, <2>7, <2>8, <2>9, <2>10, <2>11, <2>12, <2>13, <2>14, <2>15
    DEF Next, Send
<1>3. FaultInv => CrashNeedsFault
  BY DEF FaultInv
<1> QED  BY <1>1, <1>2, <1>3, TypeCorrect, SenderInvHolds, PTL DEF Spec

(* When a series of a row is selected. *)
LEMMA Selected ==
  ASSUME NEW r \in Rows, NEW s \in Series
  PROVE  /\ r.rates[s[1]][s[2]] \in Nat /\ Min[r.kind][s[1]] \in Nat
         /\ s \in GraphiteLines(r) <=>
              /\ Meets(r)
              /\ r.rates[s[1]][s[2]] > 0
              /\ Min[r.kind][s[1]] = 0 \/ r.rates[s[1]][s[2]] >= Min[r.kind][s[1]]
<1>1. s[1] \in Units /\ s[2] \in Dirs
  BY DEF Series
<1>2. r.rates[s[1]][s[2]] \in Nat /\ Min[r.kind][s[1]] \in Nat
  BY <1>1, RatesAssumption, MinAssumption DEF Rows
<1> QED  BY <1>2 DEF GraphiteLines

(* A direction above zero makes a total that is not. *)
LEMMA TotalCounts ==
  ASSUME NEW r \in Rows, NEW s \in Series, r.rates[s[1]][s[2]] > 0
  PROVE  Total(r, s[1]) # 0
<1>1. s[1] \in Units /\ s[2] \in Dirs
  BY DEF Series
<1>2. \A d \in Dirs : r.rates[s[1]][d] \in Nat
  BY <1>1, RatesAssumption DEF Rows
<1> QED  BY <1>1, <1>2 DEF Total, Dirs

(* A row above every minimum is selected. *)
LEMMA AboveMeets ==
  ASSUME NEW r \in Rows, NEW s \in Series, r.rates[s[1]][s[2]] > 0,
         \A u \in Units : Total(r, u) > Min[r.kind][u] \/ Min[r.kind][u] = 0
  PROVE  Meets(r)
<1>1. \A u \in Units : Total(r, u) \in Nat /\ Min[r.kind][u] \in Nat
  <2> SUFFICES ASSUME NEW u \in Units
               PROVE  Total(r, u) \in Nat /\ Min[r.kind][u] \in Nat
    OBVIOUS
  <2>1. r.rates[u]["rx"] \in Nat /\ r.rates[u]["tx"] \in Nat
    BY RatesAssumption DEF Rows, Dirs
  <2>2. r.kind \in Kinds
    BY DEF Rows
  <2> QED  BY <2>1, <2>2, MinAssumption DEF Total
<1>2. s[1] \in Units /\ Total(r, s[1]) # 0
  BY TotalCounts DEF Series
<1> QED  BY <1>1, <1>2 DEF Meets

(* For any rates and minimums: Graphite and InfluxDB get the same series of *)
(* a pass, all that is above the minimums and nothing below, and the        *)
(* display shows their row.                                                 *)
THEOREM ExportsInAgreement == Spec => []ExportsAgree
<1>1. Init => LinesInv
  BY DEF Init, LinesInv
<1>2. TypeOK /\ LinesInv /\ [Next]_vars => LinesInv'
  <2> SUFFICES ASSUME TypeOK, LinesInv, [Next]_vars PROVE LinesInv'
    OBVIOUS
  <2> USE DEF LinesInv, NoLines
  <2>1. ASSUME UNCHANGED mainVars PROVE LinesInv'
    BY <2>1 DEF mainVars
  <2>2. CASE Tick
    BY <2>2 DEF Tick
  <2>3. CASE ProcessMap
    <3> DEFINE g == GraphiteLines(row)
               i == InfluxLines(row)
    <3>1. ASSUME NEW b \in Batches, StartGraphite(b) PROVE LinesInv'
      <4> HIDE DEF g, i
      <4>1. lines' = [lines EXCEPT !.graphite = g] /\ row' = row /\ pc' = "influx"
        BY <3>1 DEF StartGraphite, g
      <4>2. lines = NoLines
        BY <3>1 DEF StartGraphite
      <4>3. lines' = [graphite |-> g, influx |-> {}]
        BY <4>1, <4>2
      <4>4. lines'.graphite = g /\ lines'.influx = {} /\ GraphiteLines(row)' = g
        BY <4>1, <4>3 DEF GraphiteLines, g, Meets, Total
      <4> QED  BY <4>1, <4>4
    <3>2. ASSUME NEW b \in Batches, StartInflux(b) PROVE LinesInv'
      BY <3>2 DEF StartInflux, TypeOK
    <3>3. ASSUME NoGraphite \/ NoInflux \/ Display PROVE LinesInv'
      BY <3>3 DEF NoGraphite, NoInflux, Display, TypeOK
    <3> QED  BY <2>3, <3>1, <3>2, <3>3 DEF ProcessMap
  <2>4. CASE Terminate \/ FindConnAtExit \/ CloseAtExit \/ Exit
    BY <2>4 DEF Terminate, FindConnAtExit, CloseAtExit, Exit
  <2>5. ASSUME NEW b \in Batches, Lock(b) \/ Send(b) \/ WriteBuffered(b) \/ PostEnds(b)
        PROVE  UNCHANGED mainVars
    BY <2>5 DEF Lock, Send, Check, DialSucceeds, DialFails, WriteReaches, WriteBuffered,
                WriteLost, WriteFails, PostEnds
  <2>6. ASSUME ServerStops \/ ServerHangs \/ ServerReady \/ (\E c \in Conns : PeerCloses(c))
        PROVE  UNCHANGED mainVars
    BY <2>6 DEF ServerStops, ServerHangs, ServerReady, PeerCloses
  <2> QED  BY <2>1, <2>2, <2>3, <2>4, <2>5, <2>6 DEF Next, vars, mainVars
<1>3. TypeOK /\ LinesInv => ExportsAgree
  <2>1. GraphiteLines(row) = InfluxLines(row)
    BY DEF GraphiteLines, InfluxLines
  <2>2. GraphiteLines(row) # {} => Meets(row)
    BY DEF GraphiteLines
  <2>3. SUFFICES ASSUME TypeOK, LinesInv, pc = "display" PROVE ExportsAgree
    BY DEF ExportsAgree
  <2> DEFINE rate(s) == row.rates[s[1]][s[2]]
             min(s) == Min[row.kind][s[1]]
  <2>4. row \in Rows /\ lines.graphite = GraphiteLines(row) /\ lines.influx = InfluxLines(row)
    BY <2>3 DEF TypeOK, LinesInv
  <2>5. \A s \in lines.graphite : s \in Series /\ rate(s) > 0 /\ rate(s) >= min(s)
    <3>1. ASSUME NEW s \in lines.graphite PROVE s \in Series
      BY <2>4, LinesType
    <3> QED  BY <2>4, <3>1, Selected
  <2>6. ASSUME \A u \in Units : Total(row, u) > Min[row.kind][u] \/ Min[row.kind][u] = 0,
               NEW s \in Series, rate(s) > min(s)
        PROVE  s \in lines.graphite
    <3>1. rate(s) \in Nat /\ min(s) \in Nat
      BY <2>4, Selected
    <3>2. Meets(row)
      BY <2>4, <2>6, <3>1, AboveMeets
    <3> QED  BY <2>4, <2>6, <3>1, <3>2, Selected
  <2>7. ASSUME Meets(row), lines.graphite = {}, NEW s \in Series
        PROVE  rate(s) <= min(s)
    <3>1. rate(s) \in Nat /\ min(s) \in Nat
      BY <2>4, Selected
    <3>2. ~(rate(s) > 0 /\ (min(s) = 0 \/ rate(s) >= min(s)))
      BY <2>4, <2>7, Selected
    <3> QED  BY <3>1, <3>2
  <2> QED  BY <2>1, <2>2, <2>3, <2>4, <2>5, <2>6, <2>7 DEF ExportsAgree, Displayed
<1> QED  BY <1>1, <1>2, <1>3, TypeCorrect, PTL DEF Spec
=============================================================================
