------------------------------- MODULE LogProofs -------------------------------
(***************************************************************************)
(* What is proved about the log, for every number of connections and       *)
(* entries and every buffer of a stream, whether or not the name and the   *)
(* first entry are kept separate: the types, that no confirmed entry is    *)
(* lost, the order of the entries of the file, and that the log implements *)
(* its promise.                                                            *)
(***************************************************************************)
EXTENDS LogPipeline, TLAPS

-------------------------------------------------------------------------------
(* The inductive invariant. *)

\* The queue holds the entries pushed last, none left out.
Queued ==
    /\ Len(queue) <= pushed
    /\ \A i \in 1 .. Len(queue) : queue[i] = pushed - Len(queue) + i
    /\ lpc \in {"confirm", "pop"} => queue # <<>>

\* A connection not made yet is untouched.
Fresh ==
    /\ lpc # "connect" => conn \in Ids
    /\ \A k \in Ids :
        /\ wpc[k] = "none" <=> k > conn
        /\ wpc[k] = "none" => inbox[k] = <<>> /\ acks[k] = 0 /\ held[k] = <<>>
    /\ \A i \in DOMAIN writer : writer[i] <= conn

\* At most one entry or its confirmation is under way on a connection, and
\* none when the client is about to send.
OneUnderWay ==
    /\ \A k \in Ids :
        /\ wpc[k] = "name" => acks[k] = 0
        /\ wpc[k] = "confirm" => inbox[k] = <<>> /\ acks[k] = 0
        /\ wpc[k] = "entry" => Len(inbox[k]) + acks[k] <= 1
    /\ lpc = "name" => wpc[conn] \in {"name", "closed"} /\ inbox[conn] = <<>>
    /\ lpc \in {"name", "rest", "pop"} =>
        /\ acks[conn] = 0
        /\ wpc[conn] # "confirm"
        /\ wpc[conn] = "entry" => inbox[conn] = <<>>

IInv == TypeOK /\ Queued /\ Fresh /\ OneUnderWay

\* The entry at the front is recorded from when it is written on: while its
\* confirmation is sent, under way and read.  What is under way is the front.
FrontSafe ==
    /\ lpc = "pop" => Head(queue) \in Recorded
    /\ lpc = "confirm" /\ (acks[conn] > 0 \/ wpc[conn] = "confirm") =>
        Head(queue) \in Recorded
    /\ lpc = "confirm" /\ wpc[conn] = "entry" /\ inbox[conn] # <<>> =>
        Head(inbox[conn]) = Head(queue)

\* The next entry to be sent, whether it has been pushed or not.
AtFront == pushed - Len(queue) + 1

Pending(k) == wpc[k] = "entry" /\ inbox[k] # <<>>

\* What the thread of connection k wrote to the file, and what it holds.
Filed(k) == {file[i] : i \in {j \in DOMAIN file : writer[j] = k}}
Of(k) == Filed(k) \union Range(held[k])

\* What a thread writes and holds is not ahead of the front, and behind it on
\* a connection that is about to send it.
Behind ==
    /\ \A k \in Ids : \A e \in Of(k) : e <= AtFront
    /\ lpc \in {"name", "rest"} => \A e \in Of(conn) : e < AtFront

\* What waits to be read on a connection has its place between what was read
\* on it and earlier ones and what was read and waits on later ones.
InPlace ==
    \A k \in Ids : Pending(k) =>
        /\ Head(inbox[k]) <= AtFront
        /\ \A e \in Of(k) : e < Head(inbox[k])
        /\ \A l \in Ids : \A e \in Of(l) :
            /\ l < k => e <= Head(inbox[k])
            /\ k < l => Head(inbox[k]) <= e
        /\ \A l \in Ids : k < l /\ Pending(l) =>
            Head(inbox[k]) <= Head(inbox[l])

\* What earlier connections wrote or hold is not later than what later ones do.
Across ==
    \A k, l \in Ids : k < l =>
        \A e \in Of(k) : \A f \in Of(l) : e <= f

\* The entries of one connection are in a row, those in the file first.
Ascending(s) == \A i, j \in DOMAIN s : i < j => s[i] < s[j]
After(k, s) == \A e \in Filed(k) : \A j \in DOMAIN s : e < s[j]
InRow ==
    /\ \A i, j \in DOMAIN file :
        writer[i] = writer[j] /\ i < j => file[i] < file[j]
    /\ \A k \in Ids : Ascending(held[k]) /\ After(k, held[k])

Kept == NothingLost /\ FrontSafe
Ordered == Across /\ InRow /\ Behind /\ InPlace

-------------------------------------------------------------------------------
(* Types and what is under way. *)

\* Messages and sequences of them.
LEMMA Sequences ==
    /\ Messages \subseteq Nat /\ Name \in Messages /\ <<>> \in Seq(Messages)
    /\ \A s \in Seq(Messages), e \in Messages : Append(s, e) \in Seq(Messages)
    /\ \A s, t \in Seq(Messages) : s \o t \in Seq(Messages)
    /\ \A s \in Seq(Messages) : s # <<>> =>
        Head(s) \in Messages /\ Tail(s) \in Seq(Messages)
  <1>1. Messages \subseteq Nat /\ Name \in Messages
    BY LogAssumption DEF Messages, Name
  <1>2. <<>> \in Seq(Messages)
    OBVIOUS
  <1>3. ASSUME NEW s \in Seq(Messages), NEW e \in Messages
        PROVE Append(s, e) \in Seq(Messages)
    OBVIOUS
  <1>4. ASSUME NEW s \in Seq(Messages), NEW t \in Seq(Messages)
        PROVE s \o t \in Seq(Messages)
    OBVIOUS
  <1>5. ASSUME NEW s \in Seq(Messages), s # <<>>
        PROVE Head(s) \in Messages /\ Tail(s) \in Seq(Messages)
    BY <1>5
  <1> QED BY <1>1, <1>2, <1>3, <1>4, <1>5

\* The initial state satisfies the inductive invariant.
LEMMA InvInit == Init => IInv
  <1> SUFFICES ASSUME Init PROVE IInv
    OBVIOUS
  <1> USE LogAssumption
  <1>1. TypeOK
    <2>1. /\ inbox \in [Ids -> Seq(Messages)] /\ held \in [Ids -> Seq(Messages)]
          /\ queue \in Seq(Messages) /\ file \in Seq(Messages)
          /\ writer \in Seq(Ids) /\ Len(writer) = Len(file)
      BY Sequences DEF Init
    <2>2. /\ alive \in [Ids -> BOOLEAN] /\ acks \in [Ids -> 0 .. 1]
          /\ wpc \in [Ids -> {"none", "name", "entry", "confirm", "closed"}]
      BY DEF Init
    <2>3. pushed \in 0 .. Entries /\ conn \in Ids \union {NoConnection}
      BY DEF Init
    <2> QED BY <2>1, <2>2, <2>3 DEF Init, TypeOK
  <1>2. Queued /\ Fresh /\ OneUnderWay
    BY DEF Init, Queued, Fresh, OneUnderWay, Ids, NoConnection
  <1> QED BY <1>1, <1>2 DEF IInv

\* A connection's message is put into its inbox and no other.
LEMMA Transmitted ==
    ASSUME TypeOK, conn \in Ids, NEW e \in Messages, Transmit(e)
    PROVE  inbox' \in [Ids -> Seq(Messages)]
  BY Sequences DEF TypeOK, Transmit

\* Two sequences of anything, one after the other.
LEMMA Joined ==
    ASSUME NEW S, NEW a \in Seq(S), NEW b \in Seq(S)
    PROVE  /\ a \o b \in Seq(S) /\ Len(a \o b) = Len(a) + Len(b)
           /\ DOMAIN (a \o b) = 1 .. Len(a) + Len(b)
           /\ \A i \in 1 .. Len(a) : (a \o b)[i] = a[i]
           /\ \A i \in 1 .. Len(b) : (a \o b)[Len(a) + i] = b[i]
  OBVIOUS

\* What is put into the file comes after what it holds, under its writer.
LEMMA Putting ==
    ASSUME TypeOK, NEW k \in Ids, NEW s \in Seq(Messages), Put(k, s)
    PROVE  /\ file' \in Seq(Messages) /\ writer' \in Seq(Ids)
           /\ Len(file') = Len(file) + Len(s) /\ Len(writer') = Len(file')
           /\ DOMAIN file' = 1 .. Len(file) + Len(s)
           /\ DOMAIN writer' = 1 .. Len(file) + Len(s)
           /\ \A i \in 1 .. Len(file) :
                file'[i] = file[i] /\ writer'[i] = writer[i]
           /\ \A i \in 1 .. Len(s) :
                file'[Len(file) + i] = s[i] /\ writer'[Len(file) + i] = k
  <1> DEFINE t == [i \in DOMAIN s |-> k]
  <1>1. /\ file \in Seq(Messages) /\ writer \in Seq(Ids)
        /\ Len(writer) = Len(file)
    BY DEF TypeOK
  <1>2. t \in Seq(Ids) /\ Len(t) = Len(s) /\ \A i \in 1 .. Len(s) : t[i] = k
    OBVIOUS
  <1>3. file' = file \o s /\ writer' = writer \o t
    BY DEF Put
  <1> HIDE DEF t
  <1>4. /\ file' \in Seq(Messages) /\ Len(file') = Len(file) + Len(s)
        /\ DOMAIN file' = 1 .. Len(file) + Len(s)
        /\ \A i \in 1 .. Len(file) : file'[i] = file[i]
        /\ \A i \in 1 .. Len(s) : file'[Len(file) + i] = s[i]
    BY <1>1, <1>3, Joined
  <1>5. /\ writer' \in Seq(Ids) /\ Len(writer') = Len(file) + Len(s)
        /\ DOMAIN writer' = 1 .. Len(file) + Len(s)
        /\ \A i \in 1 .. Len(file) : writer'[i] = writer[i]
        /\ \A i \in 1 .. Len(s) : writer'[Len(file) + i] = t[i]
    <2>1. writer \in Seq(Ids) /\ t \in Seq(Ids)
      BY <1>1, <1>2
    <2>2. /\ writer \o t \in Seq(Ids)
          /\ Len(writer \o t) = Len(writer) + Len(t)
          /\ DOMAIN (writer \o t) = 1 .. Len(writer) + Len(t)
          /\ \A i \in 1 .. Len(writer) : (writer \o t)[i] = writer[i]
          /\ \A i \in 1 .. Len(t) : (writer \o t)[Len(writer) + i] = t[i]
      BY <2>1
    <2> QED BY <1>1, <1>2, <1>3, <2>2
  <1> QED BY <1>2, <1>4, <1>5

\* Where an entry of the file comes from after some have been put there.
LEMMA Places ==
    ASSUME TypeOK, NEW k \in Ids, NEW s \in Seq(Messages), Put(k, s),
           NEW i \in DOMAIN file'
    PROVE  /\ i \in Nat /\ Len(file) \in Nat
           /\ \/ /\ i \in DOMAIN file /\ i <= Len(file)
                 /\ file'[i] = file[i] /\ writer'[i] = writer[i]
              \/ /\ i - Len(file) \in DOMAIN s /\ i > Len(file)
                 /\ file'[i] = s[i - Len(file)] /\ writer'[i] = k
  <1>1. /\ file \in Seq(Messages) /\ DOMAIN file = 1 .. Len(file)
        /\ Len(file) \in Nat /\ Len(s) \in Nat /\ DOMAIN s = 1 .. Len(s)
    BY DEF TypeOK
  <1>2. i \in 1 .. Len(file) + Len(s)
    BY Putting
  <1>3. CASE i \in 1 .. Len(file)
    BY <1>1, <1>2, <1>3, Putting
  <1>4. CASE i - Len(file) \in 1 .. Len(s)
    <2>1. /\ file'[Len(file) + (i - Len(file))] = s[i - Len(file)]
          /\ writer'[Len(file) + (i - Len(file))] = k
      BY <1>4, Putting
    <2>2. Len(file) + (i - Len(file)) = i
      BY <1>1, <1>2
    <2> QED BY <1>1, <1>2, <1>4, <2>1, <2>2
  <1> QED BY <1>1, <1>2, <1>3, <1>4

\* What a thread writes comes from what it held and what it has read.
LEMMA Writing ==
    ASSUME TypeOK, NEW k \in Ids, Write(k)
    PROVE  LET entry == Head(inbox[k])
               all == Append(held[k], entry)
           IN  /\ entry \in Messages /\ held[k] \in Seq(Messages)
               /\ all \in Seq(Messages)
               /\ \/ Put(k, all) /\ held' = [held EXCEPT ![k] = <<>>]
                  \/ /\ held' = [held EXCEPT ![k] = all]
                     /\ UNCHANGED <<file, writer>>
  BY Sequences DEF TypeOK, Write

\* The types survive every step.
LEMMA TypeNext == IInv /\ [Next]_vars => TypeOK'
  <1> SUFFICES ASSUME IInv, [Next]_vars PROVE TypeOK'
    OBVIOUS
  <1> USE LogAssumption DEF TypeOK, clientVars, netVars, loggerVars, obsVars
  <1>1. TypeOK
    BY DEF IInv
  <1>2. Ids \subseteq Nat /\ Entries \in Nat /\ NoConnection \in Nat
    BY DEF Ids, NoConnection
  <1>3. /\ lpc # "connect" => conn \in Ids
        /\ lpc \in {"confirm", "pop"} => queue # <<>>
        /\ \A k \in Ids : wpc[k] = "confirm" => acks[k] = 0
    BY DEF IInv, Fresh, Queued, OneUnderWay
  <1>4. CASE QueueData
    <2>1. pushed' \in 0 .. Entries
      BY <1>1, <1>4 DEF QueueData
    <2>2. pushed + 1 \in Messages /\ pushed + 2 \in Messages
      BY <1>1, <1>4 DEF QueueData, Messages
    <2>3. queue' \in Seq(Messages)
      BY <1>1, <1>4, <2>2 DEF QueueData
    <2> QED BY <1>1, <1>4, <2>1, <2>3 DEF QueueData
  <1>5. CASE Connect
    <2>1. conn + 1 \in Ids
      BY <1>1, <1>5 DEF Connect, Ids, NoConnection
    <2> QED BY <1>1, <1>5, <2>1 DEF Connect
  <1>6. CASE SendName
    <2>1. inbox' \in [Ids -> Seq(Messages)]
      BY <1>1, <1>3, <1>6, Sequences, Transmitted DEF SendName
    <2> QED BY <1>1, <1>6, <2>1 DEF SendName
  <1>7. CASE SendEntry
    <2>1. inbox' \in [Ids -> Seq(Messages)]
      BY <1>1, <1>3, <1>7, Sequences, Transmitted DEF SendEntry
    <2> QED BY <1>1, <1>7, <2>1 DEF SendEntry
  <1>8. CASE SendFails
    BY <1>1, <1>8 DEF SendFails
  <1>9. CASE Confirmed
    BY <1>1, <1>3, <1>9 DEF Confirmed
  <1>10. CASE ConfirmFails
    BY <1>1, <1>10 DEF ConfirmFails
  <1>11. CASE Pop
    <2>1. Head(queue) \in Messages /\ queue' \in Seq(Messages)
      BY <1>1, <1>3, <1>11, Sequences DEF Pop
    <2> QED BY <1>1, <1>11, <2>1 DEF Pop
  <1>12. CASE RestartClient
    <2>1. queue' \in Seq(Messages)
      BY <1>12, Sequences DEF RestartClient
    <2> QED BY <1>1, <1>12, <2>1 DEF RestartClient
  <1>13. ASSUME NEW k \in Ids, Writer(k) PROVE TypeOK'
    <2>1. CASE ReadName(k)
      BY <1>1, <2>1, Sequences DEF ReadName
    <2>2. CASE NoName(k)
      BY <1>1, <2>2 DEF NoName
    <2>3. CASE Write(k)
      <3> DEFINE all == Append(held[k], Head(inbox[k]))
      <3>1. /\ all \in Seq(Messages)
            /\ \/ Put(k, all) /\ held' = [held EXCEPT ![k] = <<>>]
               \/ held' = [held EXCEPT ![k] = all] /\ UNCHANGED <<file, writer>>
        BY <1>1, <2>3, Writing
      <3> HIDE DEF all
      <3>2. /\ file' \in Seq(Messages) /\ writer' \in Seq(Ids)
            /\ Len(writer') = Len(file')
        BY <1>1, <3>1, Putting
      <3>3. held' \in [Ids -> Seq(Messages)]
        BY <1>1, <3>1, Sequences
      <3>4. inbox' \in [Ids -> Seq(Messages)]
        BY <1>1, <2>3, Sequences DEF Write
      <3>5. wpc' \in [Ids -> {"none", "name", "entry", "confirm", "closed"}]
        BY <1>1, <2>3 DEF Write
      <3> QED BY <1>1, <2>3, <3>2, <3>3, <3>4, <3>5 DEF Write
    <2>4. CASE Confirm(k)
      BY <1>1, <1>3, <2>4 DEF Confirm
    <2>5. ASSUME Close(k) PROVE TypeOK'
      <3>1. /\ file' \in Seq(Messages) /\ writer' \in Seq(Ids)
            /\ Len(writer') = Len(file')
        BY <1>1, <2>5, Putting DEF Close
      <3>2. held' \in [Ids -> Seq(Messages)]
        BY <1>1, <2>5, Sequences DEF Close
      <3> QED BY <1>1, <2>5, <3>1, <3>2 DEF Close
    <2> QED BY <1>13, <2>1, <2>2, <2>3, <2>4, <2>5
            DEF Writer, ConfirmationFails, End
  <1>14. ASSUME NEW k \in Ids, Break(k) PROVE TypeOK'
    <2>1. inbox' \in [Ids -> Seq(Messages)]
      BY <1>1, <1>14, Sequences DEF Break
    <2> QED BY <1>1, <1>14, <2>1 DEF Break
  <1>15. CASE Stop
    BY <1>1, <1>15 DEF Stop
  <1>16. CASE RestartLogger
    BY <1>1, <1>16 DEF RestartLogger
  <1>17. CASE KillLogger
    <2>1. \A k \in Ids : Range(held[k]) \subseteq Messages
      BY <1>1 DEF Range
    <2>2. killed' \in SUBSET Messages
      BY <1>1, <1>17, <2>1 DEF KillLogger
    <2>3. held' \in [Ids -> Seq(Messages)]
      BY <1>17, Sequences DEF KillLogger
    <2>4. wpc' \in [Ids -> {"none", "name", "entry", "confirm", "closed"}]
      BY <1>17 DEF KillLogger
    <2> QED BY <1>1, <1>17, <2>2, <2>3, <2>4 DEF KillLogger
  <1>18. CASE UNCHANGED vars
    BY <1>1, <1>18 DEF vars
  <1> QED
    BY <1>4, <1>5, <1>6, <1>7, <1>8, <1>9, <1>10, <1>11, <1>12, <1>13, <1>14,
       <1>15, <1>16, <1>17, <1>18 DEF Next, LoggerThread

\* The queue survives every step.
LEMMA QueuedNext == IInv /\ [Next]_vars => Queued'
  <1> SUFFICES ASSUME IInv, [Next]_vars PROVE Queued'
    OBVIOUS
  <1> USE DEF clientVars, netVars, loggerVars, obsVars
  <1>1. Queued /\ queue \in Seq(Messages) /\ pushed \in Nat
    BY LogAssumption DEF IInv, TypeOK
  <1>2. CASE UNCHANGED <<pushed, queue>> /\ (lpc' = "pop" => lpc = "confirm")
             /\ (lpc' = "confirm" => lpc = "confirm" \/ queue # <<>>)
    BY <1>1, <1>2 DEF Queued
  <1>3. CASE UNCHANGED <<pushed, queue, lpc>>
    BY <1>1, <1>3 DEF Queued
  <1>4. CASE QueueData
    <2>1. /\ queue' = queue \o <<pushed + 1, pushed + 2>>
          /\ pushed' = pushed + 2 /\ lpc' = lpc
      BY <1>4 DEF QueueData
    <2>2. Len(queue') = Len(queue) + 2
      BY <1>1, <2>1
    <2>3. ASSUME NEW i \in 1 .. Len(queue')
          PROVE  queue'[i] = pushed' - Len(queue') + i
      <3>1. CASE i \in 1 .. Len(queue)
        BY <1>1, <2>1, <2>2, <3>1 DEF Queued
      <3>2. CASE i = Len(queue) + 1
        BY <1>1, <2>1, <2>2, <3>2
      <3>3. CASE i = Len(queue) + 2
        BY <1>1, <2>1, <2>2, <3>3
      <3> QED BY <1>1, <2>2, <3>1, <3>2, <3>3
    <2>4. queue' # <<>>
      BY <1>1, <2>1, <2>2
    <2> QED BY <1>1, <2>1, <2>2, <2>3, <2>4 DEF Queued
  <1>5. CASE Pop
    <2>1. queue' = Tail(queue) /\ pushed' = pushed /\ lpc' = "rest"
          /\ queue # <<>>
      BY <1>1, <1>5 DEF Pop, Queued
    <2>2. Len(queue') = Len(queue) - 1 /\ Len(queue) >= 1
      BY <1>1, <2>1
    <2>3. \A i \in 1 .. Len(queue') : queue'[i] = queue[i + 1]
      BY <1>1, <2>1, <2>2
    <2> QED BY <1>1, <2>1, <2>2, <2>3 DEF Queued
  <1>6. CASE RestartClient
    BY <1>1, <1>6 DEF RestartClient, Queued
  <1>7. CASE LoggerThread
    BY <1>2, <1>5, <1>7
       DEF LoggerThread, Connect, SendName, SendEntry, SendFails, Confirmed,
           ConfirmFails
  <1>8. ASSUME NEW k \in Ids, Writer(k) \/ Break(k) PROVE Queued'
    BY <1>3, <1>8
       DEF Writer, ReadName, NoName, Write, Confirm, ConfirmationFails, End,
           Close, Break
  <1>9. CASE Stop \/ RestartLogger \/ KillLogger
    BY <1>3, <1>9 DEF Stop, RestartLogger, KillLogger
  <1> QED BY <1>3, <1>4, <1>6, <1>7, <1>8, <1>9 DEF Next, vars

\* Connections stay untouched until they are made, one after the other.
LEMMA FreshNext == IInv /\ [Next]_vars => Fresh'
  <1> SUFFICES ASSUME IInv, [Next]_vars PROVE Fresh'
    OBVIOUS
  <1> USE DEF Fresh, TypeOK, clientVars, netVars, loggerVars, obsVars
  <1>1. TypeOK /\ Fresh
    BY DEF IInv
  <1>2. Ids \subseteq Nat /\ conn \in Nat
    BY <1>1, LogAssumption DEF Ids, NoConnection
  <1>3. CASE UNCHANGED <<conn, wpc, inbox, acks, held, writer>>
             /\ (lpc' # "connect" => lpc # "connect")
    BY <1>1, <1>3
  <1>4. CASE QueueData \/ SendFails \/ ConfirmFails \/ Pop \/ RestartClient
    BY <1>1, <1>3, <1>4
       DEF QueueData, SendFails, ConfirmFails, Pop, RestartClient
  <1>5. CASE Connect
    <2>1. conn + 1 \in Ids
      BY <1>1, <1>2, <1>5, LogAssumption DEF Connect, Ids
    <2>2. \A i \in DOMAIN writer' : writer'[i] <= conn'
      <3>1. \A i \in DOMAIN writer : writer[i] \in Nat /\ writer[i] <= conn
        <4>1. writer \in Seq(Ids) /\ \A i \in DOMAIN writer : writer[i] <= conn
          BY <1>1
        <4> HIDE DEF TypeOK, Fresh
        <4>2. \A i \in DOMAIN writer : writer[i] \in Ids
          BY <4>1
        <4> QED BY <1>2, <4>1, <4>2
      <3>2. writer' = writer /\ conn' = conn + 1
        BY <1>5 DEF Connect
      <3>3. \A i \in DOMAIN writer : writer[i] <= conn + 1
        BY <1>2, <3>1
      <3> QED BY <3>2, <3>3
    <2>3. /\ lpc' # "connect" => conn' \in Ids
          /\ \A k \in Ids :
            /\ wpc'[k] = "none" <=> k > conn'
            /\ wpc'[k] = "none" =>
                inbox'[k] = <<>> /\ acks'[k] = 0 /\ held'[k] = <<>>
      BY <1>1, <1>2, <1>5, <2>1 DEF Connect
    <2> QED BY <2>2, <2>3
  <1>6. CASE SendName \/ SendEntry
    <2>1. conn \in Ids /\ wpc[conn] # "none"
      BY <1>1, <1>2, <1>6 DEF SendName, SendEntry
    <2> QED BY <1>1, <1>2, <1>6, <2>1 DEF SendName, SendEntry, Transmit
  <1>7. CASE Confirmed
    <2>1. conn \in Ids /\ wpc[conn] # "none"
      BY <1>1, <1>2, <1>7 DEF Confirmed
    <2> QED BY <1>1, <1>2, <1>7, <2>1 DEF Confirmed
  <1>8. ASSUME NEW k \in Ids, Writer(k) PROVE Fresh'
    <2>1. wpc[k] # "none"
      BY <1>8
         DEF Writer, ReadName, NoName, Write, Confirm, ConfirmationFails, End
    <2>2. /\ wpc'[k] # "none" /\ wpc' = [wpc EXCEPT ![k] = wpc'[k]]
          /\ UNCHANGED <<lpc, conn>>
      BY <1>1, <1>8
         DEF Writer, ReadName, NoName, Write, Confirm, ConfirmationFails, End,
             Close
    <2>3. \A l \in Ids : l # k =>
            /\ inbox'[l] = inbox[l] /\ acks'[l] = acks[l]
            /\ held'[l] = held[l]
      BY <1>1, <1>8
         DEF Writer, ReadName, NoName, Write, Confirm, ConfirmationFails, End,
             Close
    <2>4. \/ UNCHANGED <<file, writer>>
          \/ \E t \in Seq(Messages) : Put(k, t)
      <3>1. CASE Write(k)
        BY <1>1, <3>1, Writing
      <3>2. CASE Close(k)
        BY <1>1, <3>2 DEF Close
      <3> QED BY <1>8, <3>1, <3>2
              DEF Writer, ReadName, NoName, Confirm, ConfirmationFails, End
    <2>5. k <= conn
      BY <1>1, <1>2, <2>1
    <2>6. \A i \in DOMAIN writer' : writer'[i] <= conn
      <3>1. CASE UNCHANGED <<file, writer>>
        BY <1>1, <3>1
      <3>2. ASSUME NEW t \in Seq(Messages), Put(k, t)
            PROVE  \A i \in DOMAIN writer' : writer'[i] <= conn
        <4>1. \A i \in DOMAIN file' :
                \/ writer'[i] = k
                \/ i \in DOMAIN file /\ writer'[i] = writer[i]
          BY <1>1, <3>2, Places
        <4>2. /\ DOMAIN file' = DOMAIN writer'
              /\ DOMAIN file = DOMAIN writer
          <5>1. /\ DOMAIN file' = 1 .. Len(file) + Len(t)
                /\ DOMAIN writer' = 1 .. Len(file) + Len(t)
            BY <1>1, <3>2, Putting
          <5>2. DOMAIN file = DOMAIN writer
            BY <1>1
          <5> QED BY <5>1, <5>2
        <4>3. \A i \in DOMAIN writer : writer[i] <= conn
          BY <1>1
        <4> QED BY <2>5, <4>1, <4>2, <4>3
      <3> QED BY <2>4, <3>1, <3>2
    <2> QED BY <1>1, <2>1, <2>2, <2>3, <2>6
  <1>9. ASSUME NEW k \in Ids, Break(k) PROVE Fresh'
    BY <1>1, <1>9 DEF Break
  <1>10. CASE Stop \/ RestartLogger
    BY <1>1, <1>3, <1>10 DEF Stop, RestartLogger
  <1>11. CASE KillLogger
    BY <1>1, <1>11 DEF KillLogger
  <1> QED
    BY <1>3, <1>4, <1>5, <1>6, <1>7, <1>8, <1>9, <1>10, <1>11
       DEF Next, LoggerThread, vars

\* At most one entry or confirmation stays under way.
LEMMA OneNext == IInv /\ [Next]_vars => OneUnderWay'
  <1> SUFFICES ASSUME IInv, [Next]_vars PROVE OneUnderWay'
    OBVIOUS
  <1> USE DEF clientVars, netVars, loggerVars, obsVars
  <1>1. TypeOK /\ Fresh /\ OneUnderWay
    BY DEF IInv
  <1>2. /\ Ids \subseteq Nat /\ conn \in Nat
        /\ inbox \in [Ids -> Seq(Messages)] /\ acks \in [Ids -> 0 .. 1]
        /\ wpc \in [Ids -> {"none", "name", "entry", "confirm", "closed"}]
    BY <1>1, LogAssumption DEF TypeOK, Ids, NoConnection
  <1>3. \A k \in Ids :
            /\ Len(inbox[k]) \in Nat
            /\ inbox[k] = <<>> <=> Len(inbox[k]) = 0
    BY <1>2
  <1>4. CASE UNCHANGED <<conn, wpc, inbox, acks>>
             /\ (lpc' \in {"name", "rest", "pop"} =>
                    /\ lpc \in {"name", "rest", "pop"}
                    /\ lpc' = "name" => lpc = "name")
    BY <1>1, <1>4 DEF OneUnderWay
  <1>5. CASE QueueData \/ SendFails \/ ConfirmFails \/ Pop \/ RestartClient
    BY <1>1, <1>4, <1>5
       DEF QueueData, SendFails, ConfirmFails, Pop, RestartClient
  <1>6. CASE Connect
    <2>1. conn + 1 \in Ids
      BY <1>1, <1>2, <1>6, LogAssumption DEF Connect, Ids
    <2>2. inbox[conn + 1] = <<>> /\ acks[conn + 1] = 0
      BY <1>1, <1>2, <2>1 DEF Fresh
    <2>3. /\ lpc' = "name" /\ conn' = conn + 1
          /\ wpc' = [wpc EXCEPT ![conn + 1] = "name"]
          /\ UNCHANGED <<inbox, acks>>
      BY <1>6 DEF Connect
    <2> QED BY <1>1, <1>2, <2>1, <2>2, <2>3 DEF OneUnderWay
  <1>7. CASE SendName \/ SendEntry
    <2>1. conn \in Ids
      BY <1>1, <1>7 DEF SendName, SendEntry, Fresh
    <2>2. /\ UNCHANGED <<conn, wpc, acks>> /\ lpc' \in {"rest", "confirm"}
          /\ lpc \in {"name", "rest"}
          /\ lpc = "name" <=> lpc' = "rest"
      BY <1>7 DEF SendName, SendEntry
    <2>3. PICK e \in Messages : Transmit(e)
      BY <1>1, <1>7, Sequences DEF SendName, SendEntry, TypeOK
    <2>4. /\ \A k \in Ids : k # conn => inbox'[k] = inbox[k]
          /\ Len(inbox'[conn]) <= Len(inbox[conn]) + 1
          /\ Len(inbox'[conn]) \in Nat
      BY <1>2, <1>3, <2>1, <2>3 DEF Transmit
    <2>5. wpc[conn] # "confirm" /\ acks[conn] = 0
      BY <1>1, <2>2 DEF OneUnderWay
    <2>6. wpc[conn] = "entry" => Len(inbox'[conn]) <= 1
      BY <1>1, <1>3, <2>1, <2>2, <2>4 DEF OneUnderWay
    <2>7. lpc = "name" => wpc[conn] # "entry"
      BY <1>1 DEF OneUnderWay
    <2> QED BY <1>1, <2>1, <2>2, <2>4, <2>5, <2>6, <2>7 DEF OneUnderWay
  <1>8. CASE Confirmed
    <2>1. conn \in Ids /\ acks[conn] = 1
      BY <1>1, <1>2, <1>8 DEF Confirmed, Fresh
    <2>2. /\ conn \in Ids /\ acks[conn] = 1 /\ lpc' = "pop"
          /\ acks' = [acks EXCEPT ![conn] = 0]
          /\ UNCHANGED <<conn, wpc, inbox>>
      BY <1>2, <1>8, <2>1 DEF Confirmed
    <2>3. wpc[conn] # "confirm" /\ (wpc[conn] = "entry" => inbox[conn] = <<>>)
      BY <1>1, <1>3, <2>2 DEF OneUnderWay
    <2> QED BY <1>1, <1>2, <1>3, <2>2, <2>3 DEF OneUnderWay
  <1>9. ASSUME NEW k \in Ids, Writer(k) PROVE OneUnderWay'
    <2>1. UNCHANGED <<lpc, conn>>
      BY <1>9
         DEF Writer, ReadName, NoName, Write, Confirm, ConfirmationFails, End,
             Close
    <2>2. CASE ReadName(k)
      <3>1. inbox' = [inbox EXCEPT ![k] = <<>>] /\ acks' = acks
            /\ wpc' = [wpc EXCEPT ![k] = "entry"] /\ acks[k] = 0
        BY <1>1, <2>2 DEF ReadName, OneUnderWay
      <3>2. lpc = "name" => k # conn
        BY <1>1, <2>2 DEF ReadName, OneUnderWay
      <3> QED BY <1>1, <1>2, <2>1, <3>1, <3>2 DEF OneUnderWay
    <2>3. CASE NoName(k)
      BY <1>1, <1>2, <2>1, <2>3 DEF NoName, OneUnderWay
    <2>4. CASE Write(k)
      <3>1. Len(inbox[k]) # 0 /\ Len(inbox[k]) + acks[k] <= 1
        BY <1>1, <1>3, <2>4 DEF Write, OneUnderWay
      <3>2. Len(inbox[k]) \in Nat /\ acks[k] \in 0 .. 1
        BY <1>2
      <3>3. \A m \in Nat, n \in 0 .. 1 : m # 0 /\ m + n <= 1 => m = 1 /\ n = 0
        OBVIOUS
      <3>4. Len(inbox[k]) = 1 /\ acks[k] = 0
        BY <3>1, <3>2, <3>3
      <3>5. /\ inbox' = [inbox EXCEPT ![k] = Tail(@)] /\ acks' = acks
            /\ wpc' = [wpc EXCEPT ![k] = "confirm"] /\ wpc[k] = "entry"
        BY <2>4 DEF Write
      <3>6. inbox'[k] = <<>>
        BY <1>2, <3>4, <3>5
      <3>7. lpc \in {"name", "rest", "pop"} => k # conn
        BY <1>1, <1>3, <3>4, <3>5 DEF OneUnderWay
      <3> QED BY <1>1, <1>2, <2>1, <3>4, <3>5, <3>6, <3>7 DEF OneUnderWay
    <2>5. CASE Confirm(k)
      <3>1. /\ inbox[k] = <<>> /\ acks[k] = 0 /\ inbox' = inbox
            /\ lpc \in {"name", "rest", "pop"} => k # conn
            /\ wpc' = [wpc EXCEPT ![k] = "entry"]
        BY <1>1, <2>5 DEF Confirm, OneUnderWay
      <3>2. acks' = acks \/ acks' = [acks EXCEPT ![k] = 1]
        BY <1>2, <2>5, <3>1 DEF Confirm
      <3>3. acks'[k] \in 0 .. 1 /\ \A l \in Ids : l # k => acks'[l] = acks[l]
        BY <1>2, <3>2
      <3>4. Len(inbox'[k]) + acks'[k] <= 1
        BY <1>3, <3>1, <3>3
      <3>5. lpc \in {"name", "rest", "pop"} => conn \in Ids
        BY <1>1 DEF Fresh
      <3> QED BY <1>1, <1>2, <2>1, <3>1, <3>3, <3>4, <3>5 DEF OneUnderWay
    <2>6. ASSUME Close(k), wpc[k] \in {"confirm", "entry"} PROVE OneUnderWay'
      BY <1>1, <1>2, <2>1, <2>6 DEF Close, OneUnderWay
    <2> QED BY <1>9, <2>2, <2>3, <2>4, <2>5, <2>6
            DEF Writer, ConfirmationFails, End
  <1>10. ASSUME NEW k \in Ids, Break(k) PROVE OneUnderWay'
    <2>1. UNCHANGED <<lpc, conn, wpc, acks>>
      BY <1>10 DEF Break
    <2>2. \A l \in Ids : inbox'[l] \in {inbox[l], <<>>}
      BY <1>2, <1>10 DEF Break
    <2> QED BY <1>1, <1>2, <1>3, <2>1, <2>2 DEF OneUnderWay, Fresh
  <1>11. CASE Stop \/ RestartLogger
    BY <1>4, <1>11 DEF Stop, RestartLogger
  <1>12. CASE KillLogger
    <2>1. \A k \in Ids : wpc'[k] \in {"none", "closed"}
                         /\ (wpc'[k] = "none" => wpc[k] = "none")
      BY <1>12 DEF KillLogger
    <2>2. UNCHANGED <<lpc, conn, inbox, acks>>
      BY <1>12 DEF KillLogger
    <2> QED BY <1>1, <1>2, <2>1, <2>2 DEF OneUnderWay, Fresh
  <1> QED
    BY <1>4, <1>5, <1>6, <1>7, <1>8, <1>9, <1>10, <1>11, <1>12
       DEF Next, LoggerThread, vars

\* The invariant is inductive.
LEMMA InvNext == IInv /\ [Next]_vars => IInv'
  BY TypeNext, QueuedNext, FreshNext, OneNext DEF IInv

\* Every variable of the log keeps its type, and at most one confirmation is
\* under way on a connection.
THEOREM TypeCorrect == Spec => []TypeOK
  <1>1. IInv => TypeOK
    BY DEF IInv
  <1> QED BY InvInit, InvNext, <1>1, PTL DEF Spec

-------------------------------------------------------------------------------
(* No confirmed entry is lost. *)

\* What a sequence holds that has been lengthened.
LEMMA Ranges ==
    /\ Range(<<>>) = {}
    /\ \A s \in Seq(Messages), e \in Messages :
        Range(Append(s, e)) = Range(s) \union {e}
    /\ \A s, t \in Seq(Messages) : Range(s \o t) = Range(s) \union Range(t)
  <1>1. Range(<<>>) = {}
    BY DEF Range
  <1>2. ASSUME NEW s \in Seq(Messages), NEW e \in Messages
        PROVE  Range(Append(s, e)) = Range(s) \union {e}
    <2>1. /\ DOMAIN Append(s, e) = 1 .. Len(s) + 1
          /\ \A i \in 1 .. Len(s) : Append(s, e)[i] = s[i]
          /\ Append(s, e)[Len(s) + 1] = e
          /\ DOMAIN s = 1 .. Len(s) /\ Len(s) \in Nat
      OBVIOUS
    <2> QED BY <2>1 DEF Range
  <1>3. ASSUME NEW s \in Seq(Messages), NEW t \in Seq(Messages)
        PROVE  Range(s \o t) = Range(s) \union Range(t)
    <2>1. /\ DOMAIN (s \o t) = 1 .. Len(s) + Len(t)
          /\ \A i \in 1 .. Len(s) : (s \o t)[i] = s[i]
          /\ \A i \in 1 .. Len(t) : (s \o t)[Len(s) + i] = t[i]
          /\ DOMAIN s = 1 .. Len(s) /\ DOMAIN t = 1 .. Len(t)
          /\ Len(s) \in Nat /\ Len(t) \in Nat
      OBVIOUS
    <2>2. Range(s \o t) \subseteq Range(s) \union Range(t)
      <3> SUFFICES ASSUME NEW i \in 1 .. Len(s) + Len(t)
                   PROVE  (s \o t)[i] \in Range(s) \union Range(t)
        BY <2>1 DEF Range
      <3>1. CASE i \in 1 .. Len(s)
        BY <2>1, <3>1 DEF Range
      <3>2. CASE i - Len(s) \in 1 .. Len(t)
        <4>1. (s \o t)[Len(s) + (i - Len(s))] = t[i - Len(s)]
          BY <2>1, <3>2
        <4> QED BY <2>1, <3>2, <4>1 DEF Range
      <3> QED BY <2>1, <3>1, <3>2
    <2>3. Range(s) \subseteq Range(s \o t)
      BY <2>1 DEF Range
    <2>4. ASSUME NEW i \in 1 .. Len(t) PROVE t[i] \in Range(s \o t)
      <3>1. Len(s) + i \in 1 .. Len(s) + Len(t)
        BY <2>1
      <3> QED BY <2>1, <3>1 DEF Range
    <2> QED BY <2>1, <2>2, <2>3, <2>4 DEF Range
  <1> QED BY <1>1, <1>2, <1>3

\* A thread that closes its stream writes what it held.
LEMMA ClosedKept ==
    ASSUME TypeOK, NEW k \in Ids, Close(k)
    PROVE  Recorded' = Recorded
  <1>1. Range(file') = Range(file) \union Range(held[k])
    BY Ranges DEF TypeOK, Close, Put
  <1>2. Range(held'[k]) = {} /\ \A l \in Ids : l # k => held'[l] = held[l]
    BY Ranges DEF TypeOK, Close
  <1>3. killed' = killed
    BY DEF Close, obsVars
  <1> QED BY <1>1, <1>2, <1>3 DEF Recorded

\* A thread that writes an entry keeps what it held before.
LEMMA WrittenKept ==
    ASSUME TypeOK, NEW k \in Ids, Write(k)
    PROVE  Recorded' = Recorded \union {Head(inbox[k])}
  <1> DEFINE entry == Head(inbox[k])
             all == Append(held[k], entry)
  <1>1. /\ entry \in Messages /\ held[k] \in Seq(Messages)
        /\ all \in Seq(Messages)
        /\ \/ Put(k, all) /\ held' = [held EXCEPT ![k] = <<>>]
           \/ held' = [held EXCEPT ![k] = all] /\ UNCHANGED <<file, writer>>
    BY Writing
  <1>2. Range(all) = Range(held[k]) \union {entry}
    BY <1>1, Ranges
  <1>3. held \in [Ids -> Seq(Messages)] /\ file \in Seq(Messages)
    BY DEF TypeOK
  <1>4. killed' = killed
    BY DEF Write, obsVars
  <1> HIDE DEF all
  <1>5. CASE Put(k, all) /\ held' = [held EXCEPT ![k] = <<>>]
    <2>1. Range(file') = Range(file) \union Range(all)
      BY <1>1, <1>3, <1>5, Ranges DEF Put
    <2>2. Range(held'[k]) = {} /\ \A l \in Ids : l # k => held'[l] = held[l]
      BY <1>3, <1>5, Ranges
    <2> QED BY <1>2, <1>4, <2>1, <2>2 DEF Recorded
  <1>6. CASE held' = [held EXCEPT ![k] = all] /\ UNCHANGED <<file, writer>>
    <2>1. held'[k] = all /\ \A l \in Ids : l # k => held'[l] = held[l]
      BY <1>3, <1>6
    <2> QED BY <1>2, <1>4, <1>6, <2>1 DEF Recorded
  <1> QED BY <1>1, <1>5, <1>6

\* A logger that is killed leaves what its streams held to killed.
LEMMA KilledKept ==
    ASSUME TypeOK, KillLogger
    PROVE  Recorded' = Recorded
  <1>1. file' = file
    BY DEF KillLogger
  <1>2. killed' = killed \union UNION {Range(held[k]) : k \in Ids}
    BY DEF KillLogger
  <1>3. \A k \in Ids : Range(held'[k]) = {}
    BY Ranges DEF KillLogger
  <1>4. UNION {Range(held'[k]) : k \in Ids} = {}
    BY <1>3
  <1> QED BY <1>1, <1>2, <1>4 DEF Recorded

\* What is recorded only changes when a thread writes an entry.
LEMMA RecordedNext ==
    ASSUME TypeOK, [Next]_vars, \A k \in Ids : ~Write(k)
    PROVE  Recorded' = Recorded
  <1> USE DEF clientVars, netVars, loggerVars, obsVars
  <1>1. CASE UNCHANGED <<file, held, killed>>
    BY <1>1 DEF Recorded
  <1>2. CASE QueueData \/ LoggerThread \/ RestartClient \/ Stop \/ RestartLogger
    BY <1>1, <1>2
       DEF QueueData, LoggerThread, RestartClient, Stop, RestartLogger, Connect,
           SendName, SendEntry, SendFails, Confirmed, ConfirmFails, Pop
  <1>3. ASSUME NEW k \in Ids, Writer(k) \/ Break(k) PROVE Recorded' = Recorded
    BY <1>1, <1>3, ClosedKept
       DEF Writer, ReadName, NoName, Confirm, ConfirmationFails, End, Break
  <1> QED BY <1>1, <1>2, <1>3, KilledKept DEF Next, vars

\* What is recorded stays recorded.
LEMMA StaysRecorded == TypeOK /\ [Next]_vars => Recorded \subseteq Recorded'
  BY RecordedNext, WrittenKept

\* What is confirmed was at the front of the queue.
LEMMA ConfirmedNext == IInv /\ Kept /\ [Next]_vars => NothingLost'
  <1> SUFFICES ASSUME IInv, Kept, [Next]_vars PROVE NothingLost'
    OBVIOUS
  <1> USE DEF clientVars, netVars, loggerVars, obsVars
  <1>1. Recorded \subseteq Recorded' /\ confirmed \subseteq Recorded
    BY StaysRecorded DEF IInv, Kept, NothingLost
  <1>2. CASE Pop
    <2>1. /\ Head(queue) \in Recorded
          /\ confirmed' = confirmed \union {Head(queue)}
      BY <1>2 DEF Kept, FrontSafe, Pop
    <2> QED BY <1>1, <2>1 DEF NothingLost
  <1>3. CASE ~Pop
    <2>1. confirmed' = confirmed
      BY <1>3
         DEF Next, vars, QueueData, LoggerThread, RestartClient, Stop,
             RestartLogger, KillLogger, Connect, SendName, SendEntry,
             SendFails, Confirmed, ConfirmFails, Writer, ReadName, NoName,
             Write, Confirm, ConfirmationFails, End, Close, Break
    <2> QED BY <1>1, <2>1 DEF NothingLost
  <1> QED BY <1>2, <1>3

\* The front of the queue is safe before it is taken off.
LEMMA FrontNext == IInv /\ FrontSafe /\ [Next]_vars => FrontSafe'
  <1> SUFFICES ASSUME IInv, FrontSafe, [Next]_vars PROVE FrontSafe'
    OBVIOUS
  <1> USE DEF clientVars, netVars, loggerVars, obsVars
  <1>1. TypeOK /\ Queued /\ Fresh /\ OneUnderWay /\ FrontSafe
    BY DEF IInv
  <1>2. Recorded \subseteq Recorded'
    BY <1>1, StaysRecorded
  <1>3. /\ inbox \in [Ids -> Seq(Messages)] /\ acks \in [Ids -> 0 .. 1]
        /\ wpc \in [Ids -> {"none", "name", "entry", "confirm", "closed"}]
        /\ queue \in Seq(Messages)
        /\ lpc # "connect" => conn \in Ids
    BY <1>1 DEF TypeOK, Fresh
  <1>5. CASE UNCHANGED <<queue, lpc, conn, wpc, inbox, acks>>
    BY <1>1, <1>2, <1>5 DEF FrontSafe
  <1>6. CASE lpc' \notin {"confirm", "pop"}
    BY <1>6 DEF FrontSafe
  <1>7. CASE QueueData
    <2>1. UNCHANGED <<lpc, conn, wpc, inbox, acks>>
      BY <1>7 DEF QueueData
    <2>2. queue # <<>> => Head(queue') = Head(queue)
      BY <1>3, <1>7 DEF QueueData
    <2> QED BY <1>1, <1>2, <2>1, <2>2 DEF FrontSafe, Queued
  <1>8. CASE SendEntry
    <2>1. /\ lpc = "rest" /\ lpc' = "confirm" /\ conn \in Ids
          /\ UNCHANGED <<queue, conn, wpc, acks>>
      BY <1>1, <1>8 DEF SendEntry, Fresh
    <2>2. acks[conn] = 0 /\ wpc[conn] # "confirm"
      BY <1>1, <2>1 DEF OneUnderWay
    <2>3. ASSUME wpc[conn] = "entry", inbox'[conn] # <<>>
          PROVE  Head(inbox'[conn]) = Head(queue)
      <3>1. inbox[conn] = <<>>
        BY <1>1, <2>1, <2>3 DEF OneUnderWay
      <3>2. inbox'[conn] = Append(<<>>, Head(queue))
        BY <1>3, <1>8, <2>1, <2>3, <3>1 DEF SendEntry, Transmit
      <3> QED BY <3>2
    <2> QED BY <2>1, <2>2, <2>3 DEF FrontSafe
  <1>9. CASE Confirmed
    <2>1. Head(queue) \in Recorded
      BY <1>1, <1>9 DEF Confirmed, FrontSafe
    <2> QED BY <1>2, <1>9, <2>1 DEF Confirmed, FrontSafe
  <1>10. CASE LoggerThread
    BY <1>6, <1>8, <1>9, <1>10
       DEF LoggerThread, Connect, SendName, SendFails, ConfirmFails, Pop
  <1>11. ASSUME NEW k \in Ids, Writer(k) PROVE FrontSafe'
    <2>1. UNCHANGED <<queue, lpc, conn>>
      BY <1>11
         DEF Writer, ReadName, NoName, Write, Confirm, ConfirmationFails, End,
             Close
    <2>2. CASE lpc = "confirm" /\ k = conn
      <3>1. CASE ReadName(k)
        BY <1>1, <1>2, <1>3, <2>1, <2>2, <3>1 DEF ReadName, FrontSafe
      <3>2. CASE Write(k)
        <4>1. Head(inbox[k]) = Head(queue) /\ Head(inbox[k]) \in Recorded'
          BY <1>1, <2>2, <3>2, WrittenKept DEF Write, FrontSafe
        <4>2. wpc'[k] = "confirm"
          BY <1>3, <3>2 DEF Write
        <4> QED BY <2>1, <2>2, <4>1, <4>2 DEF FrontSafe
      <3>3. CASE Confirm(k)
        <4>1. Head(queue) \in Recorded' /\ inbox'[k] = <<>>
          BY <1>1, <1>2, <2>2, <3>3 DEF Confirm, FrontSafe, OneUnderWay
        <4> QED BY <2>1, <2>2, <4>1 DEF FrontSafe
      <3>4. ASSUME NoName(k) \/ Close(k) PROVE FrontSafe'
        BY <1>1, <1>2, <1>3, <2>1, <2>2, <3>4 DEF NoName, Close, FrontSafe
      <3> QED BY <1>11, <3>1, <3>2, <3>3, <3>4
              DEF Writer, ConfirmationFails, End
    <2>3. CASE lpc = "confirm" /\ k # conn
      <3>1. conn \in Ids
        BY <1>3, <2>3
      <3>2. /\ wpc'[conn] = wpc[conn] /\ inbox'[conn] = inbox[conn]
            /\ acks'[conn] = acks[conn]
        BY <1>3, <1>11, <2>3, <3>1
           DEF Writer, ReadName, NoName, Write, Confirm, ConfirmationFails, End,
               Close
      <3> QED BY <1>1, <1>2, <2>1, <2>3, <3>2 DEF FrontSafe
    <2>4. CASE lpc # "confirm"
      BY <1>1, <1>2, <2>1, <2>4 DEF FrontSafe
    <2> QED BY <2>2, <2>3, <2>4
  <1>12. ASSUME NEW k \in Ids, Break(k) PROVE FrontSafe'
    <2>1. UNCHANGED <<queue, lpc, conn, wpc, acks>>
      BY <1>12 DEF Break
    <2>2. \A l \in Ids : inbox'[l] \in {inbox[l], <<>>}
      BY <1>3, <1>12 DEF Break
    <2> QED BY <1>1, <1>2, <1>3, <2>1, <2>2 DEF FrontSafe
  <1>13. CASE KillLogger
    <2>1. UNCHANGED <<queue, lpc, conn, inbox, acks>>
      BY <1>13 DEF KillLogger
    <2>2. \A l \in Ids : wpc'[l] \in {"none", "closed"}
      BY <1>13 DEF KillLogger
    <2> QED BY <1>1, <1>2, <1>3, <2>1, <2>2 DEF FrontSafe
  <1> QED
    BY <1>5, <1>6, <1>7, <1>10, <1>11, <1>12, <1>13
       DEF Next, vars, RestartClient, Stop, RestartLogger

\* An entry that was confirmed to the client is in the file or in a stream
\* that will write it, unless the logger was killed with it.
THEOREM KeepsEntries == Spec => []NothingLost
  <1>1. Init => Kept
    BY DEF Init, Kept, NothingLost, FrontSafe
  <1>2. Kept <=> NothingLost /\ FrontSafe
    BY DEF Kept
  <1> QED
    BY InvInit, InvNext, ConfirmedNext, FrontNext, <1>1, <1>2, PTL DEF Spec

-------------------------------------------------------------------------------
(* The order of the entries of the file. *)

\* Numbers the comparisons are about.
LEMMA Numbers ==
    ASSUME TypeOK
    PROVE  /\ AtFront \in Int
           /\ \A k \in Ids : Of(k) \subseteq Nat
           /\ \A k \in Ids : Pending(k) => Head(inbox[k]) \in Nat
  <1>1. pushed \in Nat /\ Len(queue) \in Nat
    BY LogAssumption DEF TypeOK
  <1>2. ASSUME NEW k \in Ids
        PROVE  /\ Of(k) \subseteq Nat
               /\ inbox[k] # <<>> => Head(inbox[k]) \in Nat
    <2>1. /\ held[k] \in Seq(Messages) /\ inbox[k] \in Seq(Messages)
          /\ file \in Seq(Messages) /\ Len(writer) = Len(file)
          /\ writer \in Seq(Ids)
      BY DEF TypeOK
    <2>2. \A i \in DOMAIN writer : file[i] \in Messages
      BY <2>1
    <2>3. Filed(k) \subseteq Messages
      BY <2>1 DEF Filed
    <2>4. Range(held[k]) \subseteq Messages
      BY <2>1 DEF Range
    <2> QED BY <2>1, <2>3, <2>4, Sequences DEF Of
  <1> QED BY <1>1, <1>2 DEF AtFront, Pending

\* A connection not made yet has nothing in the file.
LEMMA Unused ==
    ASSUME IInv, NEW k \in Ids, conn < k
    PROVE  Of(k) = {} /\ wpc[k] = "none"
  <1>1. conn \in Nat /\ k \in Nat /\ Ids \subseteq Nat
    BY LogAssumption DEF IInv, TypeOK, Ids, NoConnection
  <1>2. /\ wpc[k] = "none" /\ held[k] = <<>>
        /\ \A i \in DOMAIN writer : writer[i] <= conn
    BY <1>1 DEF IInv, Fresh
  <1>3. file \in Seq(Messages) /\ writer \in Seq(Ids) /\ Len(writer) = Len(file)
    BY DEF IInv, TypeOK
  <1>4. \A i \in DOMAIN file : writer[i] # k
    BY <1>1, <1>2, <1>3
  <1>5. Filed(k) = {}
    BY <1>4 DEF Filed
  <1> QED BY <1>2, <1>5, Ranges DEF Of

\* What a thread has written after it put entries into the file.
LEMMA Filing ==
    ASSUME TypeOK, NEW k \in Ids, NEW s \in Seq(Messages), Put(k, s)
    PROVE  /\ Filed(k)' \subseteq Filed(k) \union Range(s)
           /\ \A l \in Ids : l # k => Filed(l)' \subseteq Filed(l)
  <1> SUFFICES ASSUME NEW l \in Ids, NEW i \in DOMAIN file', writer'[i] = l
               PROVE  \/ file'[i] \in Filed(l)
                      \/ l = k /\ file'[i] \in Range(s)
    BY DEF Filed
  <1> QED BY Places DEF Filed, Range

\* A thread that writes has what it had and the entry it has read.
LEMMA WriteOf ==
    ASSUME TypeOK, NEW k \in Ids, Write(k)
    PROVE  /\ Of(k)' \subseteq Of(k) \union {Head(inbox[k])}
           /\ \A l \in Ids : l # k => Of(l)' \subseteq Of(l)
  <1> DEFINE entry == Head(inbox[k])
             all == Append(held[k], entry)
  <1>1. /\ entry \in Messages /\ held[k] \in Seq(Messages)
        /\ all \in Seq(Messages)
        /\ \/ Put(k, all) /\ held' = [held EXCEPT ![k] = <<>>]
           \/ held' = [held EXCEPT ![k] = all] /\ UNCHANGED <<file, writer>>
    BY Writing
  <1>2. Range(all) = Range(held[k]) \union {entry}
    BY <1>1, Ranges
  <1>3. held \in [Ids -> Seq(Messages)]
    BY DEF TypeOK
  <1>4. \A l \in Ids : l # k => held'[l] = held[l]
    BY <1>1, <1>3
  <1> HIDE DEF all
  <1>5. CASE Put(k, all) /\ held' = [held EXCEPT ![k] = <<>>]
    <2>1. held'[k] = <<>>
      BY <1>3, <1>5
    <2> QED BY <1>1, <1>2, <1>4, <1>5, <2>1, Filing, Ranges DEF Of
  <1>6. CASE held' = [held EXCEPT ![k] = all] /\ UNCHANGED <<file, writer>>
    <2>1. held'[k] = all
      BY <1>3, <1>6
    <2>2. \A l \in Ids : Filed(l)' = Filed(l)
      BY <1>6 DEF Filed
    <2> QED BY <1>2, <1>4, <2>1, <2>2 DEF Of
  <1> QED BY <1>1, <1>5, <1>6

\* A thread that closes its stream has what it had.
LEMMA CloseOf ==
    ASSUME TypeOK, NEW k \in Ids, Close(k)
    PROVE  \A l \in Ids : Of(l)' \subseteq Of(l)
  <1>1. held \in [Ids -> Seq(Messages)] /\ held[k] \in Seq(Messages)
    BY DEF TypeOK
  <1>2. held'[k] = <<>> /\ \A l \in Ids : l # k => held'[l] = held[l]
    BY <1>1 DEF Close
  <1>3. Put(k, held[k])
    BY DEF Close
  <1> QED BY <1>1, <1>2, <1>3, Filing, Ranges DEF Of

\* No other step adds to what a thread wrote or holds.
LEMMA QuietOf ==
    ASSUME TypeOK, [Next]_vars, \A k \in Ids : ~Write(k)
    PROVE  \A k \in Ids : Of(k)' \subseteq Of(k)
  <1> USE DEF clientVars, netVars, loggerVars, obsVars
  <1>1. CASE UNCHANGED <<file, writer, held>>
    BY <1>1 DEF Of, Filed
  <1>2. CASE KillLogger
    <2>1. UNCHANGED <<file, writer>> /\ \A k \in Ids : held'[k] = <<>>
      BY <1>2 DEF KillLogger
    <2> QED BY <2>1, Ranges DEF Of, Filed
  <1>3. ASSUME NEW k \in Ids, Close(k)
        PROVE  \A l \in Ids : Of(l)' \subseteq Of(l)
    BY <1>3, CloseOf
  <1> QED
    BY <1>1, <1>2, <1>3
       DEF Next, vars, QueueData, LoggerThread, RestartClient, Stop,
           RestartLogger, Connect, SendName, SendEntry, SendFails, Confirmed,
           ConfirmFails, Pop, Writer, ReadName, NoName, Confirm,
           ConfirmationFails, End, Break

\* Entries put into the file in a row after those of their writer.
LEMMA PutInRow ==
    ASSUME TypeOK, InRow, NEW k \in Ids, NEW s \in Seq(Messages), Put(k, s),
           Ascending(s), After(k, s), held' = [held EXCEPT ![k] = <<>>]
    PROVE  InRow'
  <1>1. ASSUME NEW i \in DOMAIN file', NEW j \in DOMAIN file',
               writer'[i] = writer'[j], i < j
        PROVE  file'[i] < file'[j]
    <2>1. CASE i > Len(file)
      <3>1. /\ i - Len(file) \in DOMAIN s /\ j - Len(file) \in DOMAIN s
            /\ file'[i] = s[i - Len(file)] /\ file'[j] = s[j - Len(file)]
            /\ i - Len(file) < j - Len(file)
        BY <1>1, <2>1, Places
      <3> QED BY <3>1 DEF Ascending
    <2>2. CASE i <= Len(file) /\ j > Len(file)
      <3>1. /\ i \in DOMAIN file /\ file'[i] = file[i] /\ writer[i] = k
            /\ j - Len(file) \in DOMAIN s /\ file'[j] = s[j - Len(file)]
        BY <1>1, <2>2, Places
      <3>2. file[i] \in Filed(k)
        BY <3>1 DEF Filed
      <3> QED BY <3>1, <3>2 DEF After
    <2>3. CASE i <= Len(file) /\ j <= Len(file)
      <3>1. /\ i \in DOMAIN file /\ j \in DOMAIN file
            /\ file'[i] = file[i] /\ file'[j] = file[j]
            /\ writer'[i] = writer[i] /\ writer'[j] = writer[j]
        BY <2>3, Places
      <3> QED BY <1>1, <3>1 DEF InRow
    <2>4. i \in Nat /\ j \in Nat /\ Len(file) \in Nat
      BY Places
    <2> QED BY <2>1, <2>2, <2>3, <2>4
  <1>2. ASSUME NEW l \in Ids
        PROVE  /\ Ascending(held'[l])
               /\ \A e \in Filed(l)' :
                    \A j \in DOMAIN held'[l] : e < held'[l][j]
    <2>1. held \in [Ids -> Seq(Messages)]
      BY DEF TypeOK
    <2>2. CASE l = k
      <3>1. held'[l] = <<>>
        BY <2>1, <2>2
      <3> QED BY <3>1 DEF Ascending
    <2>3. CASE l # k
      <3>1. held'[l] = held[l] /\ Filed(l)' \subseteq Filed(l)
        BY <2>1, <2>3, Filing
      <3> QED BY <3>1 DEF InRow, Ascending, After
    <2> QED BY <2>2, <2>3
  <1> QED BY <1>1, <1>2 DEF InRow, Ascending, After

\* The entry that is read comes last on its connection.
LEMMA WriteInRow ==
    ASSUME IInv, Ordered, NEW k \in Ids, Write(k)
    PROVE  InRow'
  <1> DEFINE entry == Head(inbox[k])
             all == Append(held[k], entry)
  <1>1. TypeOK /\ InRow
    BY DEF IInv, Ordered
  <1>2. /\ entry \in Messages /\ held[k] \in Seq(Messages)
        /\ all \in Seq(Messages)
        /\ \/ Put(k, all) /\ held' = [held EXCEPT ![k] = <<>>]
           \/ held' = [held EXCEPT ![k] = all] /\ UNCHANGED <<file, writer>>
    BY <1>1, Writing
  <1>3. \A e \in Of(k) : e < entry
    BY DEF Ordered, InPlace, Write, Pending
  <1>4. /\ DOMAIN all = 1 .. Len(held[k]) + 1 /\ Len(held[k]) \in Nat
        /\ DOMAIN held[k] = 1 .. Len(held[k])
        /\ \A i \in 1 .. Len(held[k]) : all[i] = held[k][i]
        /\ all[Len(held[k]) + 1] = entry
    BY <1>2
  <1>5. \A i \in 1 .. Len(held[k]) : held[k][i] < entry
    BY <1>3, <1>4 DEF Of, Range
  <1>6. Ascending(held[k]) /\ After(k, held[k])
    BY <1>1 DEF InRow
  <1> HIDE DEF all
  <1>7. Ascending(all)
    <2> SUFFICES ASSUME NEW i \in DOMAIN all, NEW j \in DOMAIN all, i < j
                 PROVE  all[i] < all[j]
      BY DEF Ascending
    <2>1. i \in 1 .. Len(held[k])
      BY <1>4
    <2>2. CASE j \in 1 .. Len(held[k])
      BY <1>4, <1>6, <2>1, <2>2 DEF Ascending
    <2>3. CASE j = Len(held[k]) + 1
      BY <1>4, <1>5, <2>1, <2>3
    <2> QED BY <1>4, <2>2, <2>3
  <1>8. After(k, all)
    <2> SUFFICES ASSUME NEW e \in Filed(k), NEW j \in DOMAIN all
                 PROVE  e < all[j]
      BY DEF After
    <2>1. CASE j \in 1 .. Len(held[k])
      BY <1>4, <1>6, <2>1 DEF After
    <2>2. CASE j = Len(held[k]) + 1
      BY <1>3, <1>4, <2>2 DEF Of
    <2> QED BY <1>4, <2>1, <2>2
  <1>9. CASE Put(k, all) /\ held' = [held EXCEPT ![k] = <<>>]
    BY <1>1, <1>2, <1>7, <1>8, <1>9, PutInRow
  <1>10. CASE held' = [held EXCEPT ![k] = all] /\ UNCHANGED <<file, writer>>
    <2>1. \A l \in Ids : held'[l] = IF l = k THEN all ELSE held[l]
      BY <1>1, <1>10 DEF TypeOK
    <2>2. \A l \in Ids : Filed(l)' = Filed(l)
      BY <1>10 DEF Filed
    <2>3. \A l \in Ids : Ascending(held'[l])
      BY <1>1, <1>7, <2>1 DEF InRow
    <2>4. \A l \in Ids : \A e \in Filed(l)' :
            \A j \in DOMAIN held'[l] : e < held'[l][j]
      BY <1>1, <1>8, <2>1, <2>2 DEF InRow, After
    <2> QED BY <1>1, <1>10, <2>3, <2>4 DEF InRow, Ascending, After
  <1> QED BY <1>2, <1>9, <1>10

\* No other step takes entries out of their row.
LEMMA QuietInRow ==
    ASSUME IInv, InRow, [Next]_vars, \A k \in Ids : ~Write(k)
    PROVE  InRow'
  <1> USE DEF clientVars, netVars, loggerVars, obsVars
  <1>1. CASE UNCHANGED <<file, writer, held>>
    BY <1>1 DEF InRow, After, Filed, Ascending
  <1>2. CASE KillLogger
    <2>1. UNCHANGED <<file, writer>> /\ \A k \in Ids : held'[k] = <<>>
      BY <1>2 DEF KillLogger
    <2> QED BY <2>1 DEF InRow, After, Ascending
  <1>3. ASSUME NEW k \in Ids, Close(k) PROVE InRow'
    <2>1. TypeOK /\ held[k] \in Seq(Messages)
      BY DEF IInv, TypeOK
    <2>2. Ascending(held[k]) /\ After(k, held[k])
      BY DEF InRow
    <2>3. Put(k, held[k]) /\ held' = [held EXCEPT ![k] = <<>>]
      BY <1>3 DEF Close
    <2> QED BY <2>1, <2>2, <2>3, PutInRow
  <1> QED
    BY <1>1, <1>2, <1>3
       DEF Next, vars, QueueData, LoggerThread, RestartClient, Stop,
           RestartLogger, Connect, SendName, SendEntry, SendFails, Confirmed,
           ConfirmFails, Pop, Writer, ReadName, NoName, Confirm,
           ConfirmationFails, End, Break

\* The front never goes back, and moves on when an entry is taken off.
LEMMA FrontGrows ==
    ASSUME IInv, [Next]_vars
    PROVE  AtFront <= AtFront' /\ (Pop => AtFront' = AtFront + 1)
  <1> USE DEF AtFront, clientVars, netVars, loggerVars, obsVars
  <1>1. /\ pushed \in Nat /\ queue \in Seq(Messages) /\ Len(queue) \in Nat
        /\ lpc = "pop" => queue # <<>>
    BY LogAssumption DEF IInv, TypeOK, Queued
  <1>2. CASE UNCHANGED <<pushed, queue>>
    <2>1. ~Pop
      BY <1>1, <1>2 DEF Pop
    <2> QED BY <1>1, <1>2, <2>1
  <1>3. CASE QueueData
    <2>1. Len(queue') = Len(queue) + 2 /\ pushed' = pushed + 2
      BY <1>1, <1>3 DEF QueueData
    <2>2. ~Pop
      BY <1>1, <1>3, <2>1 DEF Pop, QueueData
    <2> QED BY <1>1, <2>1, <2>2
  <1>4. CASE Pop
    <2>1. Len(queue') = Len(queue) - 1 /\ pushed' = pushed
      BY <1>1, <1>4 DEF Pop
    <2> QED BY <1>1, <2>1
  <1>5. CASE RestartClient
    <2>1. Len(queue') = 0 /\ pushed' = pushed /\ ~Pop
      BY <1>5 DEF RestartClient, Pop
    <2> QED BY <1>1, <2>1
  <1> QED
    BY <1>2, <1>3, <1>4, <1>5
       DEF Next, vars, LoggerThread, Connect, SendName, SendEntry, SendFails,
           Confirmed, ConfirmFails, Writer, ReadName, NoName, Write, Confirm,
           ConfirmationFails, End, Close, Break, Stop, RestartLogger, KillLogger

\* Only SendEntry makes an entry wait, and only Write takes one away.
LEMMA Waiting ==
    ASSUME IInv, IInv', [Next]_vars, NEW k \in Ids, Pending(k)',
           ~(SendEntry /\ k = conn)
    PROVE  Pending(k) /\ inbox'[k] = inbox[k]
  <1> USE DEF Pending, clientVars, netVars, loggerVars, obsVars
  <1>1. /\ inbox \in [Ids -> Seq(Messages)]
        /\ wpc \in [Ids -> {"none", "name", "entry", "confirm", "closed"}]
        /\ TypeOK /\ OneUnderWay /\ Fresh
    BY DEF IInv, TypeOK
  <1>2. CASE UNCHANGED <<inbox, wpc>>
    BY <1>2
  <1>3. CASE Connect
    <2>1. inbox' = inbox /\ wpc' = [wpc EXCEPT ![conn + 1] = "name"]
      BY <1>3 DEF Connect
    <2> QED BY <1>1, <2>1
  <1>4. CASE SendName
    <2>1. wpc' = wpc /\ conn \in Ids /\ wpc[conn] \in {"name", "closed"}
      BY <1>1, <1>4 DEF SendName, OneUnderWay, Fresh
    <2> QED BY <1>1, <1>4, <2>1 DEF SendName, Transmit
  <1>5. CASE SendEntry
    <2>1. wpc' = wpc /\ conn \in Ids
      BY <1>1, <1>5 DEF SendEntry, Fresh
    <2> QED BY <1>1, <1>5, <2>1 DEF SendEntry, Transmit
  <1>6. ASSUME NEW l \in Ids, Writer(l)
        PROVE  Pending(k) /\ inbox'[k] = inbox[k]
    <2>1. CASE ReadName(l)
      BY <1>1, <2>1 DEF ReadName
    <2>2. CASE NoName(l)
      BY <1>1, <2>2 DEF NoName
    <2>3. CASE Write(l)
      BY <1>1, <2>3 DEF Write
    <2>4. CASE Confirm(l)
      BY <1>1, <2>4 DEF Confirm, OneUnderWay
    <2>5. CASE Close(l)
      BY <1>1, <2>5 DEF Close
    <2> QED BY <1>6, <2>1, <2>2, <2>3, <2>4, <2>5
            DEF Writer, ConfirmationFails, End
  <1>7. ASSUME NEW l \in Ids, Break(l)
        PROVE  Pending(k) /\ inbox'[k] = inbox[k]
    BY <1>1, <1>7 DEF Break
  <1>8. CASE KillLogger
    BY <1>8 DEF KillLogger
  <1> QED
    BY <1>2, <1>3, <1>4, <1>5, <1>6, <1>7, <1>8
       DEF Next, vars, QueueData, LoggerThread, SendFails, Confirmed,
           ConfirmFails, Pop, RestartClient, Stop, RestartLogger

\* A client that is about to send on a connection has nothing of it with the
\* logger that is not behind the front.
LEMMA AboutToSend ==
    ASSUME IInv, Behind, [Next]_vars, lpc' \in {"name", "rest"}
    PROVE  \A e \in Of(conn)' : e < AtFront'
  <1> USE DEF clientVars, netVars, loggerVars, obsVars
  <1>1. TypeOK /\ OneUnderWay /\ Fresh
    BY DEF IInv
  <1>2. /\ AtFront <= AtFront' /\ (Pop => AtFront' = AtFront + 1)
        /\ AtFront \in Int /\ \A k \in Ids : Of(k) \subseteq Nat
    BY <1>1, FrontGrows, Numbers
  <1>3. AtFront' \in Int
    <2>1. TypeOK'
      BY TypeNext
    <2> QED BY <2>1, LogAssumption DEF AtFront, TypeOK
  <1>4. CASE Connect
    <2>1. /\ conn' = conn + 1 /\ conn + 1 \in Ids /\ conn < conn + 1
          /\ UNCHANGED <<file, writer, held>>
      BY <1>1, <1>4, LogAssumption DEF Connect, Ids, TypeOK, NoConnection
    <2>2. Of(conn + 1) = {}
      BY <2>1, Unused
    <2> QED BY <2>1, <2>2 DEF Of, Filed
  <1>5. CASE Pop
    <2>1. conn' = conn /\ UNCHANGED <<file, writer, held>> /\ conn \in Ids
      BY <1>1, <1>5 DEF Pop, Fresh
    <2>2. Of(conn)' = Of(conn)
      BY <2>1 DEF Of, Filed
    <2>3. \A e \in Of(conn) : e <= AtFront /\ e \in Nat
      BY <1>2, <2>1 DEF Behind
    <2> QED BY <1>2, <1>3, <1>5, <2>2, <2>3
  <1>6. CASE ~Connect /\ ~Pop
    <2>1. lpc \in {"name", "rest"} /\ conn' = conn
      BY <1>6
         DEF Next, vars, QueueData, LoggerThread, RestartClient, Stop,
             RestartLogger, KillLogger, SendName, SendEntry, SendFails,
             Confirmed, ConfirmFails, Writer, ReadName, NoName, Write, Confirm,
             ConfirmationFails, End, Close, Break
    <2>2. conn \in Ids
      BY <1>1, <2>1 DEF Fresh
    <2>3. ASSUME NEW c \in Ids, c = conn PROVE Of(c)' \subseteq Of(c)
      <3>1. CASE \A k \in Ids : ~Write(k)
        BY <1>1, <3>1, QuietOf
      <3>2. ASSUME NEW k \in Ids, Write(k) PROVE Of(c)' \subseteq Of(c)
        <4>1. k # c
          BY <1>1, <2>1, <2>3, <3>2 DEF Write, OneUnderWay
        <4> QED BY <1>1, <3>2, <4>1, WriteOf
      <3> QED BY <3>1, <3>2
    <2>4. PICK c \in Ids : c = conn
      BY <2>2
    <2>5. \A e \in Of(c) : e < AtFront /\ e \in Nat
      BY <1>2, <2>1, <2>4 DEF Behind
    <2>6. \A e \in Of(c)' : e < AtFront'
      BY <1>2, <1>3, <2>3, <2>4, <2>5
    <2>7. Of(conn)' = Of(c)'
      BY <2>1, <2>4
    <2> QED BY <2>6, <2>7
  <1> QED BY <1>4, <1>5, <1>6

\* A step that neither sends nor reads an entry keeps the order.
LEMMA QuietOrdered ==
    ASSUME IInv, IInv', Ordered, [Next]_vars,
           ~SendEntry, \A k \in Ids : ~Write(k)
    PROVE  Ordered'
  <1>1. \A k \in Ids : Of(k)' \subseteq Of(k)
    BY QuietOf DEF IInv
  <1>2. \A k \in Ids : Pending(k)' => Pending(k) /\ inbox'[k] = inbox[k]
    BY Waiting
  <1>3. AtFront <= AtFront' /\ AtFront \in Int /\ AtFront' \in Int
    <2>1. TypeOK /\ TypeOK'
      BY DEF IInv
    <2> QED BY <2>1, FrontGrows, LogAssumption DEF AtFront, TypeOK
  <1>4. /\ \A k \in Ids : Of(k) \subseteq Nat
        /\ \A k \in Ids : Pending(k) => Head(inbox[k]) \in Nat
    BY Numbers DEF IInv
  <1>5. Across' /\ InRow'
    BY <1>1, QuietInRow DEF Ordered, Across
  <1>6. Behind'
    <2>1. \A k \in Ids : \A e \in Of(k) : e <= AtFront /\ e \in Nat
      BY <1>4 DEF Ordered, Behind
    <2>2. \A k \in Ids : \A e \in Of(k)' : e <= AtFront'
      BY <1>1, <1>3, <2>1
    <2>3. lpc' \in {"name", "rest"} => \A e \in Of(conn)' : e < AtFront'
      BY AboutToSend DEF Ordered
    <2> QED BY <2>2, <2>3 DEF Behind
  <1>7. InPlace'
    <2> SUFFICES ASSUME NEW k \in Ids, Pending(k)'
                 PROVE  /\ Head(inbox'[k]) <= AtFront'
                        /\ \A e \in Of(k)' : e < Head(inbox'[k])
                        /\ \A l \in Ids : \A e \in Of(l)' :
                            /\ l < k => e <= Head(inbox'[k])
                            /\ k < l => Head(inbox'[k]) <= e
                        /\ \A l \in Ids : k < l /\ Pending(l)' =>
                            Head(inbox'[k]) <= Head(inbox'[l])
      BY DEF InPlace
    <2>1. Pending(k) /\ inbox'[k] = inbox[k]
      BY <1>2
    <2>2. Head(inbox'[k]) <= AtFront'
      <3>1. Head(inbox[k]) <= AtFront
        BY <2>1 DEF Ordered, InPlace
      <3> QED BY <1>3, <1>4, <2>1, <3>1
    <2>3. /\ \A e \in Of(k) : e < Head(inbox[k])
          /\ \A l \in Ids : \A e \in Of(l) :
                /\ l < k => e <= Head(inbox[k])
                /\ k < l => Head(inbox[k]) <= e
      BY <2>1 DEF Ordered, InPlace
    <2>4. \A l \in Ids : k < l /\ Pending(l) =>
            Head(inbox[k]) <= Head(inbox[l])
      BY <2>1 DEF Ordered, InPlace
    <2> QED BY <1>1, <1>2, <2>1, <2>2, <2>3, <2>4
  <1> QED BY <1>5, <1>6, <1>7 DEF Ordered

\* The front of the queue, whose turn it is, is an entry that was pushed.
LEMMA QueueFront ==
    ASSUME TypeOK, Queued, queue # <<>>
    PROVE  Head(queue) = AtFront /\ Head(queue) \in 1 .. pushed
  <1>1. queue \in Seq(Messages) /\ Len(queue) \in Nat \ {0} /\ pushed \in Nat
    BY LogAssumption DEF TypeOK
  <1>2. 1 \in 1 .. Len(queue)
    BY <1>1
  <1>3. Head(queue) = pushed - Len(queue) + 1 /\ Len(queue) <= pushed
    BY <1>1, <1>2 DEF Queued
  <1> QED BY <1>1, <1>3 DEF AtFront

\* The entry sent is the one at the front: later than what the logger has, or
\* has yet to read, of earlier connections.
LEMMA SentOrdered ==
    ASSUME IInv, IInv', Ordered, SendEntry
    PROVE  Ordered'
  <1> USE DEF clientVars, netVars, loggerVars, obsVars
  <1>1. TypeOK /\ Queued /\ Fresh /\ OneUnderWay
    BY DEF IInv
  <1>2. /\ lpc = "rest" /\ lpc' = "confirm" /\ conn \in Ids /\ queue # <<>>
        /\ UNCHANGED <<pushed, queue, conn, wpc, file, writer, held>>
    BY <1>1 DEF SendEntry, Fresh
  <1>3. AtFront' = AtFront /\ AtFront \in Int
    BY <1>1, <1>2, Numbers DEF AtFront
  <1>4. Head(queue) = AtFront
    BY <1>1, <1>2, QueueFront
  <1>5. \A k \in Ids : Of(k)' = Of(k)
    BY <1>2 DEF Of, Filed
  <1>6. Across' /\ InRow'
    <2>1. ~(\E k \in Ids : Write(k))
      BY <1>2 DEF Write
    <2> QED BY <1>5, <2>1, QuietInRow DEF Ordered, Across, Next, LoggerThread
  <1>7. Behind'
    <2>1. lpc' \notin {"name", "rest"}
      BY <1>2
    <2> QED BY <1>3, <1>5, <2>1 DEF Ordered, Behind
  <1>8. Pending(conn)' => Head(inbox'[conn]) = AtFront
    <2> SUFFICES ASSUME Pending(conn)' PROVE Head(inbox'[conn]) = AtFront
      OBVIOUS
    <2>1. wpc[conn] = "entry" /\ inbox'[conn] # <<>>
      BY <1>2 DEF Pending
    <2>2. inbox[conn] = <<>> /\ inbox \in [Ids -> Seq(Messages)]
      BY <1>1, <1>2, <2>1 DEF OneUnderWay, TypeOK
    <2>3. inbox'[conn] = Append(<<>>, Head(queue))
      BY <1>2, <2>1, <2>2 DEF SendEntry, Transmit
    <2> QED BY <1>4, <2>3
  <1>9. \A k \in Ids : k # conn /\ Pending(k)' =>
            Pending(k) /\ inbox'[k] = inbox[k]
    BY <1>2, Waiting DEF Next, LoggerThread
  <1>10. \A l \in Ids : conn < l => Of(l) = {} /\ ~Pending(l)'
    BY <1>2, Unused DEF Pending
  <1>11. InPlace'
    <2> SUFFICES ASSUME NEW k \in Ids, Pending(k)'
                 PROVE  /\ Head(inbox'[k]) <= AtFront'
                        /\ \A e \in Of(k)' : e < Head(inbox'[k])
                        /\ \A l \in Ids : \A e \in Of(l)' :
                            /\ l < k => e <= Head(inbox'[k])
                            /\ k < l => Head(inbox'[k]) <= e
                        /\ \A l \in Ids : k < l /\ Pending(l)' =>
                            Head(inbox'[k]) <= Head(inbox'[l])
      BY DEF InPlace
    <2>1. CASE k = conn
      <3>1. Head(inbox'[k]) = AtFront
        BY <1>2, <1>8, <2>1 DEF Pending
      <3>2. \A e \in Of(k) : e < AtFront
        BY <1>2, <2>1 DEF Ordered, Behind
      <3>3. \A l \in Ids : \A e \in Of(l) : e <= AtFront
        BY DEF Ordered, Behind
      <3>4. \A l \in Ids : k < l => Of(l) = {} /\ ~Pending(l)'
        BY <1>10, <2>1
      <3> QED BY <1>3, <1>5, <3>1, <3>2, <3>3, <3>4
    <2>2. CASE k # conn
      <3>1. Pending(k) /\ inbox'[k] = inbox[k]
        BY <1>9, <2>2
      <3>2. /\ Head(inbox[k]) <= AtFront
            /\ \A e \in Of(k) : e < Head(inbox[k])
            /\ \A l \in Ids : \A e \in Of(l) :
                /\ l < k => e <= Head(inbox[k])
                /\ k < l => Head(inbox[k]) <= e
        BY <3>1 DEF Ordered, InPlace
      <3>3. ASSUME NEW l \in Ids, k < l, Pending(l)'
            PROVE  Head(inbox[k]) <= Head(inbox'[l])
        <4>1. CASE l = conn
          BY <1>2, <1>8, <3>2, <3>3, <4>1 DEF Pending
        <4>2. CASE l # conn
          <5>1. Pending(l) /\ inbox'[l] = inbox[l]
            BY <1>9, <3>3, <4>2
          <5> QED BY <3>1, <3>3, <5>1 DEF Ordered, InPlace
        <4> QED BY <4>1, <4>2
      <3> QED BY <1>3, <1>5, <3>1, <3>2, <3>3
    <2> QED BY <2>1, <2>2
  <1> QED BY <1>6, <1>7, <1>11 DEF Ordered

\* An entry is written in the place it waited for.
LEMMA WriteOrdered ==
    ASSUME IInv, IInv', Ordered, NEW k \in Ids, Write(k)
    PROVE  Ordered'
  <1> DEFINE entry == Head(inbox[k])
  <1> USE DEF clientVars, netVars, loggerVars, obsVars
  <1>1. TypeOK /\ OneUnderWay
    BY DEF IInv
  <1>2. /\ Pending(k) /\ wpc'[k] = "confirm"
        /\ UNCHANGED <<pushed, queue, lpc, conn>>
    BY <1>1 DEF Write, Pending, TypeOK
  <1>3. \A l \in Ids : l # k =>
            /\ Of(l)' \subseteq Of(l)
            /\ inbox'[l] = inbox[l] /\ wpc'[l] = wpc[l]
    BY <1>1, WriteOf DEF Write, TypeOK
  <1>4. AtFront' = AtFront
    BY <1>2 DEF AtFront
  <1>5. Of(k)' \subseteq Of(k) \union {entry}
    BY <1>1, WriteOf
  <1>6. /\ entry <= AtFront
        /\ \A e \in Of(k) : e < entry
        /\ \A l \in Ids : \A e \in Of(l) :
            /\ l < k => e <= entry
            /\ k < l => entry <= e
        /\ \A l \in Ids : k < l /\ Pending(l) => entry <= Head(inbox[l])
    BY <1>2 DEF Ordered, InPlace
  <1>7. Ids \subseteq Nat
    BY DEF Ids
  <1> HIDE DEF entry
  <1>8. Across'
    <2> SUFFICES ASSUME NEW l \in Ids, NEW m \in Ids, l < m,
                        NEW e \in Of(l)', NEW f \in Of(m)'
                 PROVE  e <= f
      BY DEF Across
    <2>1. \A a \in Of(l) : \A b \in Of(m) : a <= b
      BY DEF Ordered, Across
    <2>2. l # m
      BY <1>7
    <2>3. CASE l = k
      <3>1. f \in Of(m) /\ (e \in Of(l) \/ e = entry)
        BY <1>3, <1>5, <2>2, <2>3
      <3> QED BY <1>6, <2>1, <2>3, <3>1
    <2>4. CASE m = k
      <3>1. e \in Of(l) /\ (f \in Of(m) \/ f = entry)
        BY <1>3, <1>5, <2>2, <2>4
      <3> QED BY <1>6, <2>1, <2>4, <3>1
    <2>5. CASE l # k /\ m # k
      BY <1>3, <2>1, <2>5
    <2> QED BY <2>3, <2>4, <2>5
  <1>9. InRow'
    BY WriteInRow
  <1>10. Behind'
    <2>1. ASSUME NEW l \in Ids, NEW e \in Of(l)'
          PROVE  e <= AtFront
      BY <1>3, <1>5, <1>6, <2>1 DEF Ordered, Behind
    <2>2. ASSUME lpc' \in {"name", "rest"}
          PROVE  \A e \in Of(conn)' : e < AtFront'
      BY <2>2, AboutToSend DEF Ordered, Next, Writer
    <2> QED BY <1>4, <2>1, <2>2 DEF Behind
  <1>11. InPlace'
    <2> SUFFICES ASSUME NEW m \in Ids, Pending(m)'
                 PROVE  /\ Head(inbox'[m]) <= AtFront'
                        /\ \A e \in Of(m)' : e < Head(inbox'[m])
                        /\ \A l \in Ids : \A e \in Of(l)' :
                            /\ l < m => e <= Head(inbox'[m])
                            /\ m < l => Head(inbox'[m]) <= e
                        /\ \A l \in Ids : m < l /\ Pending(l)' =>
                            Head(inbox'[m]) <= Head(inbox'[l])
      BY DEF InPlace
    <2>1. \A l \in Ids : Pending(l)' =>
            l # k /\ Pending(l) /\ inbox'[l] = inbox[l]
      BY <1>2, <1>3 DEF Pending
    <2>2. /\ Head(inbox[m]) <= AtFront
          /\ \A e \in Of(m) : e < Head(inbox[m])
          /\ \A l \in Ids : \A e \in Of(l) :
                /\ l < m => e <= Head(inbox[m])
                /\ m < l => Head(inbox[m]) <= e
          /\ \A l \in Ids : m < l /\ Pending(l) =>
                Head(inbox[m]) <= Head(inbox[l])
      BY <2>1 DEF Ordered, InPlace
    <2>3. ASSUME NEW l \in Ids, NEW e \in Of(l)'
          PROVE  /\ l < m => e <= Head(inbox[m])
                 /\ m < l => Head(inbox[m]) <= e
      <3>1. CASE l = k
        <4>1. /\ k < m => entry <= Head(inbox[m])
              /\ m < k => Head(inbox[m]) <= entry
          BY <1>2, <1>6, <2>1, <2>2 DEF entry
        <4> QED BY <1>5, <2>2, <2>3, <3>1, <4>1
      <3>2. CASE l # k
        BY <1>3, <2>2, <2>3, <3>2
      <3> QED BY <3>1, <3>2
    <2>4. Of(m)' \subseteq Of(m) /\ inbox'[m] = inbox[m]
      BY <1>3, <2>1
    <2> QED BY <1>4, <2>1, <2>2, <2>3, <2>4
  <1> QED BY <1>8, <1>9, <1>10, <1>11 DEF Ordered

\* The order survives every step.
LEMMA OrderedNext == IInv /\ IInv' /\ Ordered /\ [Next]_vars => Ordered'
  <1> SUFFICES ASSUME IInv, IInv', Ordered, [Next]_vars PROVE Ordered'
    OBVIOUS
  <1>1. CASE SendEntry
    BY <1>1, SentOrdered
  <1>2. ASSUME NEW k \in Ids, Write(k) PROVE Ordered'
    BY <1>2, WriteOrdered
  <1>3. CASE ~SendEntry /\ \A k \in Ids : ~Write(k)
    BY <1>3, QuietOrdered
  <1> QED BY <1>1, <1>2, <1>3

\* Nothing is out of order at first.
LEMMA InitOrdered == Init => Ordered
  <1> SUFFICES ASSUME Init PROVE Ordered
    OBVIOUS
  <1>1. /\ \A k \in Ids : held[k] = <<>> /\ ~Pending(k)
        /\ file = <<>> /\ lpc = "connect"
    BY DEF Init, Pending
  <1>2. \A k \in Ids : Of(k) = {}
    BY <1>1, Ranges DEF Of, Filed
  <1>3. InRow
    BY <1>1 DEF InRow, Ascending, After
  <1> QED BY <1>1, <1>2, <1>3 DEF Ordered, Across, Behind, InPlace

\* The entries of the file stand in the order they were queued, those of one
\* connection in a row and those of a later one not before, but for the entry
\* a later connection sends again.
THEOREM KeepsOrder == Spec => []OrderKept
  <1>1. ASSUME IInv, Ordered PROVE OrderKept
    <2> SUFFICES ASSUME NEW i \in DOMAIN file, NEW j \in DOMAIN file,
                        writer[i] < writer[j]
                 PROVE  file[i] <= file[j]
      BY <1>1 DEF Ordered, InRow, OrderKept
    <2>1. writer[i] \in Ids /\ writer[j] \in Ids
      BY <1>1 DEF IInv, TypeOK
    <2>2. file[i] \in Of(writer[i]) /\ file[j] \in Of(writer[j])
      BY DEF Of, Filed
    <2> QED BY <1>1, <2>1, <2>2 DEF Ordered, Across
  <1>2. IInv /\ Ordered => OrderKept
    BY <1>1
  <1> QED
    BY InvInit, InvNext, InitOrdered, OrderedNext, <1>2, PTL DEF Spec

-------------------------------------------------------------------------------
(* The log implements its promise. *)

\* What waits to be read is an entry that was pushed.
Genuine == \A k \in Ids : Pending(k) => Head(inbox[k]) \in 1 .. pushed

\* Entries are only ever added to those pushed.
LEMMA PushedGrows ==
    ASSUME IInv, [Next]_vars
    PROVE  pushed \in Nat /\ pushed' \in Nat /\ pushed <= pushed'
  <1> USE DEF clientVars, netVars, loggerVars, obsVars
  <1>1. pushed \in Nat
    BY LogAssumption DEF IInv, TypeOK
  <1>2. pushed' \in {pushed, pushed + 2}
    BY DEF Next, vars, QueueData, RestartClient, LoggerThread, Connect,
           SendName, SendEntry, SendFails, Confirmed, ConfirmFails, Pop, Writer,
           ReadName, NoName, Write, Confirm, ConfirmationFails, End, Close,
           Break, Stop, RestartLogger, KillLogger
  <1> QED BY <1>1, <1>2

LEMMA GenuineNext == IInv /\ IInv' /\ Genuine /\ [Next]_vars => Genuine'
  <1> SUFFICES ASSUME IInv, IInv', Genuine, [Next]_vars,
                      NEW k \in Ids, Pending(k)'
               PROVE  Head(inbox'[k]) \in 1 .. pushed'
    BY DEF Genuine
  <1> USE DEF clientVars, netVars, loggerVars, obsVars
  <1>1. TypeOK /\ Queued /\ Fresh /\ OneUnderWay
    BY DEF IInv
  <1>2. CASE SendEntry /\ k = conn
    <2>1. /\ lpc = "rest" /\ queue # <<>> /\ wpc' = wpc /\ pushed' = pushed
      BY <1>2 DEF SendEntry
    <2>2. wpc[conn] = "entry" /\ inbox'[conn] # <<>>
      BY <1>2, <2>1 DEF Pending
    <2>3. inbox[conn] = <<>> /\ inbox \in [Ids -> Seq(Messages)]
      BY <1>1, <2>1, <2>2 DEF OneUnderWay, TypeOK
    <2>4. inbox'[conn] = Append(<<>>, Head(queue))
      BY <1>2, <2>2, <2>3 DEF SendEntry, Transmit
    <2> QED BY <1>1, <1>2, <2>1, <2>4, QueueFront
  <1>3. CASE ~(SendEntry /\ k = conn)
    <2>1. Pending(k) /\ inbox'[k] = inbox[k]
      BY <1>3, Waiting
    <2>2. Head(inbox[k]) \in 1 .. pushed
      BY <2>1 DEF Genuine
    <2> QED BY <2>1, <2>2, PushedGrows
  <1> QED BY <1>2, <1>3

\* What the promise says of the start.
LEMMA InitPromised == Init => Log!Init
  <1> SUFFICES ASSUME Init PROVE Recorded = {}
    BY DEF Init, Log!Init
  <1>1. Range(file) = {} /\ killed = {} /\ \A k \in Ids : Range(held[k]) = {}
    BY Ranges DEF Init
  <1> QED BY <1>1 DEF Recorded

\* An entry that is written is one whose turn has come.
LEMMA WritePromised ==
    ASSUME IInv, Ordered, Genuine, NEW k \in Ids, Write(k)
    PROVE  Log!Next
  <1> DEFINE entry == Head(inbox[k])
  <1> USE DEF clientVars, netVars, loggerVars, obsVars
  <1>1. Pending(k) /\ UNCHANGED <<pushed, queue, confirmed>>
    BY DEF Write, Pending
  <1>2. entry \in 1 .. pushed /\ pushed \in Nat
    BY <1>1, LogAssumption DEF Genuine, IInv, TypeOK
  <1>3. entry <= Log!Turn
    BY <1>1 DEF Ordered, InPlace, AtFront, Log!Turn
  <1>4. Recorded' = Recorded \union {entry}
    BY WrittenKept DEF IInv
  <1>5. Log!Record(entry)
    BY <1>1, <1>2, <1>3, <1>4 DEF Log!Record
  <1> QED BY <1>2, <1>5 DEF Log!Next

\* Every step of the log is one of the promise's or leaves its state alone.
LEMMA StepPromised ==
    IInv /\ Kept /\ Ordered /\ Genuine /\ [Next]_vars
        => [Log!Next]_(Log!logVars)
  <1> SUFFICES ASSUME IInv, Kept, Ordered, Genuine, [Next]_vars
               PROVE  [Log!Next]_(Log!logVars)
    OBVIOUS
  <1> USE DEF clientVars, netVars, loggerVars, obsVars
  <1>1. TypeOK /\ Queued
    BY DEF IInv
  <1>2. ASSUME NEW k \in Ids, Write(k) PROVE Log!Next
    BY <1>2, WritePromised
  <1>3. CASE \A k \in Ids : ~Write(k)
    <2>1. Recorded' = Recorded
      BY <1>1, <1>3, RecordedNext
    <2>2. CASE QueueData
      <3>1. Log!Push
        BY <2>1, <2>2 DEF QueueData, Log!Push
      <3> QED BY <3>1 DEF Log!Next
    <2>3. CASE Pop
      <3>1. queue # <<>> /\ Head(queue) \in Recorded
        BY <1>1, <2>3 DEF Pop, Queued, Kept, FrontSafe
      <3>2. Log!Acknowledge
        BY <2>1, <2>3, <3>1 DEF Pop, Log!Acknowledge
      <3> QED BY <3>2 DEF Log!Next
    <2>4. CASE RestartClient
      <3>1. Log!Forget
        BY <2>1, <2>4 DEF RestartClient, Log!Forget
      <3> QED BY <3>1 DEF Log!Next
    <2>5. CASE ~QueueData /\ ~Pop /\ ~RestartClient
      <3>1. UNCHANGED <<pushed, queue, confirmed>>
        BY <2>5
           DEF Next, vars, LoggerThread, Connect, SendName, SendEntry,
               SendFails, Confirmed, ConfirmFails, Writer, ReadName, NoName,
               Write, Confirm, ConfirmationFails, End, Close, Break, Stop,
               RestartLogger, KillLogger
      <3> QED BY <2>1, <3>1 DEF Log!logVars
    <2> QED BY <2>2, <2>3, <2>4, <2>5
  <1> QED BY <1>2, <1>3

\* The log implements AtLeastOnce: an entry leaves the queue from the front
\* and only when it was recorded, and none is recorded before its turn.
THEOREM Implements == Spec => KeepsPromise
  <1>1. Init => Kept /\ Ordered /\ Genuine
    <2>1. Init => Kept /\ Ordered
      BY InitOrdered DEF Init, Kept, NothingLost, FrontSafe
    <2>2. Init => Genuine
      BY DEF Init, Genuine, Pending
    <2> QED BY <2>1, <2>2
  <1>2. IInv /\ IInv' /\ Kept /\ [Next]_vars => Kept'
    BY ConfirmedNext, FrontNext DEF Kept
  <1> QED
    BY InvInit, InvNext, OrderedNext, GenuineNext, InitPromised, StepPromised,
       <1>1, <1>2, PTL DEF Spec, KeepsPromise, Log!Spec
===============================================================================
