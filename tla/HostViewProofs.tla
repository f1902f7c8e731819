--------------------------- MODULE HostViewProofs ---------------------------
(***************************************************************************)
(* Proofs about HostView, for any nodes, threads, names and bounds.        *)
(***************************************************************************)
EXTENDS HostView, TLAPS

-----------------------------------------------------------------------------
(***************************************************************************)
(* The inductive invariants.                                               *)
(***************************************************************************)

\* No two ids are one node's.
OneIdEach == \A i, j \in Ids : directory[i] = directory[j] => i = j

\* An id the host holds is a node's, and goes with that node's name.
Says(i, n) == i \in Ids /\ n = device_name[directory[i]]
SaysAtMost(i, n) == i \in Ids /\ n \in {DefaultName, device_name[directory[i]]}

EntriesNamed == \A k \in 1..Len(_nodes) : SaysAtMost(_nodes[k].id, _nodes[k].name)
ReportsNamed == \A j \in 1..Len(up) : SaysAtMost(up[j].id, up[j].name)
RequestsNamed ==
    \A t \in Thread : request[t].at # "idle" => Says(request[t].id, request[t].name)
CommandsNamed == \A j \in 1..Len(down) : Says(down[j].id, down[j].name)

NameInv == EntriesNamed /\ ReportsNamed /\ RequestsNamed /\ CommandsNamed

\* No report from j on tells of the link of i.
NoNewsFrom(j, i) ==
    \A l \in j..Len(up) : up[l].id = i => up[l].cmd = "DEVICE_INFO_RESP"

Present == online \ forgotten
Takes(i) == \E k \in 1..Len(_nodes) : _nodes[k].id = i /\ _nodes[k].connected

\* The last report on the link of a node is what its link is now ...
LastNewsTrue ==
    \A j \in 1..Len(up), i \in Ids :
       /\ up[j].id = i /\ up[j].cmd # "DEVICE_INFO_RESP"
       /\ NoNewsFrom(j + 1, i)
       => (up[j].cmd = "PING" <=> i \in Present)

\* ... and with no report under way the host has it right.
ReadTrue == \A i \in Ids : NoNewsFrom(1, i) => (Takes(i) <=> i \in Present)

ViewInv == LastNewsTrue /\ ReadTrue

\* The host's mirror of the zone of i is z, or will be once every thread has
\* noted what it sent.
Mirrors(i, z) ==
    /\ \A t \in Thread : request[t].at = "sent" /\ request[t].id = i => request[t].zone = z
    /\ (\A t \in Thread : request[t].at = "sent" => request[t].id # i)
          => \A k \in 1..Len(_nodes) : _nodes[k].id = i => _nodes[k].zone = z

NoneDownFrom(j, i) == \A l \in j..Len(down) : down[l].id # i

\* Who asks for a node, and whose command is on the line, is known to the host.
AskedKnown ==
    \A i \in Ids :
       \/ \E t \in Thread : request[t].at # "idle" /\ request[t].id = i
       \/ \E j \in 1..Len(down) : down[j].kept /\ down[j].id = i
       => Known(i)

\* A node that never connected shows nothing, nor does one the host does not know.
DarkUnlessKnown ==
    /\ \A b \in Bda : (\A i \in Ids : directory[i] # b) => lit[b] = NoZone
    /\ \A i \in Ids \ missed : ~Known(i) => lit[directory[i]] = NoZone

\* The last command on its way to a node is what the mirror says or will say ...
LastCommandMirrored ==
    \A j \in 1..Len(down), i \in Ids \ crossed, z \in Setting :
       /\ down[j].id = i /\ down[j].zone = z /\ down[j].kept
       /\ NoneDownFrom(j + 1, i)
       => Mirrors(i, z)

\* ... and with none on its way so is what the node shows.
ShownMirrored ==
    \A i \in Ids \ (crossed \cup missed), z \in Setting :
       NoneDownFrom(1, i) /\ lit[directory[i]] = z => Mirrors(i, z)

MirrorInv == AskedKnown /\ DarkUnlessKnown /\ LastCommandMirrored /\ ShownMirrored

HostIInv == TypeOK /\ OneIdEach /\ NameInv /\ ViewInv /\ MirrorInv

-----------------------------------------------------------------------------
(***************************************************************************)
(* Sequences.                                                              *)
(***************************************************************************)
LEMMA AppendIs ==
  ASSUME NEW S, NEW s \in Seq(S), NEW e \in S
  PROVE  /\ Append(s, e) \in Seq(S)
         /\ Len(s) \in Nat
         /\ Len(Append(s, e)) = Len(s) + 1
         /\ \A j \in 1..Len(s) : Append(s, e)[j] = s[j]
         /\ Append(s, e)[Len(s) + 1] = e
  OBVIOUS

LEMMA TailIs ==
  ASSUME NEW S, NEW s \in Seq(S), s # <<>>
  PROVE  /\ Tail(s) \in Seq(S)
         /\ Head(s) = s[1] /\ s[1] \in S
         /\ Len(s) \in Nat \ {0}
         /\ Len(Tail(s)) = Len(s) - 1
         /\ \A j \in 1..(Len(s) - 1) : Tail(s)[j] = s[j + 1]
  OBVIOUS

LEMMA SeqOf ==
  ASSUME NEW S, NEW n \in Nat, NEW f \in [1..n -> S]
  PROVE  f \in Seq(S) /\ Len(f) = n
  OBVIOUS

LEMMA ElementsOf ==
  ASSUME NEW S, NEW s \in Seq(S)
  PROVE  Len(s) \in Nat /\ \A k \in 1..Len(s) : s[k] \in S
  OBVIOUS

-----------------------------------------------------------------------------
(***************************************************************************)
(* What the handlers do to the registry.                                   *)
(***************************************************************************)


\* An entry with one field altered.
LEMMA EntryAltered ==
  ASSUME NEW e \in Entry
  PROVE  /\ \A c \in BOOLEAN :
               LET f == [e EXCEPT !.connected = c]
               IN f \in Entry /\ f = [id |-> e.id, name |-> e.name, connected |-> c,
                                       zone |-> e.zone]
         /\ \A n \in Names :
               LET f == [e EXCEPT !.name = n]
               IN f \in Entry /\ f = [id |-> e.id, name |-> n, connected |-> e.connected,
                                       zone |-> e.zone]
         /\ \A z \in Setting :
               LET f == [e EXCEPT !.zone = z]
               IN f \in Entry /\ f = [id |-> e.id, name |-> e.name,
                                       connected |-> e.connected, zone |-> z]
  BY DEF Entry

\* The registry with the entries of an id altered: the same ids in the same
\* places.
LEMMA Altered ==
  ASSUME TypeOK, NEW i, NEW f \in [Entry -> Entry],
         \A e \in Entry : f[e].id = e.id,
         _nodes' = [k \in 1..Len(_nodes) |->
                      IF _nodes[k].id = i THEN f[_nodes[k]] ELSE _nodes[k]]
  PROVE  /\ _nodes' \in Seq(Entry) /\ Len(_nodes') = Len(_nodes)
         /\ \A k \in 1..Len(_nodes) :
               /\ _nodes'[k].id = _nodes[k].id
               /\ _nodes'[k] = IF _nodes[k].id = i THEN f[_nodes[k]] ELSE _nodes[k]
<1>1. Len(_nodes) \in Nat /\ \A k \in 1..Len(_nodes) : _nodes[k] \in Entry
  BY ElementsOf DEF TypeOK
<1>2. _nodes' \in [1..Len(_nodes) -> Entry]
  BY <1>1
<1> QED BY <1>1, <1>2, SeqOf

LEMMA PingKnown ==
  ASSUME TypeOK, NEW r \in Report, Ping(r), Known(r.id)
  PROVE  /\ _nodes' \in Seq(Entry) /\ Len(_nodes') = Len(_nodes)
         /\ \A k \in 1..Len(_nodes) :
               /\ _nodes'[k].id = _nodes[k].id
               /\ _nodes'[k].name = _nodes[k].name
               /\ _nodes'[k].zone = _nodes[k].zone
               /\ _nodes[k].id = r.id => _nodes'[k].connected
               /\ _nodes[k].id # r.id => _nodes'[k].connected = _nodes[k].connected
<1> DEFINE f == [e \in Entry |-> [e EXCEPT !.connected = TRUE]]
<1>1. \A e \in Entry : f[e] = [id |-> e.id, name |-> e.name, connected |-> TRUE,
                              zone |-> e.zone]
  BY EntryAltered
<1>2. f \in [Entry -> Entry]
  BY EntryAltered
<1>3. \A k \in 1..Len(_nodes) : _nodes[k] \in Entry
  BY ElementsOf DEF TypeOK
<1>4. _nodes' = [k \in 1..Len(_nodes) |->
                   IF _nodes[k].id = r.id THEN f[_nodes[k]] ELSE _nodes[k]]
  BY <1>3 DEF Ping, Updated
<1> HIDE DEF f
<1> QED BY <1>1, <1>2, <1>3, <1>4, Altered

LEMMA PingNew ==
  ASSUME TypeOK, NEW r \in Report, Ping(r), ~Known(r.id)
  PROVE  /\ _nodes' \in Seq(Entry) /\ Len(_nodes') = Len(_nodes) + 1
         /\ Len(_nodes) \in Nat
         /\ \A k \in 1..Len(_nodes) : _nodes'[k] = _nodes[k]
         /\ _nodes'[Len(_nodes) + 1] = NewEntry(r.id)
<1>1. NewEntry(r.id) \in Entry
  BY DEF NewEntry, Entry, Report, Setting
<1> QED BY <1>1, AppendIs DEF Ping, TypeOK

LEMMA ErrorDoes ==
  ASSUME TypeOK, NEW r \in Report, Error(r)
  PROVE  /\ _nodes' \in Seq(Entry) /\ Len(_nodes') = Len(_nodes)
         /\ \A k \in 1..Len(_nodes) :
               /\ _nodes'[k].id = _nodes[k].id
               /\ _nodes'[k].name = _nodes[k].name
               /\ _nodes'[k].zone = _nodes[k].zone
               /\ _nodes[k].id = r.id => ~_nodes'[k].connected
               /\ _nodes[k].id # r.id => _nodes'[k].connected = _nodes[k].connected
<1> DEFINE f == [e \in Entry |-> [e EXCEPT !.connected = FALSE]]
<1>1. \A e \in Entry : f[e] = [id |-> e.id, name |-> e.name, connected |-> FALSE,
                              zone |-> e.zone]
  BY EntryAltered
<1>2. f \in [Entry -> Entry]
  BY EntryAltered
<1>3. \A k \in 1..Len(_nodes) : _nodes[k] \in Entry
  BY ElementsOf DEF TypeOK
<1>4. _nodes' = [k \in 1..Len(_nodes) |->
                   IF _nodes[k].id = r.id THEN f[_nodes[k]] ELSE _nodes[k]]
  BY <1>3 DEF Error, Updated
<1> HIDE DEF f
<1> QED BY <1>1, <1>2, <1>3, <1>4, Altered

LEMMA DeviceInfoRespDoes ==
  ASSUME TypeOK, NEW r \in Report, DeviceInfoResp(r)
  PROVE  /\ _nodes' \in Seq(Entry) /\ Len(_nodes') = Len(_nodes)
         /\ \A k \in 1..Len(_nodes) :
               /\ _nodes'[k].id = _nodes[k].id
               /\ \/ _nodes'[k].name = _nodes[k].name
                  \/ _nodes[k].id = r.id /\ _nodes'[k].name = r.name
               /\ _nodes'[k].zone = _nodes[k].zone
               /\ _nodes'[k].connected = _nodes[k].connected
<1>1. CASE r.name = DefaultName
  BY <1>1 DEF DeviceInfoResp, TypeOK
<1>2. CASE r.name # DefaultName
  <2> DEFINE f == [e \in Entry |-> [e EXCEPT !.name = r.name]]
  <2>1. r.name \in Names
    BY <1>2 DEF Report
  <2>2. \A e \in Entry : f[e] = [id |-> e.id, name |-> r.name,
                                 connected |-> e.connected, zone |-> e.zone]
    BY <2>1, EntryAltered
  <2>3. f \in [Entry -> Entry]
    BY <2>1, EntryAltered
  <2>4. \A k \in 1..Len(_nodes) : _nodes[k] \in Entry
    BY ElementsOf DEF TypeOK
  <2>5. _nodes' = [k \in 1..Len(_nodes) |->
                     IF _nodes[k].id = r.id THEN f[_nodes[k]] ELSE _nodes[k]]
    BY <1>2, <2>4 DEF DeviceInfoResp, Updated
  <2> HIDE DEF f
  <2> QED BY <2>2, <2>3, <2>4, <2>5, Altered
<1> QED BY <1>1, <1>2

LEMMA RequestNotesDoes ==
  ASSUME TypeOK, NEW t \in Thread, RequestNotes(t)
  PROVE  /\ _nodes' \in Seq(Entry) /\ Len(_nodes') = Len(_nodes)
         /\ \A k \in 1..Len(_nodes) :
               /\ _nodes'[k].id = _nodes[k].id
               /\ _nodes'[k].name = _nodes[k].name
               /\ _nodes[k].id = request[t].id => _nodes'[k].zone = request[t].zone
               /\ _nodes[k].id # request[t].id => _nodes'[k].zone = _nodes[k].zone
               /\ _nodes'[k].connected = _nodes[k].connected
<1> DEFINE r == request[t]
<1> DEFINE f == [e \in Entry |-> [e EXCEPT !.zone = r.zone]]
<1>1. r.zone \in Setting
  BY DEF TypeOK, Request
<1>2. \A e \in Entry : f[e] = [id |-> e.id, name |-> e.name,
                               connected |-> e.connected, zone |-> r.zone]
  BY <1>1, EntryAltered
<1>3. f \in [Entry -> Entry]
  BY <1>1, EntryAltered
<1>4. \A k \in 1..Len(_nodes) : _nodes[k] \in Entry
  BY ElementsOf DEF TypeOK
<1>5. _nodes' = [k \in 1..Len(_nodes) |->
                   IF _nodes[k].id = r.id THEN f[_nodes[k]] ELSE _nodes[k]]
  BY <1>4 DEF RequestNotes, Updated
<1> HIDE DEF f
<1> QED BY <1>2, <1>3, <1>4, <1>5, Altered

LEMMA JoinDoes ==
  ASSUME directory \in Seq(Bda), NEW b \in Bda, Join(b)
  PROVE  /\ directory' \in Seq(Bda)
         /\ Len(directory) \in Nat /\ Len(directory') = Len(directory) + 1
         /\ Ids' = Ids \cup {Len(directory) + 1}
         /\ Len(directory) + 1 \notin Ids
         /\ \A i \in Ids : directory'[i] = directory[i] /\ directory[i] \in Bda
         /\ directory'[Len(directory) + 1] = b
         /\ online' = online \cup {Len(directory) + 1}
<1>1. directory' = Append(directory, b)
  BY DEF Join
<1>2. /\ directory' \in Seq(Bda)
      /\ Len(directory) \in Nat /\ Len(directory') = Len(directory) + 1
      /\ \A i \in 1..Len(directory) : directory'[i] = directory[i]
      /\ directory'[Len(directory) + 1] = b
  BY <1>1, AppendIs
<1>3. \A i \in 1..Len(directory) : directory[i] \in Bda
  BY ElementsOf
<1>4. Ids' = Ids \cup {Len(directory) + 1} /\ Len(directory) + 1 \notin Ids
  BY <1>2 DEF Ids
<1> QED BY <1>2, <1>3, <1>4 DEF Ids, Join

LEMMA ReportsDoes ==
  ASSUME TypeOK, NEW i \in Nat \ {0}, NEW cmd \in {"PING", "ERROR", "DEVICE_INFO_RESP"},
         NEW name \in Names \cup {DefaultName}, Reports(i, cmd, name)
  PROVE  /\ up' \in Seq(Report)
         /\ Len(up) \in Nat /\ Len(up') = Len(up) + 1
         /\ \A j \in 1..Len(up) : up'[j] = up[j]
         /\ up'[Len(up) + 1] = [id |-> i, cmd |-> cmd, name |-> name]
<1> DEFINE r == [id |-> i, cmd |-> cmd, name |-> name]
<1>1. r \in Report
  BY DEF Report
<1>2. up' = Append(up, r) /\ up \in Seq(Report)
  BY DEF Reports, TypeOK
<1> HIDE DEF r
<1>3. /\ up' \in Seq(Report)
      /\ Len(up) \in Nat /\ Len(up') = Len(up) + 1
      /\ \A j \in 1..Len(up) : up'[j] = up[j]
      /\ up'[Len(up) + 1] = r
  BY <1>1, <1>2, AppendIs
<1> QED BY <1>3 DEF r

LEMMA PollDoes ==
  ASSUME TypeOK, HostPolls
  PROVE  \E r \in Report :
            /\ r = up[1]
            /\ up' \in Seq(Report)
            /\ Len(up) \in Nat \ {0} /\ Len(up') = Len(up) - 1
            /\ \A j \in 1..(Len(up) - 1) : up'[j] = up[j + 1]
            /\ Ping(r) \/ Error(r) \/ DeviceInfoResp(r)
<1>1. up \in Seq(Report) /\ up # <<>> /\ up' = Tail(up)
  BY DEF TypeOK, HostPolls
<1>2. /\ up' \in Seq(Report)
      /\ Head(up) = up[1] /\ up[1] \in Report
      /\ Len(up) \in Nat \ {0} /\ Len(up') = Len(up) - 1
      /\ \A j \in 1..(Len(up) - 1) : up'[j] = up[j + 1]
  BY <1>1, TailIs
<1> QED BY <1>2 DEF HostPolls

LEMMA DeliveredDoes ==
  ASSUME TypeOK, Delivered
  PROVE  \E c \in Command :
            /\ c = down[1]
            /\ down' \in Seq(Command)
            /\ Len(down) \in Nat \ {0} /\ Len(down') = Len(down) - 1
            /\ \A j \in 1..(Len(down) - 1) : down'[j] = down[j + 1]
            /\ \/ /\ c.id \in online
                  /\ lit' = [lit EXCEPT ![directory[c.id]] = c.zone]
                  /\ missed' = IF c.kept THEN missed \ {c.id} ELSE missed \cup {c.id}
               \/ /\ missed' = missed \cup {c.id}
                  /\ UNCHANGED lit
<1>1. down \in Seq(Command) /\ down # <<>> /\ down' = Tail(down)
  BY DEF TypeOK, Delivered
<1>2. /\ down' \in Seq(Command)
      /\ Head(down) = down[1] /\ down[1] \in Command
      /\ Len(down) \in Nat \ {0} /\ Len(down') = Len(down) - 1
      /\ \A j \in 1..(Len(down) - 1) : down'[j] = down[j + 1]
  BY <1>1, TailIs
<1> QED BY <1>2 DEF Delivered

LEMMA SendDoes ==
  ASSUME TypeOK, NEW t \in Thread, RequestSends(t), request[t].name \in Names
  PROVE  /\ down' \in Seq(Command)
         /\ Len(down) \in Nat /\ Len(down') = Len(down) + 1
         /\ \A j \in 1..Len(down) : down'[j] = down[j]
         /\ down'[Len(down) + 1] = [id |-> request[t].id, name |-> request[t].name,
                                    zone |-> request[t].zone, kept |-> TRUE]
         /\ request' \in [Thread -> Request]
         /\ \A s \in Thread \ {t} : request'[s] = request[s]
         /\ request'[t] = [at |-> "sent", id |-> request[t].id,
                           name |-> request[t].name, zone |-> request[t].zone]
<1> DEFINE r == request[t]
           c == [id |-> r.id, name |-> r.name, zone |-> r.zone, kept |-> TRUE]
<1>1. request \in [Thread -> Request] /\ r \in Request
  BY DEF TypeOK
<1>2. c \in Command
  BY <1>1 DEF Command, Request
<1>3. down' = Append(down, c) /\ down \in Seq(Command)
  BY DEF RequestSends, TypeOK
<1>4. request' = [request EXCEPT ![t].at = "sent"]
  BY DEF RequestSends
<1>5. [r EXCEPT !.at = "sent"] = [at |-> "sent", id |-> r.id, name |-> r.name, zone |-> r.zone]
  BY <1>1 DEF Request
<1>6. [at |-> "sent", id |-> r.id, name |-> r.name, zone |-> r.zone] \in Request
  BY <1>1 DEF Request
<1>7. request'[t] = [r EXCEPT !.at = "sent"]
  BY <1>1, <1>4
<1>8. \A s \in Thread \ {t} : request'[s] = request[s]
  BY <1>1, <1>4
<1>9. request' \in [Thread -> Request]
  BY <1>1, <1>4, <1>5, <1>6
<1> HIDE DEF c
<1>10. /\ down' \in Seq(Command)
       /\ Len(down) \in Nat /\ Len(down') = Len(down) + 1
       /\ \A j \in 1..Len(down) : down'[j] = down[j]
       /\ down'[Len(down) + 1] = c
  BY <1>2, <1>3, AppendIs
<1> QED BY <1>5, <1>7, <1>8, <1>9, <1>10 DEF c

LEMMA RestartDoes ==
  ASSUME TypeOK, HostRestarts
  PROVE  /\ down' \in Seq(Command) /\ Len(down') = Len(down)
         /\ \A j \in 1..Len(down) : /\ down'[j].id = down[j].id
                                     /\ down'[j].name = down[j].name
                                     /\ ~down'[j].kept
<1>1. Len(down) \in Nat /\ \A j \in 1..Len(down) : down[j] \in Command
  BY ElementsOf DEF TypeOK
<1>2. ASSUME NEW c \in Command, NEW kept \in BOOLEAN
      PROVE  /\ [c EXCEPT !.kept = kept] = [id |-> c.id, name |-> c.name, zone |-> c.zone,
                                            kept |-> kept]
             /\ [c EXCEPT !.kept = kept] \in Command
  BY DEF Command
<1>3. down' = [j \in 1..Len(down) |-> [down[j] EXCEPT !.kept = FALSE]]
  BY DEF HostRestarts
<1>4. down' \in [1..Len(down) -> Command]
  BY <1>1, <1>2, <1>3
<1>5. \A j \in 1..Len(down) : down'[j] = [id |-> down[j].id, name |-> down[j].name,
                                          zone |-> down[j].zone, kept |-> FALSE]
  BY <1>1, <1>2, <1>3
<1> QED BY <1>1, <1>4, <1>5, SeqOf

LEMMA IdleIs == Idle \in Request /\ Idle.at = "idle"
<1>1. Idle \in Request
  BY DEF Idle, Request, Setting
<1>2. Idle.at = "idle"
  BY DEF Idle
<1> QED BY <1>1, <1>2

-----------------------------------------------------------------------------
(***************************************************************************)
(* Types, and the names.                                                   *)
(***************************************************************************)

\* Only a node that joins changes the directory, at its end.
LEMMA DirectoryKept ==
  ASSUME TypeOK, [Next]_vars
  PROVE  /\ Len(directory) \in Nat
         /\ \A i \in Ids : i \in Ids' /\ directory'[i] = directory[i] /\ directory[i] \in Bda
<1>1. directory \in Seq(Bda)
  BY DEF TypeOK
<1>2. Len(directory) \in Nat /\ \A i \in Ids : directory[i] \in Bda
  BY <1>1, ElementsOf DEF Ids
<1>3. CASE UNCHANGED directory
  BY <1>2, <1>3 DEF Ids
<1>4. CASE \E b \in Bda : NodeJoins(b)
  BY <1>1, <1>2, <1>4, JoinDoes DEF NodeJoins
<1>5. CASE \E i \in Ids : NodeReturns(i) \/ NodeDescribes(i) \/ NodeLeaves(i)
  BY <1>3, <1>5 DEF NodeReturns, Return, NodeDescribes, NodeLeaves, Leave, dirVars
<1>6. CASE Delivered \/ HostPolls \/ HostRestarts \/ UNCHANGED vars
  BY <1>3, <1>6 DEF Delivered, HostPolls, HostRestarts, vars, dirVars
<1>7. CASE Requests
  BY <1>3, <1>7 DEF Requests, RequestFinds, RequestSends, RequestNotes, dirVars
<1> QED BY <1>4, <1>5, <1>6, <1>7 DEF Next

LEMMA SaysKept ==
  ASSUME TypeOK, [Next]_vars, NEW i, NEW n
  PROVE  /\ Says(i, n) => i \in Ids' /\ n = device_name[directory'[i]] /\ n \in Names
         /\ SaysAtMost(i, n) => i \in Ids' /\ n \in {DefaultName, device_name[directory'[i]]}
BY DirectoryKept DEF Says, SaysAtMost, Names

LEMMA TypesNext ==
  ASSUME TypeOK, NameInv, [Next]_vars
  PROVE  TypeOK'
<1>1. /\ directory \in Seq(Bda) /\ online \subseteq Ids
      /\ _nodes \in Seq(Entry) /\ request \in [Thread -> Request]
      /\ up \in Seq(Report) /\ down \in Seq(Command)
      /\ asked \subseteq Ids /\ lit \in [Bda -> Setting]
      /\ restarts \in 0..MAX_RESTARTS
      /\ forgotten \subseteq Ids /\ crossed \subseteq Ids /\ missed \subseteq Ids
  BY DEF TypeOK
<1>2. /\ Len(directory) \in Nat /\ Ids \subseteq Ids' /\ Ids \subseteq Nat \ {0}
      /\ \A i \in Ids : directory[i] \in Bda
  BY DirectoryKept DEF Ids
<1>3. DefaultName \in Names \cup {DefaultName} /\ NoZone \in Setting
  BY DEF Setting
<1>4. ASSUME NEW b \in Bda, NodeJoins(b)
      PROVE  TypeOK'
  <2>1. Len(directory) + 1 \in Nat \ {0}
    BY <1>2
  <2>2. up' \in Seq(Report)
    BY <1>4, <2>1, ReportsDoes DEF NodeJoins, Online
  <2>3. directory' \in Seq(Bda) /\ online' \subseteq Ids' /\ Len(directory) + 1 \in Ids'
    BY <1>1, <1>4, JoinDoes DEF NodeJoins
  <2> QED
    BY <1>1, <1>2, <1>4, <2>2, <2>3 DEF TypeOK, NodeJoins, Online, hostVars
<1>5. ASSUME NEW i \in Ids, NodeReturns(i)
      PROVE  TypeOK'
  <2>1. up' \in Seq(Report)
    BY <1>2, <1>5, ReportsDoes DEF NodeReturns, Online
  <2>2. directory' = directory /\ online' \subseteq Ids
    BY <1>1, <1>5 DEF NodeReturns, Return
  <2> QED
    BY <1>1, <1>2, <1>5, <2>1, <2>2 DEF TypeOK, NodeReturns, Online, hostVars
<1>6. ASSUME NEW i \in Ids, NodeDescribes(i)
      PROVE  TypeOK'
  <2>1. device_name[directory[i]] \in Names
    BY <1>2 DEF Names
  <2>2. up' \in Seq(Report)
    BY <1>2, <1>6, <2>1, ReportsDoes DEF NodeDescribes
  <2> QED
    BY <1>1, <1>2, <1>6, <2>2 DEF TypeOK, NodeDescribes, hostVars, dirVars, ghosts, Ids
<1>7. ASSUME NEW i \in Ids, NodeLeaves(i)
      PROVE  TypeOK'
  <2>1. up' \in Seq(Report)
    BY <1>2, <1>7, ReportsDoes DEF NodeLeaves
  <2>2. directory' = directory /\ online' \subseteq Ids
    BY <1>1, <1>7 DEF NodeLeaves, Leave
  <2>3. /\ lit' \in [Bda -> Setting]
        /\ restarts' \in 0..MAX_RESTARTS
        /\ missed' \subseteq Ids
    <3>1. CASE UNCHANGED <<lit, restarts, missed>>
      BY <1>1, <3>1
    <3>2. CASE /\ restarts < MAX_RESTARTS
               /\ restarts' = restarts + 1
               /\ lit' = [lit EXCEPT ![directory[i]] = NoZone]
               /\ missed' = missed \cup {i}
      BY <1>1, <1>2, <1>3, <3>2, HostAssumption
    <3> QED BY <1>7, <3>1, <3>2 DEF NodeLeaves
  <2>4. /\ _nodes' = _nodes /\ request' = request /\ down' = down
        /\ forgotten' = forgotten /\ crossed' = crossed /\ asked' \subseteq Ids
    BY <1>1, <1>7 DEF NodeLeaves, hostVars
  <2> QED
    BY <1>1, <1>2, <2>1, <2>2, <2>3, <2>4 DEF TypeOK
<1>8. CASE Delivered
  <2>1. PICK c \in Command :
            /\ c = down[1]
            /\ down' \in Seq(Command)
            /\ Len(down) \in Nat \ {0}
            /\ \/ /\ c.id \in online
                  /\ lit' = [lit EXCEPT ![directory[c.id]] = c.zone]
                  /\ missed' = IF c.kept THEN missed \ {c.id} ELSE missed \cup {c.id}
               \/ /\ missed' = missed \cup {c.id}
                  /\ UNCHANGED lit
    BY <1>8, DeliveredDoes
  <2>2. c.id \in Ids
    BY <2>1 DEF NameInv, CommandsNamed, Says
  <2>3. c.zone \in Setting
    BY DEF Command
  <2>4. lit' \in [Bda -> Setting] /\ missed' \subseteq Ids
    BY <1>1, <1>2, <2>1, <2>2, <2>3
  <2> QED
    BY <1>1, <1>8, <2>1, <2>4 DEF TypeOK, Delivered, dirVars, hostVars, Ids
<1>9. CASE HostPolls
  <2>1. PICK r \in Report : up' \in Seq(Report) /\ (Ping(r) \/ Error(r) \/ DeviceInfoResp(r))
    BY <1>9, PollDoes
  <2>2. _nodes' \in Seq(Entry)
    BY <2>1, PingKnown, PingNew, ErrorDoes, DeviceInfoRespDoes
  <2> QED
    BY <1>1, <1>9, <2>1, <2>2 DEF TypeOK, HostPolls, dirVars, ghosts, Ids
<1>10. CASE HostRestarts
  <2>1. down' \in Seq(Command)
    BY <1>10, RestartDoes
  <2>2. request' \in [Thread -> Request]
    BY <1>10, IdleIs DEF HostRestarts
  <2>3. restarts' \in 0..MAX_RESTARTS
    BY <1>1, <1>10, HostAssumption DEF HostRestarts
  <2>4. _nodes' \in Seq(Entry) /\ up' \in Seq(Report)
    BY <1>10 DEF HostRestarts
  <2> QED
    BY <1>1, <1>10, <2>1, <2>2, <2>3, <2>4 DEF TypeOK, HostRestarts, dirVars, Ids
<1>11. ASSUME NEW t \in Thread, NEW n \in Wanted, NEW z \in Setting, RequestFinds(t, n, z)
       PROVE  TypeOK'
  <2>1. PICK k \in 1..Len(_nodes) :
           request' = [request EXCEPT ![t] = [at |-> "found", id |-> _nodes[k].id,
                                              name |-> n, zone |-> z]]
    BY <1>11 DEF RequestFinds
  <2>2. _nodes[k].id \in Nat \ {0} /\ n \in Names
    <3>1. _nodes[k] \in Entry
      BY <1>1, ElementsOf
    <3>2. _nodes[k].id \in Nat \ {0}
      BY <3>1 DEF Entry
    <3>3. n \in Names
      BY HostAssumption DEF Names
    <3> QED BY <3>2, <3>3
  <2>3. [at |-> "found", id |-> _nodes[k].id, name |-> n, zone |-> z] \in Request
    BY <2>2 DEF Request
  <2>4. request' \in [Thread -> Request]
    BY <1>1, <2>1, <2>3
  <2> QED
    BY <1>1, <1>11, <2>4 DEF TypeOK, RequestFinds, dirVars, lineVars, ghosts, Ids
<1>12. ASSUME NEW t \in Thread, RequestSends(t)
       PROVE  TypeOK'
  <2>1. request[t].at = "found"
    BY <1>12 DEF RequestSends
  <2>2. Says(request[t].id, request[t].name)
    BY <2>1 DEF NameInv, RequestsNamed
  <2>3. request[t].id \in Ids /\ request[t].name \in Names
    BY <1>2, <2>2 DEF Says, Names
  <2>4. down' \in Seq(Command) /\ request' \in [Thread -> Request]
    BY <1>12, <2>3, SendDoes
  <2>5. crossed' \subseteq Ids
    BY <1>1, <1>12, <2>3 DEF RequestSends
  <2> QED
    BY <1>1, <1>12, <2>4, <2>5 DEF TypeOK, RequestSends, dirVars, Ids
<1>13. ASSUME NEW t \in Thread, RequestNotes(t)
       PROVE  TypeOK'
  <2>1. _nodes' \in Seq(Entry)
    BY <1>13, RequestNotesDoes
  <2>2. request' \in [Thread -> Request]
    BY <1>1, <1>13, IdleIs DEF RequestNotes
  <2> QED
    BY <1>1, <1>13, <2>1, <2>2 DEF TypeOK, RequestNotes, dirVars, lineVars, ghosts, Ids
<1>14. CASE UNCHANGED vars
  BY <1>1, <1>14 DEF TypeOK, vars, dirVars, hostVars, lineVars, ghosts, Ids
<1> QED
  BY <1>4, <1>5, <1>6, <1>7, <1>8, <1>9, <1>10, <1>11, <1>12, <1>13, <1>14
     DEF Next, Requests

\* A new node is none of those that have an id.
LEMMA OneIdEachNext == TypeOK /\ OneIdEach /\ [Next]_vars => OneIdEach'
<1> SUFFICES ASSUME TypeOK, OneIdEach, [Next]_vars PROVE OneIdEach'
  OBVIOUS
<1>1. CASE \E b \in Bda : NodeJoins(b)
  <2>1. PICK b \in Bda : Join(b)
    BY <1>1 DEF NodeJoins
  <2>2. \A i \in Ids : directory[i] # b
    BY <2>1 DEF Join
  <2>3. directory \in Seq(Bda)
    BY DEF TypeOK
  <2> QED BY <2>1, <2>2, <2>3, JoinDoes DEF OneIdEach
<1>2. CASE UNCHANGED directory
  BY <1>2 DEF OneIdEach, Ids
<1> QED
  BY <1>1, <1>2 DEF Next, NodeReturns, Return, NodeDescribes, NodeLeaves, Leave, Delivered,
                    HostPolls, HostRestarts, Requests, RequestFinds, RequestSends,
                    RequestNotes, vars, dirVars

\* A report put on the line for i, by its own name or by none, keeps the names.
LEMMA ReportsNamedNext ==
  ASSUME TypeOK, ReportsNamed, [Next]_vars,
         NEW i \in Nat \ {0}, NEW cmd \in {"PING", "ERROR", "DEVICE_INFO_RESP"},
         NEW n \in Names \cup {DefaultName}, Reports(i, cmd, n),
         i \in Ids', n \in {DefaultName, device_name[directory'[i]]}
  PROVE  ReportsNamed'
<1> DEFINE r == [id |-> i, cmd |-> cmd, name |-> n]
<1>1. /\ Len(up) \in Nat /\ Len(up') = Len(up) + 1
      /\ \A j \in 1..Len(up) : up'[j] = up[j]
      /\ up'[Len(up) + 1] = r
  BY ReportsDoes
<1>2. ASSUME NEW j \in 1..Len(up')
      PROVE  up'[j].id \in Ids' /\ up'[j].name \in {DefaultName, device_name[directory'[up'[j].id]]}
  <2>1. CASE j \in 1..Len(up)
    BY <1>1, <2>1, SaysKept DEF ReportsNamed
  <2>2. CASE j = Len(up) + 1
    <3>1. up'[j].id = i /\ up'[j].name = n
      BY <1>1, <2>2
    <3> QED BY <3>1
  <2> QED BY <1>1, <2>1, <2>2
<1> QED BY <1>2 DEF ReportsNamed, SaysAtMost

\* With the registry, the requests or the line as they were, or shorter, the
\* names stay right.
LEMMA NamesKept ==
  ASSUME TypeOK, NameInv, [Next]_vars
  PROVE  /\ UNCHANGED _nodes => EntriesNamed'
         /\ UNCHANGED up => ReportsNamed'
         /\ UNCHANGED request => RequestsNamed'
         /\ UNCHANGED down => CommandsNamed'
<1> USE DEF NameInv
<1>1. UNCHANGED _nodes => EntriesNamed'
  BY SaysKept DEF EntriesNamed, SaysAtMost
<1>2. UNCHANGED up => ReportsNamed'
  BY SaysKept DEF ReportsNamed, SaysAtMost
<1>3. UNCHANGED request => RequestsNamed'
  BY SaysKept DEF RequestsNamed, Says
<1>4. UNCHANGED down => CommandsNamed'
  BY SaysKept DEF CommandsNamed, Says
<1> QED BY <1>1, <1>2, <1>3, <1>4

LEMMA NamesNext ==
  ASSUME TypeOK, NameInv, [Next]_vars
  PROVE  NameInv'
<1>1. ASSUME NEW i \in Ids', Online(i)
      PROVE  NameInv'
  <2>1. i \in Nat \ {0}
    BY DEF Ids
  <2>2. ReportsNamed'
    BY <1>1, <2>1, ReportsNamedNext DEF Online, NameInv
  <2> QED BY <1>1, <2>2, NamesKept DEF NameInv, Online, hostVars
<1>2. CASE \E b \in Bda : NodeJoins(b)
  BY <1>1, <1>2, JoinDoes DEF NodeJoins, TypeOK
<1>3. CASE \E i \in Ids : NodeReturns(i)
  BY <1>1, <1>3, DirectoryKept DEF NodeReturns
<1>4. ASSUME NEW i \in Ids, NodeDescribes(i)
      PROVE  NameInv'
  <2> DEFINE n == IF directory[i] \in Long THEN DefaultName ELSE device_name[directory[i]]
  <2>1. /\ i \in Nat \ {0} /\ i \in Ids'
        /\ n \in Names \cup {DefaultName}
        /\ n \in {DefaultName, device_name[directory'[i]]}
    BY DirectoryKept DEF Ids, Names
  <2>2. Reports(i, "DEVICE_INFO_RESP", n)
    BY <1>4 DEF NodeDescribes
  <2> HIDE DEF n
  <2>3. ReportsNamed'
    BY <2>1, <2>2, ReportsNamedNext DEF NameInv
  <2> QED BY <1>4, <2>3, NamesKept DEF NameInv, NodeDescribes, hostVars
<1>5. ASSUME NEW i \in Ids, NodeLeaves(i)
      PROVE  NameInv'
  <2>1. i \in Nat \ {0} /\ i \in Ids'
    BY DirectoryKept DEF Ids
  <2>2. ReportsNamed'
    BY <1>5, <2>1, ReportsNamedNext DEF NodeLeaves, NameInv
  <2> QED BY <1>5, <2>2, NamesKept DEF NameInv, NodeLeaves, hostVars
<1>6. CASE Delivered
  <2>1. /\ Len(down) \in Nat \ {0} /\ Len(down') = Len(down) - 1
        /\ \A j \in 1..(Len(down) - 1) : down'[j] = down[j + 1]
    BY <1>6, DeliveredDoes
  <2>2. CommandsNamed'
    <3>1. ASSUME NEW j \in 1..Len(down')
          PROVE  Says(down[j + 1].id, down[j + 1].name) /\ down'[j] = down[j + 1]
      BY <2>1 DEF NameInv, CommandsNamed
    <3> QED BY <3>1, SaysKept DEF CommandsNamed, Says
  <2> QED BY <1>6, <2>2, NamesKept DEF NameInv, Delivered, hostVars
<1>7. CASE HostPolls
  <2>1. PICK r \in Report :
            /\ r = up[1]
            /\ Len(up) \in Nat \ {0} /\ Len(up') = Len(up) - 1
            /\ \A j \in 1..(Len(up) - 1) : up'[j] = up[j + 1]
            /\ Ping(r) \/ Error(r) \/ DeviceInfoResp(r)
    BY <1>7, PollDoes
  <2>2. SaysAtMost(r.id, r.name)
    BY <2>1 DEF NameInv, ReportsNamed
  <2>3. ReportsNamed'
    <3>1. ASSUME NEW j \in 1..Len(up')
          PROVE  SaysAtMost(up[j + 1].id, up[j + 1].name) /\ up'[j] = up[j + 1]
      BY <2>1 DEF NameInv, ReportsNamed
    <3> QED BY <3>1, SaysKept DEF ReportsNamed, SaysAtMost
  <2>4. \A k \in 1..Len(_nodes) : SaysAtMost(_nodes[k].id, _nodes[k].name)
    BY DEF NameInv, EntriesNamed
  <2>5. ASSUME NEW k \in 1..Len(_nodes')
        PROVE  SaysAtMost(_nodes'[k].id, _nodes'[k].name)
    <3>1. CASE Ping(r) /\ Known(r.id)
      BY <2>4, <3>1, PingKnown
    <3>2. CASE Ping(r) /\ ~Known(r.id)
      <4>1. CASE k \in 1..Len(_nodes)
        BY <2>4, <3>2, <4>1, PingNew
      <4>2. CASE k = Len(_nodes) + 1
        <5>1. _nodes'[k] = NewEntry(r.id)
          BY <3>2, <4>2, PingNew
        <5>2. NewEntry(r.id).id = r.id /\ NewEntry(r.id).name = DefaultName
          BY DEF NewEntry
        <5> QED BY <2>2, <5>1, <5>2 DEF SaysAtMost
      <4> QED BY <3>2, <4>1, <4>2, PingNew
    <3>3. CASE Error(r)
      BY <2>4, <3>3, ErrorDoes
    <3>4. CASE DeviceInfoResp(r)
      <4>1. k \in 1..Len(_nodes)
        BY <3>4, DeviceInfoRespDoes
      <4>2. CASE _nodes'[k].id = _nodes[k].id /\ _nodes'[k].name = _nodes[k].name
        BY <2>4, <4>1, <4>2
      <4>3. CASE _nodes'[k].id = r.id /\ _nodes'[k].name = r.name
        BY <2>2, <4>3
      <4> QED BY <3>4, <4>1, <4>2, <4>3, DeviceInfoRespDoes
    <3> QED BY <2>1, <3>1, <3>2, <3>3, <3>4
  <2>6. EntriesNamed'
    BY <2>5, SaysKept DEF EntriesNamed, SaysAtMost
  <2> QED BY <1>7, <2>3, <2>6, NamesKept DEF NameInv, HostPolls
<1>8. CASE HostRestarts
  <2>1. CommandsNamed'
    <3>1. Len(down') = Len(down)
      BY <1>8, RestartDoes
    <3>2. ASSUME NEW j \in 1..Len(down)
          PROVE  Says(down'[j].id, down'[j].name)
      BY <1>8, RestartDoes DEF NameInv, CommandsNamed
    <3> QED BY <3>1, <3>2, SaysKept DEF CommandsNamed, Says
  <2>2. EntriesNamed' /\ ReportsNamed' /\ RequestsNamed'
    BY <1>8, IdleIs DEF HostRestarts, EntriesNamed, ReportsNamed, RequestsNamed
  <2> QED BY <2>1, <2>2 DEF NameInv
<1>9. ASSUME NEW t \in Thread, NEW n \in Wanted, NEW z \in Setting, RequestFinds(t, n, z)
      PROVE  NameInv'
  <2>1. PICK k \in 1..Len(_nodes) :
           /\ get_node_by_name(k, n)
           /\ request' = [request EXCEPT ![t] = [at |-> "found", id |-> _nodes[k].id,
                                                 name |-> n, zone |-> z]]
    BY <1>9 DEF RequestFinds
  <2>2. n # DefaultName
    BY HostAssumption
  <2>3. Says(_nodes[k].id, n)
    BY <2>1, <2>2 DEF get_node_by_name, NameInv, EntriesNamed, SaysAtMost, Says
  <2> DEFINE q == [at |-> "found", id |-> _nodes[k].id, name |-> n, zone |-> z]
  <2>4. request'[t] = q /\ \A s \in Thread \ {t} : request'[s] = request[s]
    BY <2>1 DEF TypeOK
  <2>5. Says(request'[t].id, request'[t].name)
    BY <2>3, <2>4
  <2>6. ASSUME NEW s \in Thread, request'[s].at # "idle"
        PROVE  Says(request'[s].id, request'[s].name)
    BY <2>4, <2>5, <2>6 DEF NameInv, RequestsNamed
  <2>7. RequestsNamed'
    BY <2>6, SaysKept DEF RequestsNamed, Says
  <2> QED BY <1>9, <2>7, NamesKept DEF NameInv, RequestFinds, lineVars
<1>10. ASSUME NEW t \in Thread, RequestSends(t)
       PROVE  NameInv'
  <2> DEFINE r == request[t]
             c == [id |-> r.id, name |-> r.name, zone |-> r.zone, kept |-> TRUE]
  <2>1. Says(r.id, r.name)
    BY <1>10 DEF RequestSends, NameInv, RequestsNamed
  <2>2. r.name \in Names
    BY <2>1, SaysKept
  <2>3. /\ Len(down) \in Nat /\ Len(down') = Len(down) + 1
        /\ \A j \in 1..Len(down) : down'[j] = down[j]
        /\ down'[Len(down) + 1] = c
        /\ \A s \in Thread \ {t} : request'[s] = request[s]
        /\ request'[t] = [at |-> "sent", id |-> r.id, name |-> r.name, zone |-> r.zone]
    BY <1>10, <2>2, SendDoes
  <2>4. c.id = r.id /\ c.name = r.name
    OBVIOUS
  <2> HIDE DEF r, c
  <2>5. ASSUME NEW j \in 1..Len(down')
        PROVE  Says(down'[j].id, down'[j].name)
    BY <2>1, <2>3, <2>4 DEF NameInv, CommandsNamed
  <2>6. CommandsNamed'
    BY <2>5, SaysKept DEF CommandsNamed, Says
  <2>7. ASSUME NEW s \in Thread, request'[s].at # "idle"
        PROVE  Says(request'[s].id, request'[s].name)
    BY <2>1, <2>3, <2>7 DEF NameInv, RequestsNamed
  <2>8. RequestsNamed'
    BY <2>7, SaysKept DEF RequestsNamed, Says
  <2> QED BY <1>10, <2>6, <2>8, NamesKept DEF NameInv, RequestSends
<1>11. ASSUME NEW t \in Thread, RequestNotes(t)
       PROVE  NameInv'
  <2>1. EntriesNamed'
    <3>1. ASSUME NEW k \in 1..Len(_nodes')
          PROVE  SaysAtMost(_nodes'[k].id, _nodes'[k].name)
      BY <1>11, RequestNotesDoes DEF NameInv, EntriesNamed
    <3> QED BY <3>1, SaysKept DEF EntriesNamed, SaysAtMost
  <2>2. request' = [request EXCEPT ![t] = Idle]
    BY <1>11 DEF RequestNotes
  <2>3. \A s \in Thread : request'[s] = request[s] \/ request'[s].at = "idle"
    BY <2>2, IdleIs DEF TypeOK
  <2>4. RequestsNamed'
    BY <2>3, SaysKept DEF NameInv, RequestsNamed, Says
  <2> QED BY <1>11, <2>1, <2>4, NamesKept DEF NameInv, RequestNotes, lineVars
<1>12. CASE UNCHANGED vars
  BY <1>12, NamesKept DEF NameInv, vars, hostVars, lineVars
<1> QED
  BY <1>2, <1>3, <1>4, <1>5, <1>6, <1>7, <1>8, <1>9, <1>10, <1>11, <1>12
     DEF Next, Requests

-----------------------------------------------------------------------------
(***************************************************************************)
(* Who is connected.                                                       *)
(***************************************************************************)

\* A step that leaves the links, the reports and who is taken for connected.
LEMMA ViewKept ==
  ASSUME ViewInv, UNCHANGED <<up, directory, online, forgotten>>,
         \A i : Takes(i)' <=> Takes(i)
  PROVE  ViewInv'
<1>1. UNCHANGED <<Ids, Present>>
  BY DEF Ids, Present
<1>2. \A j, i : NoNewsFrom(j, i)' <=> NoNewsFrom(j, i)
  BY DEF NoNewsFrom
<1>3. LastNewsTrue'
  BY <1>1, <1>2 DEF ViewInv, LastNewsTrue
<1>4. ReadTrue'
  BY <1>1, <1>2 DEF ViewInv, ReadTrue
<1> QED BY <1>3, <1>4 DEF ViewInv

LEMMA NewsReported ==
  ASSUME Len(up) \in Nat, Len(up') = Len(up) + 1,
         \A j \in 1..Len(up) : up'[j] = up[j],
         NEW j \in 1..(Len(up) + 2), NEW x
  PROVE  NoNewsFrom(j, x)' <=>
           /\ NoNewsFrom(j, x)
           /\ j \in 1..(Len(up) + 1) /\ up'[Len(up) + 1].id = x
                => up'[Len(up) + 1].cmd = "DEVICE_INFO_RESP"
BY DEF NoNewsFrom

\* The report that a link came or went is true when it is made.
LEMMA ViewReported ==
  ASSUME TypeOK, ViewInv, NEW i \in Nat \ {0}, NEW cmd \in {"PING", "ERROR"},
         Reports(i, cmd, DefaultName), UNCHANGED _nodes,
         Ids' \subseteq Ids \cup {i},
         cmd = "PING" <=> i \in Present',
         \A x : x # i => (x \in Present' <=> x \in Present)
  PROVE  ViewInv'
<1> DEFINE n == Len(up) + 1
<1>1. /\ Len(up) \in Nat /\ Len(up') = Len(up) + 1
      /\ \A j \in 1..Len(up) : up'[j] = up[j]
      /\ up'[n] = [id |-> i, cmd |-> cmd, name |-> DefaultName]
  BY ReportsDoes
<1>2. up'[n].id = i /\ up'[n].cmd = cmd /\ cmd # "DEVICE_INFO_RESP"
  BY <1>1
<1>3. \A j \in 1..n : \A x : NoNewsFrom(j, x)' <=> NoNewsFrom(j, x) /\ x # i
  BY <1>1, <1>2, NewsReported
<1>4. ASSUME NEW j \in 1..Len(up'), NEW x \in Ids', up'[j].id = x,
             up'[j].cmd # "DEVICE_INFO_RESP", NoNewsFrom(j + 1, x)'
      PROVE  up'[j].cmd = "PING" <=> x \in Present'
  <2>1. CASE j = n
    BY <1>2, <1>4, <2>1
  <2>2. CASE j \in 1..Len(up)
    <3>1. up'[j] = up[j] /\ j + 1 \in 1..n
      BY <1>1, <2>2
    <3>2. NoNewsFrom(j + 1, x) /\ x # i /\ x \in Ids
      BY <1>3, <1>4, <3>1
    <3>3. up[j].cmd = "PING" <=> x \in Present
      BY <1>4, <2>2, <3>1, <3>2 DEF ViewInv, LastNewsTrue
    <3> QED BY <3>1, <3>2, <3>3
  <2> QED BY <1>1, <2>1, <2>2
<1>5. LastNewsTrue'
  BY <1>4 DEF LastNewsTrue
<1>6. \A x : Takes(x)' <=> Takes(x)
  BY DEF Takes
<1>7. ReadTrue'
  BY <1>1, <1>3, <1>6 DEF ViewInv, ReadTrue
<1> QED BY <1>5, <1>7 DEF ViewInv

\* A description tells nothing of the link.
LEMMA ViewDescribed ==
  ASSUME TypeOK, ViewInv, NEW i \in Ids, NodeDescribes(i)
  PROVE  ViewInv'
<1> DEFINE n == Len(up) + 1
           name == IF directory[i] \in Long THEN DefaultName ELSE device_name[directory[i]]
<1>1. i \in Nat \ {0} /\ name \in Names \cup {DefaultName}
  BY ElementsOf DEF Ids, Names, TypeOK
<1>2. Reports(i, "DEVICE_INFO_RESP", name)
  BY DEF NodeDescribes
<1> HIDE DEF name
<1>3. /\ Len(up) \in Nat /\ Len(up') = Len(up) + 1
      /\ \A j \in 1..Len(up) : up'[j] = up[j]
      /\ up'[n] = [id |-> i, cmd |-> "DEVICE_INFO_RESP", name |-> name]
  BY <1>1, <1>2, ReportsDoes
<1>4. up'[n].cmd = "DEVICE_INFO_RESP"
  BY <1>3
<1>5. \A j \in 1..n : \A x : NoNewsFrom(j, x)' <=> NoNewsFrom(j, x)
  BY <1>3, <1>4, NewsReported
<1>6. UNCHANGED <<Ids, Present>> /\ \A x : Takes(x)' <=> Takes(x)
  BY DEF NodeDescribes, dirVars, hostVars, ghosts, Ids, Present, Takes
<1>7. ASSUME NEW j \in 1..Len(up'), NEW x \in Ids, up'[j].id = x,
             up'[j].cmd # "DEVICE_INFO_RESP", NoNewsFrom(j + 1, x)'
      PROVE  up'[j].cmd = "PING" <=> x \in Present
  <2>1. j \in 1..Len(up) /\ up'[j] = up[j] /\ j + 1 \in 1..n
    BY <1>3, <1>4, <1>7
  <2> QED BY <1>5, <1>7, <2>1 DEF ViewInv, LastNewsTrue
<1>8. LastNewsTrue'
  BY <1>6, <1>7 DEF LastNewsTrue
<1>9. ReadTrue'
  BY <1>3, <1>5, <1>6 DEF ViewInv, ReadTrue
<1> QED BY <1>8, <1>9 DEF ViewInv

\* A PING is taken for a link, an ERROR for its end, for its node alone.
LEMMA PollTakes ==
  ASSUME TypeOK, NEW r \in Report
  PROVE  /\ Ping(r) => Takes(r.id)'
         /\ Error(r) => ~Takes(r.id)'
         /\ DeviceInfoResp(r) => (Takes(r.id)' <=> Takes(r.id))
         /\ Ping(r) \/ Error(r) \/ DeviceInfoResp(r)
              => \A x : x # r.id => (Takes(x)' <=> Takes(x))
<1>1. Len(_nodes) \in Nat
  BY ElementsOf DEF TypeOK
<1>2. CASE Ping(r) /\ Known(r.id)
  <2>1. Takes(r.id)'
    BY <1>2, PingKnown DEF Known, Takes
  <2>2. \A x : x # r.id => (Takes(x)' <=> Takes(x))
    BY <1>2, PingKnown DEF Takes
  <2>3. r.cmd = "PING"
    BY <1>2 DEF Ping
  <2> QED BY <2>1, <2>2, <2>3 DEF Error, DeviceInfoResp
<1>3. CASE Ping(r) /\ ~Known(r.id)
  <2> DEFINE n == Len(_nodes) + 1
  <2>1. /\ Len(_nodes') = n
        /\ \A k \in 1..Len(_nodes) : _nodes'[k] = _nodes[k]
        /\ _nodes'[n] = NewEntry(r.id)
    BY <1>3, PingNew
  <2>2. _nodes'[n].id = r.id /\ _nodes'[n].connected
    BY <2>1 DEF NewEntry
  <2>3. Takes(r.id)'
    BY <1>1, <2>1, <2>2 DEF Takes
  <2>4. \A x : x # r.id => (Takes(x)' <=> Takes(x))
    BY <1>1, <2>1, <2>2 DEF Takes
  <2>5. r.cmd = "PING"
    BY <1>3 DEF Ping
  <2> QED BY <2>3, <2>4, <2>5 DEF Error, DeviceInfoResp
<1>4. CASE Error(r)
  <2>1. ~Takes(r.id)' /\ \A x : x # r.id => (Takes(x)' <=> Takes(x))
    BY <1>4, ErrorDoes DEF Takes
  <2>2. r.cmd = "ERROR"
    BY <1>4 DEF Error
  <2> QED BY <2>1, <2>2 DEF Ping, DeviceInfoResp
<1>5. CASE DeviceInfoResp(r)
  <2>1. \A x : Takes(x)' <=> Takes(x)
    BY <1>5, DeviceInfoRespDoes DEF Takes
  <2>2. r.cmd = "DEVICE_INFO_RESP"
    BY <1>5 DEF DeviceInfoResp
  <2> QED BY <2>1, <2>2 DEF Ping, Error
<1> QED BY <1>2, <1>3, <1>4, <1>5

LEMMA ViewPolled ==
  ASSUME TypeOK, ViewInv, HostPolls
  PROVE  ViewInv'
<1>1. PICK r \in Report :
          /\ r = up[1]
          /\ Len(up) \in Nat \ {0} /\ Len(up') = Len(up) - 1
          /\ \A j \in 1..(Len(up) - 1) : up'[j] = up[j + 1]
          /\ Ping(r) \/ Error(r) \/ DeviceInfoResp(r)
  BY PollDoes
<1>2. \A j \in Nat \ {0} : \A x : NoNewsFrom(j, x)' <=> NoNewsFrom(j + 1, x)
  <2> SUFFICES ASSUME NEW j \in Nat \ {0}, NEW x
               PROVE  NoNewsFrom(j, x)' <=> NoNewsFrom(j + 1, x)
    OBVIOUS
  <2>1. \A l \in (j + 1)..Len(up) : l - 1 \in j..Len(up') /\ up'[l - 1] = up[l]
    BY <1>1
  <2>2. \A l \in j..Len(up') : l + 1 \in (j + 1)..Len(up) /\ up'[l] = up[l + 1]
    BY <1>1
  <2> QED BY <2>1, <2>2 DEF NoNewsFrom
<1>3. UNCHANGED <<Ids, Present>>
  BY DEF HostPolls, dirVars, ghosts, Ids, Present
<1>4. LastNewsTrue'
  <2> SUFFICES ASSUME NEW j \in 1..Len(up'), NEW x \in Ids, up'[j].id = x,
                      up'[j].cmd # "DEVICE_INFO_RESP", NoNewsFrom(j + 1, x)'
               PROVE  up'[j].cmd = "PING" <=> x \in Present
    BY <1>3 DEF LastNewsTrue
  <2>1. j + 1 \in 1..Len(up) /\ up'[j] = up[j + 1] /\ j + 1 \in Nat \ {0}
    BY <1>1
  <2>2. NoNewsFrom((j + 1) + 1, x)
    BY <1>2, <2>1
  <2> QED BY <2>1, <2>2 DEF ViewInv, LastNewsTrue
<1>5. ReadTrue'
  <2> SUFFICES ASSUME NEW x \in Ids, NoNewsFrom(1, x)'
               PROVE  Takes(x)' <=> x \in Present
    BY <1>3 DEF ReadTrue
  <2>1. NoNewsFrom(2, x)
    BY <1>2
  <2>2. CASE r.id = x /\ r.cmd # "DEVICE_INFO_RESP"
    <3>1. r.cmd = "PING" <=> x \in Present
      BY <1>1, <2>1, <2>2 DEF ViewInv, LastNewsTrue
    <3>2. Takes(x)' <=> r.cmd = "PING"
      BY <1>1, <2>2, PollTakes DEF Ping, Error, DeviceInfoResp
    <3> QED BY <3>1, <3>2
  <2>3. CASE r.id # x \/ r.cmd = "DEVICE_INFO_RESP"
    <3>1. NoNewsFrom(1, x)
      BY <1>1, <2>1, <2>3 DEF NoNewsFrom
    <3>2. Takes(x)' <=> Takes(x)
      BY <1>1, <2>3, PollTakes DEF Ping, Error
    <3> QED BY <3>1, <3>2 DEF ViewInv, ReadTrue
  <2> QED BY <2>2, <2>3
<1> QED BY <1>4, <1>5 DEF ViewInv

LEMMA ViewNext ==
  ASSUME TypeOK, ViewInv, [Next]_vars
  PROVE  ViewInv'
<1>1. ASSUME NEW b \in Bda, NodeJoins(b)
      PROVE  ViewInv'
  <2> DEFINE i == Len(directory) + 1
  <2>1. i \in Nat \ {0} /\ i \notin Ids /\ Ids' = Ids \cup {i} /\ online' = online \cup {i}
    BY <1>1, JoinDoes DEF NodeJoins, TypeOK
  <2>2. Online(i)
    BY <1>1 DEF NodeJoins
  <2> HIDE DEF i
  <2>3. i \in Present' /\ \A x : x # i => (x \in Present' <=> x \in Present)
    BY <2>1, <2>2 DEF Present, Online
  <2> QED BY <2>1, <2>2, <2>3, ViewReported DEF Online, hostVars
<1>2. ASSUME NEW i \in Ids, NodeReturns(i)
      PROVE  ViewInv'
  <2>1. i \in Nat \ {0} /\ Ids' = Ids /\ online' = online \cup {i} /\ Online(i)
    BY <1>2 DEF NodeReturns, Return, Ids
  <2>2. i \in Present' /\ \A x : x # i => (x \in Present' <=> x \in Present)
    BY <2>1 DEF Present, Online
  <2> QED BY <2>1, <2>2, ViewReported DEF Online, hostVars
<1>3. ASSUME NEW i \in Ids, NodeLeaves(i)
      PROVE  ViewInv'
  <2>1. /\ i \in Nat \ {0} /\ Ids' = Ids /\ online' = online \ {i}
        /\ Reports(i, "ERROR", DefaultName)
        /\ UNCHANGED <<forgotten, _nodes>>
    BY <1>3 DEF NodeLeaves, Leave, Ids, hostVars
  <2>2. i \notin Present' /\ \A x : x # i => (x \in Present' <=> x \in Present)
    BY <2>1 DEF Present
  <2> QED BY <2>1, <2>2, ViewReported
<1>4. ASSUME NEW i \in Ids, NodeDescribes(i)
      PROVE  ViewInv'
  BY <1>4, ViewDescribed
<1>5. CASE Delivered
  <2>1. \A i : Takes(i)' <=> Takes(i)
    BY <1>5 DEF Delivered, hostVars, Takes
  <2> QED BY <1>5, <2>1, ViewKept DEF Delivered, dirVars
<1>6. CASE HostPolls
  BY <1>6, ViewPolled
<1>7. CASE HostRestarts
  <2>1. up' = <<>> /\ _nodes' = <<>> /\ online' = online /\ forgotten' = online
    BY <1>7 DEF HostRestarts, dirVars
  <2>2. Present' = {} /\ \A i : ~Takes(i)'
    BY <2>1 DEF Present, Takes
  <2>3. LastNewsTrue'
    BY <2>1 DEF LastNewsTrue
  <2> QED BY <2>2, <2>3 DEF ViewInv, ReadTrue
<1>8. ASSUME NEW t \in Thread, NEW n \in Wanted, NEW z \in Setting, RequestFinds(t, n, z)
      PROVE  ViewInv'
  <2>1. \A i : Takes(i)' <=> Takes(i)
    BY <1>8 DEF RequestFinds, Takes
  <2> QED BY <1>8, <2>1, ViewKept DEF RequestFinds, dirVars, lineVars, ghosts
<1>9. ASSUME NEW t \in Thread, RequestSends(t)
      PROVE  ViewInv'
  <2>1. \A i : Takes(i)' <=> Takes(i)
    BY <1>9 DEF RequestSends, Takes
  <2> QED BY <1>9, <2>1, ViewKept DEF RequestSends, dirVars
<1>10. ASSUME NEW t \in Thread, RequestNotes(t)
       PROVE  ViewInv'
  <2>1. \A i : Takes(i)' <=> Takes(i)
    BY <1>10, RequestNotesDoes DEF Takes
  <2> QED BY <1>10, <2>1, ViewKept DEF RequestNotes, dirVars, lineVars, ghosts
<1>11. CASE UNCHANGED vars
  <2>1. \A i : Takes(i)' <=> Takes(i)
    BY <1>11 DEF vars, hostVars, Takes
  <2> QED BY <1>11, <2>1, ViewKept DEF vars, dirVars, lineVars, ghosts
<1> QED
  BY <1>1, <1>2, <1>3, <1>4, <1>5, <1>6, <1>7, <1>8, <1>9, <1>10, <1>11 DEF Next, Requests

-----------------------------------------------------------------------------
(***************************************************************************)
(* The mirror of the zones.                                                *)
(***************************************************************************)

\* A step that leaves the ids and zones of the registry, and what was sent.
LEMMA MirrorsKept ==
  ASSUME Len(_nodes') = Len(_nodes),
         \A k \in 1..Len(_nodes) :
            _nodes'[k].id = _nodes[k].id /\ _nodes'[k].zone = _nodes[k].zone,
         \A t \in Thread :
            \/ request'[t] = request[t]
            \/ request'[t].at # "sent" /\ request[t].at # "sent"
  PROVE  /\ \A i, z : Mirrors(i, z)' <=> Mirrors(i, z)
         /\ \A i : Known(i)' <=> Known(i)
<1>1. \A i : Known(i)' <=> Known(i)
  BY DEF Known
<1>2. ASSUME NEW i
      PROVE  (\A t \in Thread : request'[t].at = "sent" => request'[t].id # i)
               <=> (\A t \in Thread : request[t].at = "sent" => request[t].id # i)
  OBVIOUS
<1>3. ASSUME NEW i, NEW z
      PROVE  (\A t \in Thread : request'[t].at = "sent" /\ request'[t].id = i
                                  => request'[t].zone = z)
               <=> (\A t \in Thread : request[t].at = "sent" /\ request[t].id = i
                                        => request[t].zone = z)
  OBVIOUS
<1>4. ASSUME NEW i, NEW z
      PROVE  (\A k \in 1..Len(_nodes') : _nodes'[k].id = i => _nodes'[k].zone = z)
               <=> (\A k \in 1..Len(_nodes) : _nodes[k].id = i => _nodes[k].zone = z)
  OBVIOUS
<1>5. \A i, z : Mirrors(i, z)' <=> Mirrors(i, z)
  BY <1>2, <1>3, <1>4 DEF Mirrors
<1> QED BY <1>1, <1>5

\* A step that is nothing to the mirror.
LEMMA MirrorKept ==
  ASSUME MirrorInv, UNCHANGED <<directory, hostVars, down, lit, crossed, missed>>
  PROVE  MirrorInv'
<1>1. UNCHANGED <<_nodes, request>> /\ UNCHANGED Ids
  BY DEF hostVars, Ids
<1>2. \A i, z : Mirrors(i, z)' <=> Mirrors(i, z)
  BY <1>1 DEF Mirrors
<1>3. \A i : Known(i)' <=> Known(i)
  BY <1>1 DEF Known
<1>4. \A j, i : NoneDownFrom(j, i)' <=> NoneDownFrom(j, i)
  BY DEF NoneDownFrom
<1>5. AskedKnown'
  BY <1>1, <1>3 DEF MirrorInv, AskedKnown
<1>6. DarkUnlessKnown'
  BY <1>1, <1>3 DEF MirrorInv, DarkUnlessKnown
<1>7. LastCommandMirrored'
  BY <1>1, <1>2, <1>4 DEF MirrorInv, LastCommandMirrored
<1>8. ShownMirrored'
  BY <1>1, <1>2, <1>4 DEF MirrorInv, ShownMirrored
<1> QED BY <1>5, <1>6, <1>7, <1>8 DEF MirrorInv

LEMMA MirrorJoined ==
  ASSUME TypeOK, NameInv, MirrorInv, NEW b \in Bda, NodeJoins(b)
  PROVE  MirrorInv'
<1> DEFINE n == Len(directory) + 1
<1>1. /\ Ids' = Ids \cup {n} /\ n \notin Ids
      /\ \A i \in Ids : directory'[i] = directory[i]
      /\ directory'[n] = b
      /\ \A i \in Ids : directory[i] # b
  BY JoinDoes DEF NodeJoins, Join, TypeOK
<1> HIDE DEF n
<1>2. UNCHANGED <<_nodes, request, down, lit, crossed, missed>>
  BY DEF NodeJoins, Online, hostVars
<1>3. /\ \A i, z : Mirrors(i, z)' <=> Mirrors(i, z)
      /\ \A i : Known(i)' <=> Known(i)
      /\ \A j, i : NoneDownFrom(j, i)' <=> NoneDownFrom(j, i)
  BY <1>2 DEF Mirrors, Known, NoneDownFrom
<1>4. /\ \A t \in Thread : request[t].at # "idle" => request[t].id # n
      /\ \A j \in 1..Len(down) : down[j].id # n
      /\ \A k \in 1..Len(_nodes) : _nodes[k].id # n
  BY <1>1 DEF NameInv, EntriesNamed, RequestsNamed, CommandsNamed, Says, SaysAtMost
<1>5. AskedKnown'
  BY <1>1, <1>2, <1>3, <1>4 DEF MirrorInv, AskedKnown
<1>6. DarkUnlessKnown'
  BY <1>1, <1>2, <1>3 DEF MirrorInv, DarkUnlessKnown
<1>7. LastCommandMirrored'
  BY <1>1, <1>2, <1>3, <1>4 DEF MirrorInv, LastCommandMirrored
<1>8. \A z : Mirrors(n, z)
  BY <1>4 DEF Mirrors
<1>9. ShownMirrored'
  BY <1>1, <1>2, <1>3, <1>8 DEF MirrorInv, ShownMirrored
<1> QED BY <1>5, <1>6, <1>7, <1>9 DEF MirrorInv

\* A node that restarts shows nothing, and has missed what it showed.
LEMMA MirrorLeft ==
  ASSUME TypeOK, OneIdEach, MirrorInv, NEW i \in Ids, NodeLeaves(i)
  PROVE  MirrorInv'
<1>1. CASE UNCHANGED <<lit, missed>>
  BY <1>1, MirrorKept DEF NodeLeaves, Leave
<1>2. CASE lit' = [lit EXCEPT ![directory[i]] = NoZone] /\ missed' = missed \cup {i}
  <2>1. UNCHANGED <<directory, _nodes, request, down, crossed>> /\ UNCHANGED Ids
    BY DEF NodeLeaves, Leave, hostVars, Ids
  <2>2. /\ \A x, z : Mirrors(x, z)' <=> Mirrors(x, z)
        /\ \A x : Known(x)' <=> Known(x)
        /\ \A j, x : NoneDownFrom(j, x)' <=> NoneDownFrom(j, x)
    BY <2>1 DEF Mirrors, Known, NoneDownFrom
  <2>3. \A x \in Ids : directory[x] \in Bda
    BY ElementsOf DEF TypeOK, Ids
  <2>4. /\ \A b \in Bda : lit'[b] \in {lit[b], NoZone}
        /\ \A x \in Ids \ {i} : lit'[directory[x]] = lit[directory[x]]
    BY <1>2, <2>3 DEF TypeOK, OneIdEach
  <2>5. AskedKnown'
    BY <2>1, <2>2 DEF MirrorInv, AskedKnown
  <2>6. DarkUnlessKnown'
    BY <1>2, <2>1, <2>2, <2>4 DEF MirrorInv, DarkUnlessKnown
  <2>7. LastCommandMirrored'
    BY <2>1, <2>2 DEF MirrorInv, LastCommandMirrored
  <2>8. ShownMirrored'
    BY <1>2, <2>1, <2>2, <2>4 DEF MirrorInv, ShownMirrored
  <2> QED BY <2>5, <2>6, <2>7, <2>8 DEF MirrorInv
<1> QED BY <1>1, <1>2 DEF NodeLeaves

\* A command that reaches its node makes it show what the mirror says or will
\* say, if it was the last.
LEMMA MirrorDelivered ==
  ASSUME TypeOK, OneIdEach, NameInv, MirrorInv, Delivered
  PROVE  MirrorInv'
<1>1. PICK c \in Command :
          /\ c = down[1]
          /\ Len(down) \in Nat \ {0} /\ Len(down') = Len(down) - 1
          /\ \A j \in 1..(Len(down) - 1) : down'[j] = down[j + 1]
          /\ \/ /\ c.id \in online
                /\ lit' = [lit EXCEPT ![directory[c.id]] = c.zone]
                /\ missed' = IF c.kept THEN missed \ {c.id} ELSE missed \cup {c.id}
             \/ /\ missed' = missed \cup {c.id}
                /\ UNCHANGED lit
  BY DeliveredDoes
<1> DEFINE i == c.id
<1>2. i \in Ids /\ c.zone \in Setting
  BY <1>1 DEF NameInv, CommandsNamed, Says, Command
<1>3. UNCHANGED <<directory, _nodes, request, crossed>> /\ UNCHANGED Ids
  BY DEF Delivered, dirVars, hostVars, Ids
<1>4. /\ \A x, z : Mirrors(x, z)' <=> Mirrors(x, z)
      /\ \A x : Known(x)' <=> Known(x)
  BY <1>3 DEF Mirrors, Known
<1>5. \A j \in Nat \ {0} : \A x : NoneDownFrom(j, x)' <=> NoneDownFrom(j + 1, x)
  <2> SUFFICES ASSUME NEW j \in Nat \ {0}, NEW x
               PROVE  NoneDownFrom(j, x)' <=> NoneDownFrom(j + 1, x)
    OBVIOUS
  <2>1. \A l \in (j + 1)..Len(down) : l - 1 \in j..Len(down') /\ down'[l - 1] = down[l]
    BY <1>1
  <2>2. \A l \in j..Len(down') : l + 1 \in (j + 1)..Len(down) /\ down'[l] = down[l + 1]
    BY <1>1
  <2> QED BY <2>1, <2>2 DEF NoneDownFrom
<1>6. \A x \in Ids : directory[x] \in Bda
  BY ElementsOf DEF TypeOK, Ids
<1>7. /\ \A x \in Ids \ {i} : lit'[directory[x]] = lit[directory[x]]
      /\ \A b \in Bda : lit'[b] = lit[b] \/ b = directory[i]
      /\ \A x \in Ids \ {i} : x \in missed' <=> x \in missed
      /\ i \notin missed' => c.kept /\ lit'[directory[i]] = c.zone
  BY <1>1, <1>2, <1>6 DEF TypeOK, OneIdEach
<1>8. AskedKnown'
  <2> SUFFICES ASSUME NEW x \in Ids,
                      \/ \E t \in Thread : request[t].at # "idle" /\ request[t].id = x
                      \/ \E j \in 1..Len(down') : down'[j].kept /\ down'[j].id = x
               PROVE  Known(x)
    BY <1>3, <1>4 DEF AskedKnown
  <2>1. \A j \in 1..Len(down') : j + 1 \in 1..Len(down) /\ down'[j] = down[j + 1]
    BY <1>1
  <2> QED BY <2>1 DEF MirrorInv, AskedKnown
<1>9. c.kept => Known(i)
  BY <1>1, <1>2 DEF MirrorInv, AskedKnown
<1> HIDE DEF i
<1>10. DarkUnlessKnown'
  <2>1. \A b \in Bda : (\A x \in Ids : directory[x] # b) => lit'[b] = NoZone
    BY <1>2, <1>7 DEF MirrorInv, DarkUnlessKnown
  <2>2. \A x \in Ids \ missed' : ~Known(x) => lit'[directory[x]] = NoZone
    BY <1>7, <1>9 DEF MirrorInv, DarkUnlessKnown
  <2> QED BY <1>3, <1>4, <2>1, <2>2 DEF DarkUnlessKnown
<1>11. LastCommandMirrored'
  <2> SUFFICES ASSUME NEW j \in 1..Len(down'), NEW x \in Ids \ crossed, NEW z \in Setting,
                      down'[j].id = x, down'[j].zone = z, down'[j].kept,
                      NoneDownFrom(j + 1, x)'
               PROVE  Mirrors(x, z)
    BY <1>3, <1>4 DEF LastCommandMirrored
  <2>1. j + 1 \in 1..Len(down) /\ down'[j] = down[j + 1] /\ j + 1 \in Nat \ {0}
    BY <1>1
  <2>2. NoneDownFrom((j + 1) + 1, x)
    BY <1>5, <2>1
  <2> QED BY <2>1, <2>2 DEF MirrorInv, LastCommandMirrored
<1>12. ShownMirrored'
  <2> SUFFICES ASSUME NEW x \in Ids \ (crossed \cup missed'), NEW z \in Setting,
                      NoneDownFrom(1, x)', lit'[directory[x]] = z
               PROVE  Mirrors(x, z)
    BY <1>3, <1>4 DEF ShownMirrored
  <2>1. NoneDownFrom(2, x)
    BY <1>5
  <2>2. CASE x = i
    <3>1. c.kept /\ c.zone = z
      BY <1>7, <2>2
    <3>2. down[1].id = x /\ down[1].zone = z /\ down[1].kept
      BY <1>1, <2>2, <3>1 DEF i
    <3> QED BY <1>1, <2>1, <3>2 DEF MirrorInv, LastCommandMirrored
  <2>3. CASE x # i
    <3>1. NoneDownFrom(1, x)
      BY <1>1, <2>1, <2>3 DEF NoneDownFrom, i
    <3> QED BY <1>7, <2>3, <3>1 DEF MirrorInv, ShownMirrored
  <2> QED BY <2>2, <2>3
<1> QED BY <1>8, <1>10, <1>11, <1>12 DEF MirrorInv

\* A node the host did not know shows nothing, as its new entry says.
LEMMA MirrorPolled ==
  ASSUME TypeOK, MirrorInv, HostPolls
  PROVE  MirrorInv'
<1>1. PICK r \in Report : Ping(r) \/ Error(r) \/ DeviceInfoResp(r)
  BY PollDoes
<1>2. UNCHANGED <<directory, request, down, lit, crossed, missed>> /\ UNCHANGED Ids
  BY DEF HostPolls, dirVars, ghosts, Ids
<1>3. \A j, x : NoneDownFrom(j, x)' <=> NoneDownFrom(j, x)
  BY <1>2 DEF NoneDownFrom
<1>4. CASE (Ping(r) /\ Known(r.id)) \/ Error(r) \/ DeviceInfoResp(r)
  <2>1. /\ Len(_nodes') = Len(_nodes)
        /\ \A k \in 1..Len(_nodes) :
              _nodes'[k].id = _nodes[k].id /\ _nodes'[k].zone = _nodes[k].zone
    BY <1>4, PingKnown, ErrorDoes, DeviceInfoRespDoes
  <2>2. /\ \A x, z : Mirrors(x, z)' <=> Mirrors(x, z)
        /\ \A x : Known(x)' <=> Known(x)
    BY <1>2, <2>1, MirrorsKept
  <2>3. AskedKnown'
    BY <1>2, <2>2 DEF MirrorInv, AskedKnown
  <2>4. DarkUnlessKnown'
    BY <1>2, <2>2 DEF MirrorInv, DarkUnlessKnown
  <2>5. LastCommandMirrored'
    BY <1>2, <1>3, <2>2 DEF MirrorInv, LastCommandMirrored
  <2>6. ShownMirrored'
    BY <1>2, <1>3, <2>2 DEF MirrorInv, ShownMirrored
  <2> QED BY <2>3, <2>4, <2>5, <2>6 DEF MirrorInv
<1>5. CASE Ping(r) /\ ~Known(r.id)
  <2> DEFINE i == r.id
             n == Len(_nodes) + 1
  <2>1. /\ Len(_nodes) \in Nat /\ Len(_nodes') = n
        /\ \A k \in 1..Len(_nodes) : _nodes'[k] = _nodes[k]
        /\ _nodes'[n] = NewEntry(i)
    BY <1>5, PingNew
  <2>2. _nodes'[n].id = i /\ _nodes'[n].zone = NoZone
    BY <2>1 DEF NewEntry
  <2>3. ~Known(i)
    BY <1>5
  <2> HIDE DEF i
  <2>4. \A x : Known(x)' <=> Known(x) \/ x = i
    BY <2>1, <2>2 DEF Known
  <2>5. ASSUME NEW x, x # i, NEW z
        PROVE  Mirrors(x, z)' <=> Mirrors(x, z)
    <3>1. (\A k \in 1..Len(_nodes') : _nodes'[k].id = x => _nodes'[k].zone = z)
            <=> (\A k \in 1..Len(_nodes) : _nodes[k].id = x => _nodes[k].zone = z)
      BY <2>1, <2>2, <2>5
    <3> QED BY <1>2, <3>1 DEF Mirrors
  <2>6. AskedKnown'
    BY <1>2, <2>4 DEF MirrorInv, AskedKnown
  <2>7. DarkUnlessKnown'
    BY <1>2, <2>4 DEF MirrorInv, DarkUnlessKnown
  <2>8. \A x \in Ids, j \in 1..Len(down) : down[j].kept /\ down[j].id = x => x # i
    BY <2>3 DEF MirrorInv, AskedKnown
  <2>9. LastCommandMirrored'
    BY <1>2, <1>3, <2>5, <2>8 DEF MirrorInv, LastCommandMirrored
  <2>10. ASSUME i \in Ids
         PROVE  Mirrors(i, NoZone)'
    <3>1. \A t \in Thread : request[t].at = "sent" => request[t].id # i
      BY <2>3, <2>10 DEF MirrorInv, AskedKnown
    <3>2. \A k \in 1..Len(_nodes') : _nodes'[k].id = i => _nodes'[k].zone = NoZone
      BY <2>1, <2>2, <2>3 DEF Known
    <3> QED BY <1>2, <3>1, <3>2 DEF Mirrors
  <2>11. ShownMirrored'
    <3> SUFFICES ASSUME NEW x \in Ids \ (crossed \cup missed), NEW z \in Setting,
                        NoneDownFrom(1, x), lit[directory[x]] = z
                 PROVE  Mirrors(x, z)'
      BY <1>2, <1>3 DEF ShownMirrored
    <3>1. CASE x = i
      <4>1. z = NoZone
        BY <2>3, <3>1 DEF MirrorInv, DarkUnlessKnown
      <4> QED BY <2>10, <3>1, <4>1
    <3>2. CASE x # i
      BY <2>5, <3>2 DEF MirrorInv, ShownMirrored
    <3> QED BY <3>1, <3>2
  <2> QED BY <2>6, <2>7, <2>9, <2>11 DEF MirrorInv
<1> QED BY <1>1, <1>4, <1>5

\* The host that starts again knows no node and claims nothing of any.
LEMMA MirrorRestarted ==
  ASSUME TypeOK, MirrorInv, HostRestarts
  PROVE  MirrorInv'
<1>1. /\ UNCHANGED <<directory, lit>> /\ UNCHANGED Ids
      /\ missed' = Ids /\ _nodes' = <<>>
      /\ request' = [t \in Thread |-> Idle]
  BY DEF HostRestarts, dirVars, Ids
<1>2. Len(down') = Len(down) /\ \A j \in 1..Len(down) : ~down'[j].kept
  BY RestartDoes
<1>3. \A t \in Thread : request'[t].at = "idle"
  BY <1>1, IdleIs
<1>4. AskedKnown'
  BY <1>2, <1>3 DEF AskedKnown
<1>5. DarkUnlessKnown'
  BY <1>1 DEF MirrorInv, DarkUnlessKnown
<1>6. LastCommandMirrored'
  BY <1>2 DEF LastCommandMirrored
<1>7. ShownMirrored'
  BY <1>1 DEF ShownMirrored
<1> QED BY <1>4, <1>5, <1>6, <1>7 DEF MirrorInv

LEMMA MirrorFound ==
  ASSUME TypeOK, MirrorInv, NEW t \in Thread, NEW n \in Wanted, NEW z \in Setting,
         RequestFinds(t, n, z)
  PROVE  MirrorInv'
<1>1. PICK k \in 1..Len(_nodes) :
         request' = [request EXCEPT ![t] = [at |-> "found", id |-> _nodes[k].id,
                                            name |-> n, zone |-> z]]
  BY DEF RequestFinds
<1> DEFINE q == [at |-> "found", id |-> _nodes[k].id, name |-> n, zone |-> z]
<1>2. request'[t] = q /\ \A s \in Thread \ {t} : request'[s] = request[s]
  BY <1>1 DEF TypeOK
<1>3. request'[t].at # "sent" /\ request'[t].id = _nodes[k].id /\ request[t].at # "sent"
  BY <1>2 DEF RequestFinds
<1>4. UNCHANGED <<directory, _nodes, down, lit, crossed, missed>> /\ UNCHANGED Ids
  BY DEF RequestFinds, dirVars, lineVars, ghosts, Ids
<1>5. /\ \A x, y : Mirrors(x, y)' <=> Mirrors(x, y)
      /\ \A x : Known(x)' <=> Known(x)
  BY <1>2, <1>3, <1>4, MirrorsKept
<1>6. \A j, x : NoneDownFrom(j, x)' <=> NoneDownFrom(j, x)
  BY <1>4 DEF NoneDownFrom
<1>7. Known(_nodes[k].id)
  BY DEF Known
<1>8. AskedKnown'
  BY <1>2, <1>3, <1>4, <1>5, <1>7 DEF MirrorInv, AskedKnown
<1>9. DarkUnlessKnown'
  BY <1>4, <1>5 DEF MirrorInv, DarkUnlessKnown
<1>10. LastCommandMirrored'
  BY <1>4, <1>5, <1>6 DEF MirrorInv, LastCommandMirrored
<1>11. ShownMirrored'
  BY <1>4, <1>5, <1>6 DEF MirrorInv, ShownMirrored
<1> QED BY <1>8, <1>9, <1>10, <1>11 DEF MirrorInv

\* A request that sends while no other has sent and not noted it decides what
\* the mirror will say.
LEMMA MirrorSent ==
  ASSUME TypeOK, NameInv, MirrorInv, NEW t \in Thread, RequestSends(t)
  PROVE  MirrorInv'
<1> DEFINE i == request[t].id
           w == request[t].zone
           n == Len(down) + 1
           c == [id |-> i, name |-> request[t].name, zone |-> w, kept |-> TRUE]
           q == [at |-> "sent", id |-> i, name |-> request[t].name, zone |-> w]
<1>1. request[t].at = "found" /\ i \in Ids /\ request[t].name \in Names
  <2>1. request[t].at = "found"
    BY DEF RequestSends
  <2>2. Says(i, request[t].name)
    BY <2>1 DEF NameInv, RequestsNamed
  <2>3. \A x \in Ids : directory[x] \in Bda
    BY ElementsOf DEF TypeOK, Ids
  <2> QED BY <2>1, <2>2, <2>3 DEF Says, Names
<1>2. /\ Len(down) \in Nat /\ Len(down') = n
      /\ \A j \in 1..Len(down) : down'[j] = down[j]
      /\ down'[n] = c
      /\ \A s \in Thread \ {t} : request'[s] = request[s]
      /\ request'[t] = q
  BY <1>1, SendDoes
<1>3. /\ down'[n].id = i /\ down'[n].zone = w
      /\ request'[t].at = "sent" /\ request'[t].id = i /\ request'[t].zone = w
  BY <1>2
<1>4. UNCHANGED <<directory, _nodes, lit, missed>> /\ UNCHANGED Ids
  BY DEF RequestSends, dirVars, Ids
<1>5. \/ i \in crossed' /\ crossed' = crossed \cup {i}
      \/ /\ \A s \in Thread \ {t} : request[s].at = "sent" => request[s].id # i
         /\ crossed' = crossed \ {i}
  BY DEF RequestSends
<1> HIDE DEF i, w, c, q
<1>6. \A x : Known(x)' <=> Known(x)
  BY <1>4 DEF Known
<1>7. \A j \in 1..n : \A x : NoneDownFrom(j, x)' <=> NoneDownFrom(j, x) /\ x # i
  BY <1>2, <1>3 DEF NoneDownFrom
<1>8. ASSUME NEW x, x # i, NEW z
      PROVE  Mirrors(x, z)' <=> Mirrors(x, z)
  <2>1. \A s \in Thread : request'[s].at = "sent" /\ request'[s].id = x
                            <=> request[s].at = "sent" /\ request[s].id = x
    BY <1>2, <1>3, <1>8 DEF i
  <2>2. \A s \in Thread : request'[s].at = "sent" /\ request'[s].id = x
                            => request'[s] = request[s]
    BY <1>2, <1>3, <1>8
  <2> QED BY <1>4, <2>1, <2>2 DEF Mirrors
<1>9. ASSUME NEW x, NEW z, x = i, z = w, x \notin crossed'
      PROVE  Mirrors(x, z)'
  <2>1. \A s \in Thread \ {t} : request'[s].at = "sent" => request'[s].id # x
    BY <1>2, <1>5, <1>9
  <2> QED BY <1>3, <1>9, <2>1 DEF Mirrors
<1>10. AskedKnown'
  <2> SUFFICES ASSUME NEW x \in Ids,
                      \/ \E s \in Thread : request'[s].at # "idle" /\ request'[s].id = x
                      \/ \E j \in 1..Len(down') : down'[j].kept /\ down'[j].id = x
               PROVE  Known(x)
    BY <1>4, <1>6 DEF AskedKnown
  <2>1. CASE x = i
    BY <1>1, <2>1 DEF MirrorInv, AskedKnown, i
  <2>2. CASE x # i
    BY <1>2, <1>3, <2>2 DEF MirrorInv, AskedKnown
  <2> QED BY <2>1, <2>2
<1>11. DarkUnlessKnown'
  BY <1>4, <1>6 DEF MirrorInv, DarkUnlessKnown
<1>12. \A x : x # i => (x \in crossed' <=> x \in crossed)
  BY <1>5
<1>13. LastCommandMirrored'
  <2> SUFFICES ASSUME NEW j \in 1..Len(down'), NEW x \in Ids \ crossed', NEW z \in Setting,
                      down'[j].id = x, down'[j].zone = z, down'[j].kept,
                      NoneDownFrom(j + 1, x)'
               PROVE  Mirrors(x, z)'
    BY <1>4 DEF LastCommandMirrored
  <2>1. CASE j = n
    <3>1. x = i /\ z = w
      BY <1>3, <2>1
    <3> QED BY <1>9, <3>1
  <2>2. CASE j \in 1..Len(down)
    <3>1. down'[j] = down[j] /\ j + 1 \in 1..n
      BY <1>2, <2>2
    <3>2. NoneDownFrom(j + 1, x) /\ x # i /\ x \notin crossed
      BY <1>7, <1>12, <3>1
    <3>3. Mirrors(x, z)
      BY <2>2, <3>1, <3>2 DEF MirrorInv, LastCommandMirrored
    <3> QED BY <1>8, <3>2, <3>3
  <2> QED BY <1>2, <2>1, <2>2
<1>14. ShownMirrored'
  <2> SUFFICES ASSUME NEW x \in Ids \ (crossed' \cup missed), NEW z \in Setting,
                      NoneDownFrom(1, x)', lit[directory[x]] = z
               PROVE  Mirrors(x, z)'
    BY <1>4 DEF ShownMirrored
  <2>1. NoneDownFrom(1, x) /\ x # i /\ x \notin crossed
    BY <1>2, <1>7, <1>12
  <2> QED BY <1>8, <2>1 DEF MirrorInv, ShownMirrored
<1> QED BY <1>10, <1>11, <1>13, <1>14 DEF MirrorInv

\* Once the last thread has noted what it sent the mirror says it.
LEMMA MirrorNoted ==
  ASSUME TypeOK, MirrorInv, NEW t \in Thread, RequestNotes(t)
  PROVE  MirrorInv'
<1> DEFINE i == request[t].id
           w == request[t].zone
<1>1. /\ Len(_nodes') = Len(_nodes)
      /\ \A k \in 1..Len(_nodes) :
            /\ _nodes'[k].id = _nodes[k].id
            /\ _nodes[k].id = i => _nodes'[k].zone = w
            /\ _nodes[k].id # i => _nodes'[k].zone = _nodes[k].zone
  BY RequestNotesDoes
<1>2. /\ UNCHANGED <<directory, down, lit, crossed, missed>> /\ UNCHANGED Ids
      /\ request[t].at = "sent"
  BY DEF RequestNotes, dirVars, lineVars, ghosts, Ids
<1>3. /\ \A s \in Thread \ {t} : request'[s] = request[s]
      /\ request'[t].at = "idle"
  BY IdleIs DEF RequestNotes, TypeOK
<1>4. \A j, x : NoneDownFrom(j, x)' <=> NoneDownFrom(j, x)
  BY <1>2 DEF NoneDownFrom
<1>5. \A x : Known(x)' <=> Known(x)
  BY <1>1 DEF Known
<1>6. ASSUME NEW x, NEW z, Mirrors(x, z)
      PROVE  Mirrors(x, z)'
  <2>1. \A s \in Thread : request'[s].at = "sent" /\ request'[s].id = x => request'[s].zone = z
    BY <1>3, <1>6 DEF Mirrors
  <2>2. CASE x = i
    <3>1. w = z
      BY <1>2, <1>6, <2>2 DEF Mirrors
    <3> QED BY <1>1, <2>1, <2>2, <3>1 DEF Mirrors
  <2>3. CASE x # i
    <3>1. ASSUME \A s \in Thread : request'[s].at = "sent" => request'[s].id # x
          PROVE  \A s \in Thread : request[s].at = "sent" => request[s].id # x
      BY <1>3, <2>3, <3>1
    <3> QED BY <1>1, <1>6, <2>1, <2>3, <3>1 DEF Mirrors
  <2> QED BY <2>2, <2>3
<1>7. AskedKnown'
  BY <1>2, <1>3, <1>5 DEF MirrorInv, AskedKnown
<1>8. DarkUnlessKnown'
  BY <1>2, <1>5 DEF MirrorInv, DarkUnlessKnown
<1>9. LastCommandMirrored'
  BY <1>2, <1>4, <1>6 DEF MirrorInv, LastCommandMirrored
<1>10. ShownMirrored'
  BY <1>2, <1>4, <1>6 DEF MirrorInv, ShownMirrored
<1> QED BY <1>7, <1>8, <1>9, <1>10 DEF MirrorInv

LEMMA MirrorNext ==
  ASSUME TypeOK, OneIdEach, NameInv, MirrorInv, [Next]_vars
  PROVE  MirrorInv'
<1>1. ASSUME NEW i \in Ids, NodeReturns(i) \/ NodeDescribes(i)
      PROVE  MirrorInv'
  BY <1>1, MirrorKept DEF NodeReturns, Return, Online, NodeDescribes, dirVars, ghosts
<1>2. CASE UNCHANGED vars
  BY <1>2, MirrorKept DEF vars, dirVars, lineVars, ghosts
<1> QED
  BY <1>1, <1>2, MirrorJoined, MirrorLeft, MirrorDelivered, MirrorPolled, MirrorRestarted,
     MirrorFound, MirrorSent, MirrorNoted DEF Next, Requests

-----------------------------------------------------------------------------
(***************************************************************************)
(* The theorems.                                                           *)
(***************************************************************************)
LEMMA HostInit == Init => HostIInv
<1> SUFFICES ASSUME Init PROVE HostIInv
  OBVIOUS
<1>1. /\ directory = <<>> /\ online = {} /\ Ids = {}
      /\ _nodes = <<>> /\ up = <<>> /\ down = <<>>
      /\ \A t \in Thread : request[t] = Idle
  BY DEF Init, DirInit, Ids
<1>2. TypeOK
  <2>1. request \in [Thread -> Request]
    BY IdleIs DEF Init
  <2>2. lit \in [Bda -> Setting] /\ restarts \in 0..MAX_RESTARTS
    BY HostAssumption DEF Init, Setting
  <2> QED BY <1>1, <2>1, <2>2 DEF TypeOK, Init
<1>3. OneIdEach /\ NameInv
  BY <1>1, IdleIs DEF OneIdEach, NameInv, EntriesNamed, ReportsNamed, RequestsNamed,
                      CommandsNamed
<1>4. ViewInv
  BY <1>1 DEF ViewInv, LastNewsTrue, ReadTrue
<1>5. MirrorInv
  BY <1>1 DEF MirrorInv, AskedKnown, DarkUnlessKnown, LastCommandMirrored, ShownMirrored, Init
<1> QED BY <1>2, <1>3, <1>4, <1>5 DEF HostIInv

\* The inductive invariant: types, names, what is known of the links and of the
\* zones, whatever threads, nodes and restarts interleave.
THEOREM HostInvariant == Spec => []HostIInv
<1>1. HostIInv /\ [Next]_vars => HostIInv'
  BY TypesNext, OneIdEachNext, NamesNext, ViewNext, MirrorNext DEF HostIInv
<1> QED BY <1>1, HostInit, PTL DEF Spec

\* A command goes to the node whose name the request gave, whatever came between
\* looking the name up and sending.
THEOREM CommandsAddressed == Spec => []Addressed
<1>1. HostIInv => Addressed
  BY DEF HostIInv, NameInv, CommandsNamed, Says, Addressed
<1> QED BY <1>1, HostInvariant, PTL

\* When every report is read the host takes for connected exactly the nodes that
\* are online and came online since it started.
THEOREM HostFollows == Spec => []ViewFollows
<1>1. HostIInv => ViewFollows
  <2> SUFFICES ASSUME HostIInv, up = <<>>
               PROVE  {_nodes[k].id : k \in {j \in 1..Len(_nodes) : _nodes[j].connected}}
                        = online \ forgotten
    BY DEF ViewFollows
  <2>1. \A i \in Ids : Takes(i) <=> i \in online \ forgotten
    BY DEF HostIInv, ViewInv, ReadTrue, NoNewsFrom, Present
  <2>2. \A k \in 1..Len(_nodes) : _nodes[k].id \in Ids
    BY DEF HostIInv, NameInv, EntriesNamed, SaysAtMost
  <2>3. online \subseteq Ids
    BY DEF HostIInv, TypeOK
  <2> QED BY <2>1, <2>2, <2>3 DEF Takes
<1> QED BY <1>1, HostInvariant, PTL

\* When nothing is under way for a node the mirror of its zone is what it shows,
\* but for the overlaps, losses and restarts MirrorAgrees names.
THEOREM MirrorTrue == Spec => []MirrorAgrees
<1>1. HostIInv => MirrorAgrees
  <2> SUFFICES ASSUME HostIInv, NEW k \in 1..Len(_nodes), NEW i, i = _nodes[k].id,
                      \A t \in Thread : request[t].at = "sent" => request[t].id # i,
                      \A j \in 1..Len(down) : down[j].id # i,
                      i \notin crossed \cup missed
               PROVE  _nodes[k].zone = lit[directory[i]]
    BY DEF MirrorAgrees
  <2>1. i \in Ids
    BY DEF HostIInv, NameInv, EntriesNamed, SaysAtMost
  <2>2. lit[directory[i]] \in Setting
    BY <2>1, ElementsOf DEF HostIInv, TypeOK, Ids
  <2>3. Mirrors(i, lit[directory[i]])
    BY <2>1, <2>2 DEF HostIInv, MirrorInv, ShownMirrored, NoneDownFrom
  <2> QED BY <2>3 DEF Mirrors
<1> QED BY <1>1, HostInvariant, PTL
=============================================================================
