-------------------------- MODULE ClassroomProofs ---------------------------
(***************************************************************************)
(* Proofs about Classroom for any number of connections, boots, commands,  *)
(* faults and queue limits: the control plane implements SeatOwnership,    *)
(* the proof that admits an exam is true, exams run only in protected      *)
(* sessions, a connection's commands are numbered without a gap, and the   *)
(* report a new owner owes is never forgotten.                             *)
(*                                                                         *)
(* One inductive invariant, ClassroomIInv, carries all five.  It is a      *)
(* conjunction over the parts of the state; the lemmas say first what an   *)
(* operation does to one connection, then what a step leaves alone, then   *)
(* that each action keeps the invariant and is a step of the seat.         *)
(***************************************************************************)
EXTENDS Classroom, Integers, FiniteSetTheorems, TLAPS

\* What the server sends and what the service sends.
Commands ==
    [type : {"exam_start", "exam_stop", "uwf_configure", "uwf_fleet_configure"},
     seq : Nat, op : Nat, action : Nat]

\* The outcomes of a configuration that the service reports.
Outcomes == {"none", "busy", "failed", "already_enabled", "reboot_pending", "armed",
             "unsupported_edition"}

\* What the service sends: hello and the two kinds of report about protection.
Reports ==
    [type : {"hello", "uwf_report", "uwf_fleet_status"}, outcome : Outcomes, operation : Nat,
     action : Nat, boot : 1..MaxBoot, phase : Phases, proves : BOOLEAN]

\* Both ends of a connection.
Connections ==
    [stage : {"none", "auth_hello", "accepted", "authenticated", "failed"},
     open : BOOLEAN, live : BOOLEAN, client : {"none", "dialing", "linked", "gone"},
     boot : 0..MaxBoot, previous : Conns \cup {NoConn}, next : Nat, expect : Nat,
     down : Seq(Commands), up : Seq(Reports), reported : BOOLEAN]

\* The states of a client's end that the service still holds.
Attached == {"dialing", "linked"}

\* Messages of boot b that claim protection only if b is one of the boots G.
Truthful(q, b, G) == \A i \in 1..Len(q) : q[i].boot = b /\ (q[i].proves => b \in G)

\* An exam start is on its way only to a protected boot.
StartsProtected(q, b, G) == \A i \in 1..Len(q) : q[i].type = "exam_start" => b \in G

\* The commands on a connection continue from the number the client expects.
Numbered(r) ==
    r.open /\ r.client \in Attached =>
        /\ r.next = r.expect + Len(r.down)
        /\ \A i \in 1..Len(r.down) : r.down[i].seq = r.expect + i - 1

\* A connection of a machine in boot b whose protected boots are G.
IsConnection(r, b, G) ==
    /\ r \in Connections
    /\ r.client \in Attached => r.boot = b
    /\ Truthful(r.up, r.boot, G)
    /\ StartsProtected(r.down, r.boot, G)
    /\ Numbered(r)
    /\ r.client = "none" <=> r.stage = "none"
    /\ r.client = "none" => ~r.live /\ ~r.open
    /\ r.client # "none" /\ ~r.live => r.stage \in {"accepted", "failed"}

\* The connections.
TableOK ==
    /\ conn \in [Conns -> Connections]
    /\ \A c \in Conns : IsConnection(conn[c], machine.boot, GuardedBoots)

\* The machine: the boots it remembers as protected are earlier ones.
MachineOK ==
    /\ machine \in [boot : 1..MaxBoot, guarded : BOOLEAN, armed : BOOLEAN,
                    guardedBoots : SUBSET (1..MaxBoot), supported : BOOLEAN]
    /\ \A b \in machine.guardedBoots : b < machine.boot

\* The budgets, and connections beyond the last accepted one are untouched.
UsedOK ==
    /\ used \in [connections : Nat, commands : Nat, faults : Nat, actions : Nat, base : Nat]
    /\ used.base <= used.actions
    /\ \A c \in Conns : c > used.connections => conn[c].client = "none"

\* The service's memory, by type.
ServiceRecords ==
    [op : Nat, action : Nat, phase : Phases,
     worker : {"idle", "report", "fleet", "configure", "legacy"},
     link : Conns \cup {NoConn}, race : SUBSET Conns,
     winner : Conns \cup {NoConn}, out : Seq(Reports), exam : BOOLEAN, dropped : BOOLEAN]

\* A queue of reports about protection, all of the running boot.
OutOK(q, b, G) ==
    /\ Truthful(q, b, G)
    /\ \A i \in 1..Len(q) : q[i].type \in UwfReports

\* The service's memory.
ServiceOK ==
    /\ service \in ServiceRecords
    /\ OutOK(service.out, machine.boot, GuardedBoots)
    /\ service.exam => machine.guarded

\* The ends the service holds are the ends that are attached.
EndsOK ==
    /\ \A c \in Conns : conn[c].client = "dialing" <=> c \in service.race \cup {service.winner}
    /\ \A c \in Conns : conn[c].client = "linked" <=> c = service.link
    /\ service.link # NoConn => service.race = {} /\ service.winner = NoConn
    /\ service.winner \notin service.race

\* The seat.
SeatOK ==
    /\ owner \in Conns \cup {NoConn} /\ carrier \in Conns \cup {NoConn}
    /\ record \in ClientRecord
    /\ record.status \in {"online", "offline"}
    /\ record.status = "offline" <=> owner = NoConn
    /\ owner # NoConn => conn[owner].live /\ conn[owner].stage = "authenticated"
    /\ proves_current_protection(record) =>
          /\ owner # NoConn /\ carrier = owner
          /\ record.uwf.verifiedBoot = conn[owner].boot
          /\ conn[owner].boot \in GuardedBoots

\* The exam context and the start in progress.
ExamOK ==
    /\ exam \in 0..MaxBoot
    /\ exam # NoExam => exam \in GuardedBoots
    /\ starting \in [conn : Conns \cup {NoConn}, step : {"idle", "selected", "admitted"}]
    /\ starting.step # "idle" => /\ starting.conn \in Conns
                                 /\ conn[starting.conn].client # "none"
    /\ starting.step = "admitted" /\ conn[starting.conn].open =>
          conn[starting.conn].boot \in GuardedBoots

\* A report is on its way to whoever owns the seat or will, or was lost last.
ReportComing ==
    /\ service.race # {} \/ service.winner # NoConn =>
          service.worker # "idle" \/ service.out # <<>> \/ service.dropped
    /\ service.link # NoConn =>
          \/ ~conn[service.link].open \/ conn[service.link].reported
          \/ service.worker # "idle" \/ service.out # <<>> \/ service.dropped
          \/ \E i \in 1..Len(conn[service.link].up) :
                conn[service.link].up[i].type \in UwfReports

\* The inductive invariant: the machine, both ends of every connection, the
\* service, the seat with its proof, the exam context and the coming report.
ClassroomIInv ==
    /\ MachineOK /\ TableOK /\ UsedOK /\ ServiceOK /\ EndsOK /\ SeatOK /\ ExamOK
    /\ ReportComing

-----------------------------------------------------------------------------
(* What the operations do to one connection.                                *)

\* The fields of a connection have their types.
LEMMA ConnectionFields ==
  ASSUME NEW r \in Connections
  PROVE  /\ r.open \in BOOLEAN /\ r.live \in BOOLEAN /\ r.boot \in 0..MaxBoot
         /\ r.next \in Nat /\ r.expect \in Nat
         /\ r.down \in Seq(Commands) /\ r.up \in Seq(Reports)
         /\ r.client \in {"none", "dialing", "linked", "gone"}
         /\ r.previous \in Conns \cup {NoConn} /\ r.reported \in BOOLEAN
         /\ r.stage \in {"none", "auth_hello", "accepted", "authenticated", "failed"}
  BY DEF Connections

\* A connection that was never opened, and one the server has forgotten.
LEMMA FreshConnection ==
  ASSUME NEW b, NEW G
  PROVE  /\ IsConnection(NewConnection, b, G) /\ Dead \in Connections
         /\ \A s \in {"accepted", "failed"} : IsConnection([Dead EXCEPT !.stage = s], b, G)
  <1>1. NewConnection \in Connections
    BY BoundsAssumption DEF NewConnection, Connections, NoConn
  <1>2. \A s \in {"accepted", "failed"} : [Dead EXCEPT !.stage = s] \in Connections
    BY <1>1 DEF Dead, Connections
  <1>3. IsConnection(NewConnection, b, G)
    BY <1>1 DEF IsConnection, NewConnection, Attached, Truthful, StartsProtected, Numbered
  <1> QED
    BY <1>1, <1>2, <1>3
       DEF IsConnection, NewConnection, Dead, Attached, Truthful, StartsProtected, Numbered

\* A connection stays one while more boots turn out to be protected.
LEMMA GrownConnection ==
  ASSUME NEW r, NEW b, NEW G, NEW H, G \subseteq H, IsConnection(r, b, G)
  PROVE  IsConnection(r, b, H)
  BY DEF IsConnection, Truthful, StartsProtected

\* A connection without its client's end does not care which boot runs.
LEMMA DetachedConnection ==
  ASSUME NEW r, NEW b, NEW d, NEW G, IsConnection(r, b, G), r.client \notin Attached
  PROVE  IsConnection(r, d, G)
  BY DEF IsConnection, Truthful, StartsProtected

\* close_connection(): the socket closes.
LEMMA ClosedConnection ==
  ASSUME NEW r, NEW b, NEW G, IsConnection(r, b, G)
  PROVE  IsConnection([r EXCEPT !.open = FALSE], b, G)
  <1>1. r \in Connections
    BY DEF IsConnection
  <1>2. [r EXCEPT !.open = FALSE] \in Connections
    BY <1>1 DEF Connections
  <1> QED
    BY <1>1, <1>2 DEF IsConnection, Connections, Numbered

\* The handshake and publish() move a connection to another stage.
LEMMA StagedConnection ==
  ASSUME NEW r, NEW b, NEW G, IsConnection(r, b, G), r.client # "none",
         NEW s \in {"accepted", "authenticated", "failed"}, NEW p \in Conns \cup {NoConn},
         s = "authenticated" => r.live
  PROVE  /\ IsConnection([r EXCEPT !.stage = s], b, G)
         /\ IsConnection([r EXCEPT !.stage = s, !.previous = p], b, G)
  <1>1. r \in Connections
    BY DEF IsConnection
  <1>2. /\ [r EXCEPT !.stage = s] \in Connections
        /\ [r EXCEPT !.stage = s, !.previous = p] \in Connections
    BY <1>1 DEF Connections
  <1> QED
    BY <1>1, <1>2 DEF IsConnection, Connections, Numbered

\* disconnect_previous: the connection it took the seat from is settled.
LEMMA SettledConnection ==
  ASSUME NEW r, NEW b, NEW G, IsConnection(r, b, G)
  PROVE  IsConnection([r EXCEPT !.previous = NoConn], b, G)
  <1>1. r \in Connections
    BY DEF IsConnection
  <1>2. [r EXCEPT !.previous = NoConn] \in Connections
    BY <1>1 DEF Connections
  <1> QED
    BY <1>1, <1>2 DEF IsConnection, Connections, Numbered

\* Forget(): the server drops its end.
Forgotten(r, s) ==
    IF r.client = "gone" THEN [Dead EXCEPT !.stage = s]
    ELSE [Dead EXCEPT !.stage = s, !.client = r.client, !.boot = r.boot,
                      !.down = r.down, !.expect = r.expect]

\* A connection the server forgot is neither open nor live, and its client
\* does not notice (on_disconnected, the server's restart).
LEMMA ForgottenConnection ==
  ASSUME NEW r, NEW b, NEW G, IsConnection(r, b, G), r.client # "none",
         NEW s \in {"accepted", "failed"}
  PROVE  /\ IsConnection(Forgotten(r, s), b, G)
         /\ Forgotten(r, s).client = r.client
         /\ ~Forgotten(r, s).live /\ ~Forgotten(r, s).open
  <1>1. r \in Connections
    BY DEF IsConnection
  <1>2. CASE r.client = "gone"
    BY <1>2, FreshConnection DEF Forgotten, Dead, NewConnection
  <1>3. CASE r.client # "gone"
    <2> DEFINE f == [Dead EXCEPT !.stage = s, !.client = r.client, !.boot = r.boot,
                                 !.down = r.down, !.expect = r.expect]
    <2>1. f \in Connections
      BY <1>1, FreshConnection DEF Connections
    <2>2. /\ f.client = r.client /\ f.boot = r.boot /\ f.down = r.down
          /\ f.up = <<>> /\ f.open = FALSE /\ f.live = FALSE /\ f.stage = s
      BY <1>1 DEF Connections, Dead, NewConnection
    <2> HIDE DEF f
    <2>3. IsConnection(f, b, G)
      BY <1>1, <2>1, <2>2 DEF IsConnection, Truthful, StartsProtected, Numbered
    <2> QED
      BY <1>3, <2>2, <2>3 DEF Forgotten, f
  <1> QED
    BY <1>2, <1>3

\* Hang(): the client drops its end.
Hung(r) ==
    IF r.live THEN [r EXCEPT !.client = "gone", !.down = <<>>]
    ELSE [Dead EXCEPT !.stage = r.stage]

\* A connection its client left stays as the server knows it
\* (claim, EndSession, a restart of the service).
LEMMA HungConnection ==
  ASSUME NEW r, NEW b, NEW G, IsConnection(r, b, G), r.client # "none"
  PROVE  /\ IsConnection(Hung(r), b, G)
         /\ Hung(r).client = "gone"
         /\ Hung(r).stage = r.stage
         /\ r.live => Hung(r).live /\ Hung(r).boot = r.boot /\ Hung(r).open = r.open
         /\ ~r.live => ~Hung(r).live /\ ~Hung(r).open
  <1>1. r \in Connections
    BY DEF IsConnection
  <1>2. CASE r.live
    <2> DEFINE h == [r EXCEPT !.client = "gone", !.down = <<>>]
    <2>a. <<>> \in Seq(Commands)
      OBVIOUS
    <2>0. PICK e \in Seq(Commands) : e = <<>>
      BY <2>a, Zenon
    <2>1. h \in Connections
      BY <1>1, <2>0 DEF Connections
    <2>2. /\ h.client = "gone" /\ h.boot = r.boot /\ h.down = <<>> /\ h.up = r.up
          /\ h.live = r.live /\ h.stage = r.stage /\ h.open = r.open
      BY <1>1 DEF Connections
    <2> HIDE DEF h
    <2>3. IsConnection(h, b, G)
      BY <2>1, <2>2 DEF IsConnection, StartsProtected, Numbered, Attached
    <2> QED
      BY <1>2, <2>2, <2>3 DEF Hung, h
  <1>3. CASE ~r.live
    <2>1. r.stage \in {"accepted", "failed"}
      BY <1>3 DEF IsConnection
    <2> QED
      BY <1>1, <1>3, <2>1, FreshConnection DEF Hung, Dead, NewConnection
  <1> QED
    BY <1>2, <1>3

\* send_authenticated_locked(): the command gets the next number.
LEMMA SentConnection ==
  ASSUME NEW r, NEW b, NEW G, IsConnection(r, b, G), r.client # "none",
         NEW m \in Commands, m.type = "exam_start" => r.boot \in G
  PROVE  IsConnection([r EXCEPT !.next = @ + 1,
                                !.down = Append(@, [m EXCEPT !.seq = r.next])], b, G)
  <1>1. r \in Connections /\ r.down \in Seq(Commands) /\ r.next \in Nat /\ r.expect \in Nat
    BY ConnectionFields DEF IsConnection
  <1>2. PICK k \in Commands : k = [m EXCEPT !.seq = r.next]
    BY <1>1 DEF Commands
  <1>3. k.type = m.type /\ k.seq = r.next
    BY <1>2 DEF Commands
  <1>q. Append(r.down, k) \in Seq(Commands)
    BY <1>1
  <1>4. PICK d \in Seq(Commands) : d = Append(r.down, k)
    BY <1>q, Zenon
  <1>5. /\ Len(d) = Len(r.down) + 1 /\ Len(r.down) \in Nat /\ d[Len(r.down) + 1] = k
        /\ \A i \in 1..Len(r.down) : d[i] = r.down[i]
    BY <1>1, <1>4
  <1>6. PICK n \in Nat : n = r.next + 1
    BY <1>1
  <1> DEFINE x == [r EXCEPT !.next = n, !.down = d]
  <1>7. x \in Connections
    BY <1>1 DEF Connections
  <1>8. /\ x.next = n /\ x.down = d /\ x.client = r.client /\ x.boot = r.boot /\ x.up = r.up
        /\ x.open = r.open /\ x.expect = r.expect /\ x.live = r.live /\ x.stage = r.stage
    BY <1>1 DEF Connections
  <1>9. x = [r EXCEPT !.next = @ + 1, !.down = Append(@, [m EXCEPT !.seq = r.next])]
    BY <1>2, <1>4, <1>6
  <1> HIDE DEF x
  <1>10. Numbered(x)
    <2> SUFFICES ASSUME r.open, r.client \in Attached
                 PROVE  /\ n = r.expect + Len(d)
                        /\ \A i \in 1..Len(d) : d[i].seq = r.expect + i - 1
      BY <1>8 DEF Numbered
    <2>1. /\ r.next = r.expect + Len(r.down)
          /\ \A i \in 1..Len(r.down) : r.down[i].seq = r.expect + i - 1
      BY DEF IsConnection, Numbered
    <2>2. n = r.expect + Len(d)
      BY <1>1, <1>5, <1>6, <2>1
    <2>3. ASSUME NEW i \in 1..Len(d) PROVE d[i].seq = r.expect + i - 1
      <3>1. CASE i \in 1..Len(r.down)
        BY <1>5, <2>1, <3>1
      <3>2. CASE i = Len(r.down) + 1
        <4>1. d[i].seq = r.next
          BY <1>3, <1>5, <3>2
        <4> QED
          BY <1>1, <1>5, <2>1, <3>2, <4>1
      <3> QED
        BY <1>5, <3>1, <3>2
    <2> QED
      BY <2>2, <2>3
  <1>11. StartsProtected(x.down, x.boot, G)
    <2> SUFFICES ASSUME NEW i \in 1..Len(d), d[i].type = "exam_start" PROVE r.boot \in G
      BY <1>8 DEF StartsProtected
    <2>1. i \in 1..Len(r.down) \/ i = Len(r.down) + 1
      BY <1>5
    <2> QED
      BY <1>3, <1>5, <2>1 DEF IsConnection, StartsProtected
  <1>12. IsConnection(x, b, G)
    BY <1>7, <1>8, <1>10, <1>11 DEF IsConnection
  <1> QED
    BY <1>9, <1>12

\* The session has read the command it expects.
LEMMA ReceivedConnection ==
  ASSUME NEW r, NEW b, NEW G, IsConnection(r, b, G), r.client # "none", r.down # <<>>
  PROVE  IsConnection([r EXCEPT !.down = Tail(@), !.expect = @ + 1], b, G)
  <1>1. r \in Connections /\ r.down \in Seq(Commands) /\ r.next \in Nat /\ r.expect \in Nat
    BY ConnectionFields DEF IsConnection
  <1>q. Tail(r.down) \in Seq(Commands)
    BY <1>1
  <1>4. PICK d \in Seq(Commands) : d = Tail(r.down)
    BY <1>q, Zenon
  <1>5. /\ Len(d) = Len(r.down) - 1 /\ Len(r.down) \in Nat \ {0} /\ Len(d) \in Nat
        /\ \A i \in 1..Len(d) : d[i] = r.down[i + 1]
    BY <1>1, <1>4
  <1>6. PICK n \in Nat : n = r.expect + 1
    BY <1>1
  <1> DEFINE x == [r EXCEPT !.down = d, !.expect = n]
  <1>7. x \in Connections
    BY <1>1 DEF Connections
  <1>8. /\ x.next = r.next /\ x.down = d /\ x.client = r.client /\ x.boot = r.boot /\ x.up = r.up
        /\ x.open = r.open /\ x.expect = n /\ x.live = r.live /\ x.stage = r.stage
    BY <1>1 DEF Connections
  <1>9. x = [r EXCEPT !.down = Tail(@), !.expect = @ + 1]
    BY <1>4, <1>6
  <1> HIDE DEF x
  <1>10. Numbered(x)
    <2> SUFFICES ASSUME r.open, r.client \in Attached
                 PROVE  /\ r.next = n + Len(d)
                        /\ \A i \in 1..Len(d) : d[i].seq = n + i - 1
      BY <1>8 DEF Numbered
    <2>1. /\ r.next = r.expect + Len(r.down)
          /\ \A i \in 1..Len(r.down) : r.down[i].seq = r.expect + i - 1
      BY DEF IsConnection, Numbered
    <2>2. r.next = n + Len(d)
      <3>1. PICK k \in Nat, j \in Nat, e \in Nat :
                k = Len(r.down) /\ j = Len(d) /\ j = k - 1 /\ e = r.expect
        BY <1>1, <1>5
      <3>2. r.next = e + k /\ n = e + 1
        BY <1>6, <2>1, <3>1, Zenon
      <3>a. j = k - 1
        BY <3>1
      <3>3. e + k = (e + 1) + j
        BY <3>a
      <3> QED
        BY <3>1, <3>2, <3>3, Zenon
    <2>3. ASSUME NEW i \in 1..Len(d) PROVE d[i].seq = n + i - 1
      <3>1. i + 1 \in 1..Len(r.down)
        BY <1>5
      <3>2. d[i].seq = r.expect + (i + 1) - 1
        BY <1>5, <2>1, <3>1
      <3> QED
        BY <1>1, <1>6, <3>2
    <2> QED
      BY <2>2, <2>3
  <1>11. StartsProtected(x.down, x.boot, G)
    <2> SUFFICES ASSUME NEW i \in 1..Len(d), d[i].type = "exam_start" PROVE r.boot \in G
      BY <1>8 DEF StartsProtected
    <2>1. i + 1 \in 1..Len(r.down)
      BY <1>5
    <2> QED
      BY <1>5, <2>1 DEF IsConnection, StartsProtected
  <1>12. IsConnection(x, b, G)
    BY <1>7, <1>8, <1>10, <1>11 DEF IsConnection
  <1> QED
    BY <1>9, <1>12

\* A message goes up a connection, and the server takes it.
LEMMA ReportedConnection ==
  ASSUME NEW r, NEW b, NEW G, IsConnection(r, b, G), r.client # "none",
         NEW m \in Reports, m.boot = r.boot, m.proves => r.boot \in G
  PROVE  IsConnection([r EXCEPT !.up = Append(@, m)], b, G)
  <1>1. r \in Connections /\ r.up \in Seq(Reports)
    BY ConnectionFields DEF IsConnection
  <1>q. Append(r.up, m) \in Seq(Reports)
    BY <1>1
  <1>2. PICK u \in Seq(Reports) : u = Append(r.up, m)
    BY <1>q, Zenon
  <1>3. /\ Len(u) = Len(r.up) + 1 /\ Len(r.up) \in Nat /\ u[Len(r.up) + 1] = m
        /\ \A i \in 1..Len(r.up) : u[i] = r.up[i]
    BY <1>1, <1>2
  <1> DEFINE x == [r EXCEPT !.up = u]
  <1>4. x \in Connections
    BY <1>1 DEF Connections
  <1>5. /\ x.next = r.next /\ x.down = r.down /\ x.client = r.client /\ x.boot = r.boot
        /\ x.up = u /\ x.open = r.open /\ x.expect = r.expect /\ x.live = r.live
        /\ x.stage = r.stage
    BY <1>1 DEF Connections
  <1>6. x = [r EXCEPT !.up = Append(@, m)]
    BY <1>2
  <1> HIDE DEF x
  <1>7. Truthful(u, r.boot, G)
    <2> SUFFICES ASSUME NEW i \in 1..Len(u)
                 PROVE  u[i].boot = r.boot /\ (u[i].proves => r.boot \in G)
      BY DEF Truthful
    <2>1. i \in 1..Len(r.up) \/ i = Len(r.up) + 1
      BY <1>3
    <2> QED
      BY <1>3, <2>1 DEF IsConnection, Truthful
  <1>8. IsConnection(x, b, G)
    BY <1>4, <1>5, <1>7 DEF IsConnection, Numbered
  <1> QED
    BY <1>6, <1>8

\* process_authenticated() takes the first message of a connection.
LEMMA TakenConnection ==
  ASSUME NEW r, NEW b, NEW G, IsConnection(r, b, G), r.client # "none", r.up # <<>>
  PROVE  IsConnection([r EXCEPT !.up = Tail(@)], b, G)
  <1>1. r \in Connections /\ r.up \in Seq(Reports)
    BY ConnectionFields DEF IsConnection
  <1>q. Tail(r.up) \in Seq(Reports)
    BY <1>1
  <1>2. PICK u \in Seq(Reports) : u = Tail(r.up)
    BY <1>q, Zenon
  <1>3. Len(r.up) \in Nat /\ \A i \in 1..Len(u) : i + 1 \in 1..Len(r.up) /\ u[i] = r.up[i + 1]
    BY <1>1, <1>2
  <1> DEFINE x == [r EXCEPT !.up = u]
  <1>4. x \in Connections
    BY <1>1 DEF Connections
  <1>5. /\ x.next = r.next /\ x.down = r.down /\ x.client = r.client /\ x.boot = r.boot
        /\ x.up = u /\ x.open = r.open /\ x.expect = r.expect /\ x.live = r.live
        /\ x.stage = r.stage
    BY <1>1 DEF Connections
  <1>6. x = [r EXCEPT !.up = Tail(@)]
    BY <1>2
  <1> HIDE DEF x
  <1>7. Truthful(u, r.boot, G)
    BY <1>3 DEF Truthful, IsConnection
  <1>8. IsConnection(x, b, G)
    BY <1>4, <1>5, <1>7 DEF IsConnection, Numbered
  <1> QED
    BY <1>6, <1>8

-----------------------------------------------------------------------------
(* What a step leaves alone.                                                *)

\* One connection changes, while the machine keeps its boot.
LEMMA ChangedTable ==
  ASSUME TableOK, NEW c \in Conns, NEW r, IsConnection(r, machine.boot, GuardedBoots),
         conn' = [conn EXCEPT ![c] = r], machine'.boot = machine.boot,
         GuardedBoots' = GuardedBoots
  PROVE  TableOK'
  <1>1. r \in Connections /\ conn \in [Conns -> Connections]
    BY DEF IsConnection, TableOK
  <1>2. conn' \in [Conns -> Connections]
    BY <1>1
  <1>3. \A d \in Conns : conn'[d] = IF d = c THEN r ELSE conn[d]
    BY <1>1
  <1>4. \A d \in Conns : IsConnection(conn'[d], machine.boot, GuardedBoots)
    BY <1>3 DEF TableOK
  <1> QED
    BY <1>2, <1>4, Zenon DEF TableOK

\* A step that neither attaches nor detaches an end, nor moves a report.
Quiet ==
    \A d \in Conns :
        /\ conn'[d].client = conn[d].client /\ conn'[d].boot = conn[d].boot
        /\ conn'[d].live = conn[d].live /\ conn'[d].up = conn[d].up
        /\ conn'[d].reported = conn[d].reported
        /\ conn'[d].open => conn[d].open

\* The service keeps its links and its race.
SameLinks ==
    /\ service'.link = service.link /\ service'.race = service.race
    /\ service'.winner = service.winner

\* A step of the service from s to t that had a report to send still has one, or
\* has lost it.
ReportKept(s, t) ==
    s.worker # "idle" \/ s.out # <<>> \/ s.dropped =>
        t.worker # "idle" \/ t.out # <<>> \/ t.dropped

\* A quiet step leaves the service's ends what they are.
LEMMA QuietEnds ==
  ASSUME EndsOK, Quiet, SameLinks
  PROVE  EndsOK'
  BY DEF EndsOK, Quiet, SameLinks

\* A quiet step leaves the exam context and the start in progress as they are.
LEMMA QuietExam ==
  ASSUME ExamOK, Quiet, GuardedBoots \subseteq GuardedBoots', UNCHANGED <<exam, starting>>
  PROVE  ExamOK'
  BY DEF ExamOK, Quiet

\* A quiet step may spend a budget other than the connections'.
LEMMA QuietUsed ==
  ASSUME UsedOK, Quiet, used' \in [connections : Nat, commands : Nat, faults : Nat,
                                   actions : Nat, base : Nat],
         used'.connections = used.connections, used'.base <= used'.actions
  PROVE  UsedOK'
  BY DEF UsedOK, Quiet

\* A quiet step forgets no report.
LEMMA QuietReport ==
  ASSUME ReportComing, ServiceOK, Quiet, SameLinks,
         ReportKept(service, service')
  PROVE  ReportComing'
  <1>1. ASSUME service.link # NoConn
        PROVE  /\ service.link \in Conns
               /\ conn'[service.link].open => conn[service.link].open
               /\ conn'[service.link].up = conn[service.link].up
               /\ conn'[service.link].reported = conn[service.link].reported
    BY <1>1 DEF ServiceOK, ServiceRecords, Quiet
  <1> QED
    BY <1>1 DEF ReportComing, ReportKept, SameLinks

\* The seat stays as it is: for the abstract seat, connections come and go.
LEMMA SeatStays ==
  ASSUME SeatOK, UNCHANGED <<owner, record, carrier>>,
         GuardedBoots \subseteq GuardedBoots',
         owner # NoConn => /\ conn'[owner].live /\ conn'[owner].stage = "authenticated"
                           /\ conn'[owner].boot = conn[owner].boot
  PROVE  SeatOK' /\ Seat!Transport
  <1>1. SeatOK'
    BY DEF SeatOK, proves_current_protection
  <1>2. Seat!Transport
    <2>1. {c \in Conns : conn'[c].live} \in SUBSET Conns
      OBVIOUS
    <2>2. owner \in {c \in Conns : conn'[c].live} \cup {NoConn}
      BY DEF SeatOK
    <2> QED
      BY <2>1, <2>2 DEF Seat!Transport, proves_current_protection
  <1> QED
    BY <1>1, <1>2

\* A quiet step in which the owner stays authenticated keeps the seat.
LEMMA QuietSeat ==
  ASSUME SeatOK, Quiet, UNCHANGED <<owner, record, carrier>>,
         GuardedBoots \subseteq GuardedBoots',
         owner # NoConn => conn'[owner].stage = "authenticated"
  PROVE  SeatOK' /\ Seat!Transport
  <1>1. owner # NoConn => conn'[owner].live /\ conn'[owner].boot = conn[owner].boot
    BY DEF Quiet, SeatOK
  <1> QED
    BY <1>1, SeatStays

\* The machine and the service are left alone.
LEMMA SameMachine ==
  ASSUME UNCHANGED machine
  PROVE  /\ GuardedBoots' = GuardedBoots /\ GuardedBoots \subseteq GuardedBoots'
         /\ machine'.boot = machine.boot
         /\ MachineOK => MachineOK'
  BY DEF GuardedBoots, MachineOK

\* A step of the server does not reach into the service.
LEMMA SameService ==
  ASSUME UNCHANGED <<machine, service>>
  PROVE  SameLinks /\ (ServiceOK => ServiceOK')
  BY SameMachine DEF SameLinks, ServiceOK, OutOK, Truthful

\* A step of the server that leaves the service, the seat and its record alone.
LEMMA QuietStep ==
  ASSUME ClassroomIInv, TableOK', Quiet, UNCHANGED <<machine, service, owner, record, carrier>>,
         \A d \in Conns : conn[d].stage = "authenticated" => conn'[d].stage = "authenticated",
         ExamOK', UsedOK'
  PROVE  ClassroomIInv' /\ Seat!Next
  <1>1. /\ GuardedBoots \subseteq GuardedBoots' /\ MachineOK' /\ ServiceOK' /\ SameLinks
    BY SameMachine, SameService DEF ClassroomIInv
  <1>2. SeatOK' /\ Seat!Transport
    <2>1. owner # NoConn => conn'[owner].stage = "authenticated"
      BY DEF ClassroomIInv, SeatOK
    <2> QED
      BY <1>1, <2>1, QuietSeat DEF ClassroomIInv
  <1>3. EndsOK' /\ ReportComing'
    BY <1>1, QuietEnds, QuietReport DEF ClassroomIInv, ReportKept
  <1> QED
    BY <1>1, <1>2, <1>3 DEF ClassroomIInv, Seat!Next

\* The socket of a connection closes.
LEMMA CloseEffect ==
  ASSUME TableOK, NEW c \in Conns \cup {NoConn}, conn' = close_connection(conn, c), UNCHANGED machine
  PROVE  /\ TableOK' /\ Quiet
         /\ \A d \in Conns : conn'[d].stage = conn[d].stage
  <1>1. CASE c = NoConn
    <2>1. conn' = conn
      BY <1>1 DEF close_connection
    <2> QED
      BY <2>1, SameMachine DEF TableOK, Quiet
  <1>2. CASE c \in Conns
    <2> DEFINE r == [conn[c] EXCEPT !.open = FALSE]
    <2>1. conn' = [conn EXCEPT ![c] = r]
      BY <1>2 DEF close_connection, Conns, NoConn
    <2>2. conn \in [Conns -> Connections] /\ IsConnection(conn[c], machine.boot, GuardedBoots)
      BY <1>2 DEF TableOK
    <2>3. IsConnection(r, machine.boot, GuardedBoots)
      BY <2>2, ClosedConnection
    <2>4. /\ r.client = conn[c].client /\ r.boot = conn[c].boot /\ r.live = conn[c].live
          /\ r.up = conn[c].up /\ r.reported = conn[c].reported /\ ~r.open
          /\ r.stage = conn[c].stage
      BY <1>2, <2>2 DEF Connections
    <2> HIDE DEF r
    <2>5. TableOK'
      BY <1>2, <2>1, <2>3, ChangedTable, SameMachine
    <2>6. \A d \in Conns : conn'[d] = IF d = c THEN r ELSE conn[d]
      BY <2>1, <2>2
    <2> QED
      BY <2>4, <2>5, <2>6 DEF Quiet
  <1> QED
    BY <1>1, <1>2

\* A command is queued on a connection, or not.
LEMMA SendEffect ==
  ASSUME TableOK, NEW c \in Conns, NEW m \in Commands,
         conn' = send_authenticated_locked(conn, c, m), UNCHANGED machine,
         m.type = "exam_start" /\ conn[c].open => conn[c].boot \in GuardedBoots
  PROVE  /\ TableOK' /\ Quiet
         /\ \A d \in Conns : conn'[d].stage = conn[d].stage
  <1>1. CASE ~CanSend(c)
    <2>1. conn' = conn
      BY <1>1 DEF send_authenticated_locked
    <2> QED
      BY <2>1, SameMachine DEF TableOK, Quiet
  <1>2. CASE CanSend(c)
    <2> DEFINE r == [conn[c] EXCEPT !.next = @ + 1,
                                    !.down = Append(@, [m EXCEPT !.seq = conn[c].next])]
    <2>1. conn \in [Conns -> Connections] /\ IsConnection(conn[c], machine.boot, GuardedBoots)
      BY DEF TableOK
    <2>2. conn[c].open /\ conn[c].client # "none"
      BY <1>2, <2>1 DEF CanSend, IsConnection
    <2>3. conn' = [conn EXCEPT ![c] = r]
      <3>1. conn' = [conn EXCEPT ![c].next = @ + 1,
                                 ![c].down = Append(@, [m EXCEPT !.seq = conn[c].next])]
        BY <1>2 DEF send_authenticated_locked, encode_authenticated_command
      <3> QED
        BY <2>1, <3>1
    <2>4. IsConnection(r, machine.boot, GuardedBoots)
      BY <2>1, <2>2, SentConnection
    <2>5. /\ r.client = conn[c].client /\ r.boot = conn[c].boot /\ r.live = conn[c].live
          /\ r.up = conn[c].up /\ r.reported = conn[c].reported /\ r.open = conn[c].open
          /\ r.stage = conn[c].stage
      BY <2>1 DEF Connections
    <2> HIDE DEF r
    <2>6. TableOK'
      BY <2>3, <2>4, ChangedTable, SameMachine
    <2>7. \A d \in Conns : conn'[d] = IF d = c THEN r ELSE conn[d]
      BY <2>1, <2>3
    <2> QED
      BY <2>5, <2>6, <2>7 DEF Quiet
  <1> QED
    BY <1>1, <1>2

\* A connection changes its stage and the connection it took the seat from.
LEMMA StageEffect ==
  ASSUME TableOK, NEW c \in Conns, conn[c].client # "none", UNCHANGED machine,
         NEW s \in {"accepted", "authenticated", "failed"}, NEW p \in Conns \cup {NoConn},
         s = "authenticated" => conn[c].live,
         \/ conn' = [conn EXCEPT ![c].stage = s]
         \/ conn' = [conn EXCEPT ![c].stage = s, ![c].previous = p]
  PROVE  /\ TableOK' /\ Quiet /\ conn'[c].stage = s
         /\ \A d \in Conns \ {c} : conn'[d] = conn[d]
  <1>1. conn \in [Conns -> Connections] /\ IsConnection(conn[c], machine.boot, GuardedBoots)
    BY DEF TableOK
  <1>2. PICK r : /\ r \in {[conn[c] EXCEPT !.stage = s], [conn[c] EXCEPT !.stage = s, !.previous = p]}
                 /\ conn' = [conn EXCEPT ![c] = r]
    <2>1. CASE conn' = [conn EXCEPT ![c].stage = s]
      BY <2>1
    <2>2. CASE conn' = [conn EXCEPT ![c].stage = s, ![c].previous = p]
      <3>1. conn' = [conn EXCEPT ![c] = [conn[c] EXCEPT !.stage = s, !.previous = p]]
        BY <1>1, <2>2
      <3> QED
        BY <3>1
    <2> QED
      BY <2>1, <2>2
  <1>3. IsConnection(r, machine.boot, GuardedBoots)
    <2>1. CASE r = [conn[c] EXCEPT !.stage = s]
      BY <1>1, <2>1, StagedConnection
    <2>2. CASE r = [conn[c] EXCEPT !.stage = s, !.previous = p]
      BY <1>1, <2>2, StagedConnection
    <2> QED
      BY <1>2, <2>1, <2>2
  <1>4. /\ r.client = conn[c].client /\ r.boot = conn[c].boot /\ r.live = conn[c].live
        /\ r.up = conn[c].up /\ r.reported = conn[c].reported /\ r.open = conn[c].open
        /\ r.stage = s
    <2>0. conn[c] \in Connections
      BY <1>1
    <2>1. CASE r = [conn[c] EXCEPT !.stage = s]
      BY <2>0, <2>1 DEF Connections
    <2>2. CASE r = [conn[c] EXCEPT !.stage = s, !.previous = p]
      BY <2>0, <2>2 DEF Connections
    <2> QED
      BY <1>2, <2>1, <2>2
  <1>5. TableOK'
    BY <1>2, <1>3, ChangedTable, SameMachine
  <1>6. \A d \in Conns : conn'[d] = IF d = c THEN r ELSE conn[d]
    BY <1>1, <1>2
  <1> QED
    BY <1>4, <1>5, <1>6 DEF Quiet

-----------------------------------------------------------------------------
(* The steps.  Each keeps the invariant and is a step of the abstract seat. *)

\* The server starts without a connection, and so does the seat.
LEMMA Initially == Init => ClassroomIInv /\ Seat!Init
  <1> SUFFICES ASSUME Init PROVE ClassroomIInv /\ Seat!Init
    OBVIOUS
  <1>1. MachineOK
    <2>1. PICK on \in BOOLEAN, supported \in BOOLEAN :
             machine = [boot |-> 1, guarded |-> on, armed |-> on, guardedBoots |-> {},
                        supported |-> supported]
      BY DEF Init
    <2>2. 1 \in 1..MaxBoot
      BY BoundsAssumption
    <2> QED
      BY <2>1, <2>2 DEF MachineOK
  <1>2. /\ \A c \in Conns : /\ conn[c] = NewConnection
                             /\ conn[c].client = "none" /\ ~conn[c].live
        /\ TableOK
    <2>1. NewConnection \in Connections /\ conn = [c \in Conns |-> NewConnection]
      BY FreshConnection DEF Init, IsConnection
    <2>2. NewConnection.client = "none" /\ ~NewConnection.live
      BY DEF NewConnection
    <2> QED
      BY <2>1, <2>2, FreshConnection DEF TableOK
  <1>3. UsedOK
    BY <1>2 DEF Init, UsedOK
  <1>4. /\ ServiceOK /\ service.link = NoConn /\ service.race = {} /\ service.winner = NoConn
    <2>1. service \in ServiceRecords
      BY DEF Init, NewService, Phases, ServiceRecords
    <2>2. /\ service.link = NoConn /\ service.race = {} /\ service.winner = NoConn
          /\ service.out = <<>> /\ service.exam = FALSE
      BY DEF Init, NewService
    <2> QED
      BY <2>1, <2>2 DEF ServiceOK, OutOK, Truthful
  <1>5. EndsOK /\ ReportComing
    BY <1>2, <1>4 DEF EndsOK, ReportComing, Conns, NoConn
  <1>6. /\ record \in ClientRecord /\ record.status = "offline"
        /\ ~proves_current_protection(record)
    BY DEF Init, NoRecord, ClientRecord, UwfFleetState, Phases, Statuses, NoBoot,
           proves_current_protection
  <1>7. SeatOK
    BY <1>6 DEF Init, SeatOK
  <1>8. ExamOK
    BY BoundsAssumption DEF Init, ExamOK, NotStarting, NoExam
  <1>9. Seat!Init
    BY <1>2, <1>6 DEF Init, Seat!Init
  <1> QED
    BY <1>1, <1>2, <1>3, <1>4, <1>5, <1>7, <1>8, <1>9 DEF ClassroomIInv

\* The transport closes a connection, a handshake goes on.
LEMMA TransportStep ==
  ASSUME ClassroomIInv, NEW c \in Conns,
         watchdog_loop(c) \/ TransportFails(c) \/ handshake(c) \/ disconnect_previous(c)
  PROVE  ClassroomIInv' /\ Seat!Next
  <1> USE DEF ClassroomIInv
  <1>0. UNCHANGED <<machine, service, owner, record, carrier, exam, starting>>
    BY DEF watchdog_loop, TransportFails, handshake, disconnect_previous
  <1>1. /\ TableOK' /\ Quiet
        /\ \A d \in Conns : conn[d].stage = "authenticated" => conn'[d].stage = "authenticated"
    <2>1. CASE watchdog_loop(c) \/ TransportFails(c)
      BY <1>0, <2>1, CloseEffect DEF watchdog_loop, TransportFails
    <2>2. CASE handshake(c)
      <3>1. conn[c].open /\ conn[c].stage = "auth_hello"
            /\ conn' = [conn EXCEPT ![c].stage = "accepted"]
        BY <2>2 DEF handshake
      <3>2. conn[c].client # "none"
        BY <3>1 DEF TableOK, IsConnection
      <3>3. NoConn \in Conns \cup {NoConn}
        OBVIOUS
      <3> QED
        BY <1>0, <3>1, <3>2, <3>3, StageEffect
    <2>3. CASE disconnect_previous(c)
      <3>1. conn \in [Conns -> Connections] /\ conn[c].previous \in Conns
        BY <2>3, ConnectionFields DEF disconnect_previous, TableOK
      <3>2. PICK p \in Conns : p = conn[c].previous
        BY <3>1
      <3>3. conn' = [[conn EXCEPT ![p].open = FALSE] EXCEPT ![c].previous = NoConn]
        BY <2>3, <3>2 DEF disconnect_previous, close_connection
      <3> DEFINE Closed(d) == IF d = p THEN [conn[d] EXCEPT !.open = FALSE] ELSE conn[d]
      <3>4. ASSUME NEW d \in Conns
            PROVE  /\ IsConnection(Closed(d), machine.boot, GuardedBoots)
                   /\ Closed(d).client = conn[d].client /\ Closed(d).boot = conn[d].boot
                   /\ Closed(d).live = conn[d].live /\ Closed(d).up = conn[d].up
                   /\ Closed(d).reported = conn[d].reported
                   /\ Closed(d).open => conn[d].open
                   /\ Closed(d).stage = conn[d].stage
        BY <3>1, ClosedConnection DEF TableOK, Connections
      <3>5. \A d \in Conns : conn'[d] = IF d = c THEN [Closed(d) EXCEPT !.previous = NoConn]
                                       ELSE Closed(d)
        BY <3>1, <3>3
      <3> HIDE DEF Closed
      <3>6. ASSUME NEW d \in Conns
            PROVE  /\ IsConnection(conn'[d], machine.boot, GuardedBoots)
                   /\ conn'[d].client = conn[d].client /\ conn'[d].boot = conn[d].boot
                   /\ conn'[d].live = conn[d].live /\ conn'[d].up = conn[d].up
                   /\ conn'[d].reported = conn[d].reported
                   /\ conn'[d].open => conn[d].open
                   /\ conn'[d].stage = conn[d].stage
        <4>1. Closed(d) \in Connections
          BY <3>4 DEF IsConnection
        <4>2. CASE d # c
          BY <3>4, <3>5, <4>2
        <4>3. CASE d = c
          <5> DEFINE x == [Closed(d) EXCEPT !.previous = NoConn]
          <5>1. conn'[d] = x
            BY <3>5, <4>3
          <5>2. IsConnection(x, machine.boot, GuardedBoots)
            BY <3>4, SettledConnection
          <5>3. /\ x.client = Closed(d).client /\ x.boot = Closed(d).boot
                /\ x.live = Closed(d).live /\ x.up = Closed(d).up
                /\ x.reported = Closed(d).reported /\ x.open = Closed(d).open
                /\ x.stage = Closed(d).stage
            BY <4>1 DEF Connections
          <5> HIDE DEF x
          <5> QED
            BY <3>4, <5>1, <5>2, <5>3
        <4> QED
          BY <4>2, <4>3
      <3>7. conn' \in [Conns -> Connections]
        <4>1. \A d \in Conns : conn'[d] \in Connections
          BY <3>6 DEF IsConnection
        <4>2. conn' = [d \in Conns |-> conn'[d]]
          BY <3>1, <3>3
        <4> QED
          BY <4>1, <4>2
      <3>8. TableOK'
        BY <1>0, <3>6, <3>7, SameMachine DEF TableOK
      <3> QED
        BY <3>6, <3>8 DEF Quiet
    <2> QED
      BY <2>1, <2>2, <2>3
  <1>2. ExamOK'
    BY <1>0, <1>1, QuietExam, SameMachine
  <1>3. UsedOK'
    <2>1. used' = used \/ used' = Fault
      BY DEF watchdog_loop, TransportFails, handshake, disconnect_previous
    <2>2. /\ used' \in [connections : Nat, commands : Nat, faults : Nat, actions : Nat, base : Nat]
          /\ used'.connections = used.connections /\ used'.base <= used'.actions
      <3>1. used.faults + 1 \in Nat
        BY DEF UsedOK
      <3> QED
        BY <2>1, <3>1 DEF UsedOK, Fault
    <2> QED
      BY <1>1, <2>2, QuietUsed
  <1> QED
    BY <1>0, <1>1, <1>2, <1>3, QuietStep

\* A command other than an exam start goes to the owner of the seat.
LEMMA CommandEffect ==
  ASSUME TableOK, SeatOK, NEW m \in Commands, m.type # "exam_start",
         conn' = send_command(m), UNCHANGED machine
  PROVE  /\ TableOK' /\ Quiet
         /\ \A d \in Conns : conn'[d].stage = conn[d].stage
  <1>1. CASE owner = NoConn \/ Locked(owner)
    <2>1. conn' = conn
      BY <1>1 DEF send_command
    <2> QED
      BY <2>1, SameMachine DEF TableOK, Quiet
  <1>2. CASE ~(owner = NoConn \/ Locked(owner))
    <2>1. owner \in Conns /\ conn' = send_authenticated_locked(conn, owner, m)
      BY <1>2 DEF send_command, SeatOK
    <2> QED
      BY <2>1, SendEffect
  <1> QED
    BY <1>1, <1>2

\* The counters of commands.
LEMMA SpendUsed ==
  ASSUME UsedOK, Quiet, used' = used \/ used' = Spend
  PROVE  UsedOK'
  <1>1. used.commands + 1 \in Nat
    BY DEF UsedOK
  <1>2. /\ used' \in [connections : Nat, commands : Nat, faults : Nat, actions : Nat, base : Nat]
        /\ used'.connections = used.connections /\ used'.base <= used'.actions
    BY <1>1 DEF UsedOK, Spend
  <1> QED
    BY <1>2, QuietUsed

\* The operator's commands that leave the record alone, and the two halves of
\* an exam start.
LEMMA OperatorQuietStep ==
  ASSUME ClassroomIInv,
         configure_uwf_command \/ start_exam \/ stop_exam \/ admit \/ send_exam_start
  PROVE  ClassroomIInv' /\ Seat!Next
  <1> USE DEF ClassroomIInv
  <1>0. /\ UNCHANGED <<machine, service, owner, record, carrier>>
        /\ used' = used \/ used' = Spend
    BY DEF configure_uwf_command, start_exam, stop_exam, admit, send_exam_start
  <1>c. \A type \in {"exam_start", "exam_stop", "uwf_configure", "uwf_fleet_configure"} :
           Command(type) \in Commands /\ Command(type).type = type
    BY DEF Command, Commands
  <1>s. NotStarting \in [conn : Conns \cup {NoConn}, step : {"idle", "selected", "admitted"}]
        /\ NotStarting.step = "idle"
    BY DEF NotStarting
  <1>e. NoExam \in 0..MaxBoot
    BY BoundsAssumption DEF NoExam
  <1>1. /\ TableOK' /\ Quiet
        /\ \A d \in Conns : conn'[d].stage = conn[d].stage
    <2>1. CASE configure_uwf_command
      BY <1>0, <1>c, <2>1, CommandEffect DEF configure_uwf_command
    <2>2. CASE stop_exam
      BY <1>0, <1>c, <2>2, CommandEffect DEF stop_exam
    <2>3. CASE start_exam \/ admit
      <3>1. conn' = conn
        BY <2>3 DEF start_exam, admit
      <3> QED
        BY <1>0, <3>1, SameMachine DEF TableOK, Quiet
    <2>4. CASE send_exam_start
      <3>1. /\ starting.step = "admitted"
            /\ conn' = send_authenticated_locked(conn, starting.conn, Command("exam_start"))
        BY <2>4 DEF send_exam_start
      <3>2. /\ starting.conn \in Conns
            /\ conn[starting.conn].open => conn[starting.conn].boot \in GuardedBoots
        BY <3>1 DEF ExamOK
      <3> QED
        BY <1>0, <1>c, <3>1, <3>2, SendEffect
    <2> QED
      BY <2>1, <2>2, <2>3, <2>4
  <1>2. ExamOK'
    <2>1. CASE configure_uwf_command
      BY <1>0, <1>1, <2>1, QuietExam, SameMachine DEF configure_uwf_command
    <2>2. CASE stop_exam
      <3>1. starting' = starting /\ exam' \in {NoExam, exam}
        BY <2>2 DEF stop_exam
      <3> QED
        BY <1>0, <1>1, <1>e, <3>1, SameMachine DEF ExamOK, Quiet
    <2>3. CASE start_exam
      <3>1. /\ exam' = exam /\ conn' = conn /\ owner # NoConn
            /\ starting' = [conn |-> owner, step |-> "selected"]
        BY <2>3 DEF start_exam
      <3>2. owner \in Conns /\ conn[owner].client # "none"
        BY <3>1 DEF SeatOK, TableOK, IsConnection
      <3> QED
        BY <1>0, <3>1, <3>2, SameMachine DEF ExamOK
    <2>4. CASE admit
      <3>1. starting.step = "selected" /\ starting.conn \in Conns /\ conn' = conn
        BY <2>4 DEF admit, ExamOK
      <3>2. CASE starting' = NotStarting /\ exam' = exam
        BY <1>0, <1>s, <3>2, SameMachine DEF ExamOK
      <3>3. CASE /\ is_current_state(starting.conn) /\ proves_current_protection(record)
                 /\ exam' = conn[starting.conn].boot
                 /\ starting' = [starting EXCEPT !.step = "admitted"]
        <4>1. conn[starting.conn].boot \in GuardedBoots
          BY <3>3 DEF is_current_state, SeatOK
        <4>2. exam' \in 0..MaxBoot
          BY <3>1, <3>3, ConnectionFields DEF TableOK
        <4>3. /\ starting' \in [conn : Conns \cup {NoConn}, step : {"idle", "selected", "admitted"}]
              /\ starting'.conn = starting.conn
          BY <3>3 DEF ExamOK
        <4>4. conn[starting.conn].client # "none"
          BY <3>1 DEF ExamOK
        <4> QED
          BY <1>0, <3>1, <3>3, <4>1, <4>2, <4>3, <4>4, SameMachine DEF ExamOK
      <3> QED
        BY <2>4, <3>2, <3>3 DEF admit
    <2>5. CASE send_exam_start
      <3>1. starting' = NotStarting /\ exam' \in {NoExam, exam}
        BY <2>5 DEF send_exam_start
      <3> QED
        BY <1>0, <1>e, <1>s, <3>1, SameMachine DEF ExamOK
    <2> QED
      BY <2>1, <2>2, <2>3, <2>4, <2>5
  <1>3. UsedOK'
    BY <1>0, <1>1, SpendUsed
  <1> QED
    BY <1>0, <1>1, <1>2, <1>3, QuietStep

\* The record of an operation takes the proof away before the command leaves.
LEMMA FleetOperationStep ==
  ASSUME ClassroomIInv, configure_uwf_fleet
  PROVE  ClassroomIInv' /\ Seat!Next
  <1> USE DEF ClassroomIInv
  <1>1. PICK action \in Nat : action = used.actions + 1
    BY DEF UsedOK
  <1>2. PICK op \in Nat : op = action - used.base
    BY <1>1 DEF UsedOK
  <1>3. /\ record' = begin_uwf_fleet_operation(record, op)
        /\ conn' = send_command([Command("uwf_fleet_configure") EXCEPT !.op = op, !.action = action])
        /\ used' = [Spend EXCEPT !.actions = action]
        /\ UNCHANGED <<machine, service, owner, exam, starting, carrier>>
    BY <1>1, <1>2 DEF configure_uwf_fleet
  <1>4. /\ TableOK' /\ Quiet
        /\ \A d \in Conns : conn'[d].stage = conn[d].stage
    <2> DEFINE m == [Command("uwf_fleet_configure") EXCEPT !.op = op, !.action = action]
    <2>1. m \in Commands /\ m.type # "exam_start"
      BY DEF Command, Commands
    <2> HIDE DEF m
    <2> QED
      BY <1>3, <2>1, CommandEffect DEF m
  <1>5. UsedOK'
    <2>1. used.commands + 1 \in Nat /\ used.base \in Nat /\ used.base <= action
      BY <1>1 DEF UsedOK
    <2>2. /\ used' \in [connections : Nat, commands : Nat, faults : Nat, actions : Nat, base : Nat]
          /\ used'.connections = used.connections /\ used'.base <= used'.actions
      BY <1>3, <2>1 DEF UsedOK, Spend
    <2> QED
      BY <1>4, <2>2, QuietUsed
  <1>6. /\ record' \in ClientRecord /\ record'.status = record.status
        /\ ~proves_current_protection(record')
    <2>1. record \in ClientRecord
      BY DEF SeatOK
    <2> QED
      BY <1>3, <2>1 DEF begin_uwf_fleet_operation, ClientRecord, UwfFleetState, Phases,
                        proves_current_protection, NoBoot
  <1>7. SeatOK' /\ Seat!Withdraw
    <2>1. SeatOK'
      BY <1>3, <1>4, <1>6 DEF SeatOK, Quiet
    <2>2. {d \in Conns : conn'[d].live} = {d \in Conns : conn[d].live}
      BY <1>4 DEF Quiet
    <2> QED
      BY <1>3, <1>6, <2>1, <2>2 DEF Seat!Withdraw
  <1>8. MachineOK' /\ ServiceOK' /\ SameLinks
    BY <1>3, SameMachine, SameService
  <1>9. EndsOK' /\ ExamOK' /\ ReportComing'
    BY <1>3, <1>4, <1>8, QuietEnds, QuietExam, QuietReport, SameMachine DEF ReportKept
  <1> QED
    BY <1>4, <1>5, <1>7, <1>8, <1>9 DEF Seat!Next

\* A step that keeps the clients' ends and opens nothing.
SameClients ==
    \A d \in Conns : /\ conn'[d].client = conn[d].client
                     /\ conn'[d].open => conn[d].open /\ conn'[d].boot = conn[d].boot

\* Such a step keeps the service's ends, the budgets and the exam context.
LEMMA SameClientsKeep ==
  ASSUME EndsOK, ExamOK, UsedOK, SameClients, UNCHANGED <<machine, service, used>>
  PROVE  /\ EndsOK' /\ UsedOK'
         /\ UNCHANGED <<exam, starting>> => ExamOK'
  <1>1. EndsOK' /\ UsedOK'
    BY DEF EndsOK, UsedOK, SameClients
  <1>2. UNCHANGED <<exam, starting>> => ExamOK'
    BY SameMachine DEF ExamOK, SameClients
  <1> QED
    BY <1>1, <1>2

\* A registry record that has lost its proof, or never had one.
LEMMA DemotedRecord ==
  ASSUME NEW r \in ClientRecord, NEW st \in {"online", "offline"}
  PROVE  /\ demote_uwf_verification(r) \in ClientRecord
         /\ set_status(r, st) \in ClientRecord /\ set_status(r, st).status = st
         /\ upsert(r, st) \in ClientRecord /\ upsert(r, st).status = st
         /\ demote_uwf_verification(r).status = r.status
         /\ ~proves_current_protection(demote_uwf_verification(r))
         /\ proves_current_protection(upsert(r, st)) <=> proves_current_protection(r)
         /\ upsert(r, st).uwf = r.uwf
  <1>1. /\ demote_uwf_verification(r) \in ClientRecord
        /\ demote_uwf_verification(r).status = r.status
        /\ ~proves_current_protection(demote_uwf_verification(r))
    BY DEF demote_uwf_verification, retire_uwf_proof, ClientRecord, UwfFleetState, Phases,
           NoBoot, proves_current_protection
  <1>2. /\ set_status(r, st) \in ClientRecord /\ set_status(r, st).status = st
        /\ upsert(r, st) \in ClientRecord /\ upsert(r, st).status = st
    BY DEF set_status, upsert, ClientRecord, Statuses
  <1>3. upsert(r, st).uwf = r.uwf
    BY DEF upsert, ClientRecord
  <1> QED
    BY <1>1, <1>2, <1>3 DEF proves_current_protection

\* publish(): the seat changes hands.
LEMMA PublishStep ==
  ASSUME ClassroomIInv, NEW c \in Conns, publish(c)
  PROVE  ClassroomIInv' /\ Seat!Next
  <1> USE DEF ClassroomIInv
  <1>0. /\ conn[c].stage = "accepted"
        /\ UNCHANGED <<machine, service, exam, starting, used, carrier>>
    BY DEF publish
  <1>1. conn[c].client # "none" /\ owner \in Conns \cup {NoConn}
    BY <1>0 DEF TableOK, IsConnection, SeatOK
  <1>2. CASE conn[c].live
    <2>1. /\ conn' = [conn EXCEPT ![c].stage = "authenticated", ![c].previous = owner]
          /\ owner' = c
          /\ record' = upsert(demote_uwf_verification(record), "online")
      BY <1>2 DEF publish
    <2>2. /\ TableOK' /\ Quiet /\ conn'[c].stage = "authenticated"
          /\ \A d \in Conns \ {c} : conn'[d] = conn[d]
      BY <1>0, <1>1, <1>2, <2>1, StageEffect
    <2>3. /\ record' \in ClientRecord /\ record'.status = "online"
          /\ ~proves_current_protection(record')
      <3>1. record \in ClientRecord
        BY DEF SeatOK
      <3>2. PICK r \in ClientRecord : r = demote_uwf_verification(record)
        BY <3>1, DemotedRecord
      <3>3. ~proves_current_protection(r)
        BY <3>1, <3>2, DemotedRecord
      <3> QED
        BY <2>1, <3>2, <3>3, DemotedRecord
    <2>4. c # NoConn
      BY DEF Conns, NoConn
    <2>5. SeatOK'
      <3>1. conn'[c].live
        BY <1>2, <2>2 DEF Quiet
      <3> QED
        BY <1>0, <2>1, <2>2, <2>3, <2>4, <3>1 DEF SeatOK
    <2>6. Seat!Claim(c)
      <3>1. {d \in Conns : conn'[d].live} = {d \in Conns : conn[d].live}
        BY <2>2 DEF Quiet
      <3> QED
        BY <1>2, <2>1, <2>3, <3>1 DEF Seat!Claim
    <2>7. MachineOK' /\ ServiceOK' /\ SameLinks
      BY <1>0, SameMachine, SameService
    <2>8. EndsOK' /\ ExamOK' /\ ReportComing' /\ UsedOK'
      <3>1. SameClients
        BY <2>2 DEF Quiet, SameClients
      <3> QED
        BY <1>0, <2>2, <2>7, <3>1, SameClientsKeep, QuietReport DEF ReportKept
    <2> QED
      BY <2>2, <2>5, <2>6, <2>7, <2>8 DEF Seat!Next
  <1>3. CASE ~conn[c].live
    <2>1. conn' = [conn EXCEPT ![c].stage = "failed"] /\ UNCHANGED <<owner, record>>
      BY <1>3 DEF publish
    <2>2. /\ TableOK' /\ Quiet
          /\ \A d \in Conns \ {c} : conn'[d] = conn[d]
      BY <1>0, <1>1, <2>1, StageEffect
    <2>3. ExamOK' /\ UsedOK'
      <3>1. SameClients
        BY <2>2 DEF Quiet, SameClients
      <3> QED
        BY <1>0, <3>1, SameClientsKeep
    <2> QED
      BY <1>0, <2>1, <2>2, <2>3, QuietStep
  <1> QED
    BY <1>2, <1>3

\* The server forgets some of its connections.
Fading ==
    \A d \in Conns : \/ conn'[d] = conn[d]
                     \/ /\ conn'[d].client = conn[d].client
                        /\ ~conn'[d].open /\ ~conn'[d].live

\* Forgetting a connection loses no report of a client that still holds it.
LEMMA FadingKeeps ==
  ASSUME ClassroomIInv, Fading, UNCHANGED <<machine, service>>
  PROVE  /\ SameClients /\ MachineOK' /\ ServiceOK' /\ ReportComing'
  <1> USE DEF ClassroomIInv
  <1>1. SameClients
    BY DEF Fading, SameClients
  <1>2. MachineOK' /\ ServiceOK'
    BY SameMachine, SameService
  <1>3. ReportComing'
    <2>1. service.link # NoConn => service.link \in Conns
      BY DEF ServiceOK, ServiceRecords
    <2> QED
      BY <2>1 DEF ReportComing, Fading
  <1> QED
    BY <1>1, <1>2, <1>3

\* on_disconnected(): the control plane hears that a connection is closed.
LEMMA DisconnectedStep ==
  ASSUME ClassroomIInv, NEW c \in Conns, on_disconnected(c)
  PROVE  ClassroomIInv' /\ Seat!Next
  <1> USE DEF ClassroomIInv
  <1>0. /\ conn[c].live /\ conn' = Forget(conn, c, Unfinished(c))
        /\ UNCHANGED <<machine, service, exam, starting, used, carrier>>
    BY DEF on_disconnected
  <1>1. PICK s \in {"accepted", "failed"} : s = Unfinished(c)
    BY DEF Unfinished
  <1>2. conn' = [conn EXCEPT ![c] = Forgotten(conn[c], s)]
    BY <1>0, <1>1 DEF Forget, Forgotten
  <1>3. conn \in [Conns -> Connections] /\ IsConnection(conn[c], machine.boot, GuardedBoots)
        /\ conn[c].client # "none"
    BY <1>0 DEF TableOK, IsConnection
  <1>4. PICK r : /\ r = Forgotten(conn[c], s) /\ IsConnection(r, machine.boot, GuardedBoots)
                 /\ r.client = conn[c].client /\ ~r.live /\ ~r.open
    BY <1>3, ForgottenConnection
  <1>5. TableOK'
    BY <1>0, <1>2, <1>4, ChangedTable, SameMachine
  <1>6. \A d \in Conns : conn'[d] = IF d = c THEN r ELSE conn[d]
    BY <1>2, <1>3, <1>4
  <1>7. Fading
    BY <1>4, <1>6 DEF Fading
  <1>8. /\ MachineOK' /\ ServiceOK' /\ ReportComing' /\ EndsOK' /\ UsedOK' /\ ExamOK'
    BY <1>0, <1>7, FadingKeeps, SameClientsKeep
  <1>9. SeatOK' /\ Seat!Next
    <2>1. CASE owner = c
      <3>1. /\ owner' = NoConn
            /\ record' = demote_uwf_verification(set_status(record, "offline"))
        BY <2>1 DEF on_disconnected
      <3>2. /\ record' \in ClientRecord /\ record'.status = "offline"
            /\ ~proves_current_protection(record')
        <4>1. record \in ClientRecord
          BY DEF SeatOK
        <4>2. PICK q \in ClientRecord : q = set_status(record, "offline") /\ q.status = "offline"
          BY <4>1, DemotedRecord
        <4> QED
          BY <3>1, <4>2, DemotedRecord
      <3>3. SeatOK'
        BY <1>0, <3>1, <3>2 DEF SeatOK
      <3>4. Seat!Leave
        <4>1. /\ {d \in Conns : conn'[d].live} \subseteq {d \in Conns : conn[d].live}
              /\ owner \notin {d \in Conns : conn'[d].live}
          BY <1>4, <1>6, <2>1
        <4>2. owner # NoConn
          BY <2>1 DEF Conns, NoConn
        <4> QED
          BY <3>1, <3>2, <4>1, <4>2 DEF Seat!Leave
      <3> QED
        BY <3>3, <3>4 DEF Seat!Next
    <2>2. CASE owner # c
      <3>1. UNCHANGED <<owner, record>>
        BY <2>2 DEF on_disconnected
      <3>2. owner # NoConn => conn'[owner] = conn[owner]
        BY <1>6, <2>2 DEF SeatOK
      <3> QED
        BY <1>0, <3>1, <3>2, SeatStays, SameMachine DEF SeatOK, Seat!Next
    <2> QED
      BY <2>1, <2>2
  <1> QED
    BY <1>5, <1>8, <1>9

\* The server restarts.
LEMMA RestartServerStep ==
  ASSUME ClassroomIInv, RestartServer
  PROVE  ClassroomIInv' /\ Seat!Next
  <1> USE DEF ClassroomIInv
  <1>0. /\ conn' = [c \in Conns |-> IF conn[c].stage = "none" THEN conn[c]
                                    ELSE Forget(conn, c, "failed")[c]]
        /\ owner' = NoConn /\ record' = NoRecord /\ exam' = NoExam /\ starting' = NotStarting
        /\ used' = [Fault EXCEPT !.base = used.actions]
        /\ UNCHANGED <<machine, service, carrier>>
    BY DEF RestartServer
  <1>1. conn \in [Conns -> Connections]
    BY DEF TableOK
  <1>2. \A d \in Conns : conn'[d] = IF conn[d].stage = "none" THEN conn[d]
                                    ELSE Forgotten(conn[d], "failed")
    BY <1>0, <1>1 DEF Forget, Forgotten
  <1>3. ASSUME NEW d \in Conns
        PROVE  /\ IsConnection(conn'[d], machine.boot, GuardedBoots)
               /\ (conn'[d].client = conn[d].client /\ ~conn'[d].open) \/ conn'[d] = conn[d]
               /\ ~conn'[d].live
    <2>1. IsConnection(conn[d], machine.boot, GuardedBoots)
      BY DEF TableOK
    <2>2. CASE conn[d].stage = "none"
      <3>1. conn'[d] = conn[d]
        BY <1>2, <2>2
      <3>2. ~conn[d].live
        BY <2>1, <2>2 DEF IsConnection
      <3> QED
        BY <2>1, <3>1, <3>2
    <2>3. CASE conn[d].stage # "none"
      <3>1. conn[d].client # "none"
        BY <2>1, <2>3 DEF IsConnection
      <3>2. conn'[d] = Forgotten(conn[d], "failed")
        BY <1>2, <2>3
      <3> QED
        BY <2>1, <3>1, <3>2, ForgottenConnection
    <2> QED
      BY <2>2, <2>3
  <1>4. TableOK'
    <2>1. conn' \in [Conns -> Connections]
      <3>1. \A d \in Conns : conn'[d] \in Connections
        BY <1>3 DEF IsConnection
      <3>2. conn' = [d \in Conns |-> conn'[d]]
        BY <1>0
      <3> QED
        BY <3>1, <3>2
    <2> QED
      BY <1>0, <1>3, <2>1, SameMachine DEF TableOK
  <1>5. Fading
    BY <1>3 DEF Fading
  <1>6. /\ SameClients /\ MachineOK' /\ ServiceOK' /\ ReportComing'
    BY <1>0, <1>5, FadingKeeps
  <1>7. EndsOK'
    BY <1>0, <1>6 DEF EndsOK, SameClients
  <1>8. UsedOK'
    <2>1. used.faults + 1 \in Nat /\ used.actions \in Nat
      BY DEF UsedOK
    <2>2. /\ used' \in [connections : Nat, commands : Nat, faults : Nat, actions : Nat, base : Nat]
          /\ used'.connections = used.connections /\ used'.base = used'.actions
          /\ used'.actions \in Nat
      BY <1>0, <2>1 DEF UsedOK, Fault
    <2> QED
      BY <1>6, <2>2 DEF UsedOK, SameClients
  <1>9. ExamOK'
    BY <1>0, BoundsAssumption DEF ExamOK, NotStarting, NoExam
  <1>10. /\ record' \in ClientRecord /\ record'.status = "offline"
         /\ ~proves_current_protection(record')
    BY <1>0 DEF NoRecord, ClientRecord, UwfFleetState, Phases, Statuses, NoBoot,
                proves_current_protection
  <1>11. SeatOK'
    BY <1>0, <1>10 DEF SeatOK
  <1>12. Seat!Next
    <2>1. {d \in Conns : conn'[d].live} = {}
      BY <1>3
    <2>2. CASE owner # NoConn
      <3>1. Seat!Leave
        BY <1>0, <1>10, <2>1, <2>2 DEF Seat!Leave
      <3> QED
        BY <3>1 DEF Seat!Next
    <2>3. CASE owner = NoConn
      <3>1. record.status = "offline" /\ ~proves_current_protection(record)
        BY <2>3 DEF SeatOK
      <3>2. Seat!Transport
        BY <1>0, <1>10, <2>1, <2>3, <3>1 DEF Seat!Transport
      <3> QED
        BY <3>2 DEF Seat!Next
    <2> QED
      BY <2>2, <2>3
  <1> QED
    BY <1>4, <1>6, <1>7, <1>8, <1>9, <1>11, <1>12

\* What a report does to a record: only a fleet status that proves protection
\* can leave a proof where there was none.
LEMMA ReportedRecord ==
  ASSUME record \in ClientRecord, record.status = "online", NEW m \in Reports
  PROVE  /\ Report(m) \in ClientRecord /\ Report(m).status = "online"
         /\ proves_current_protection(Report(m)) =>
               \/ /\ m.phase = "verified_protected" /\ m.proves
                  /\ Report(m).uwf.verifiedBoot = m.boot
               \/ /\ proves_current_protection(record)
                  /\ Report(m).uwf.verifiedBoot = record.uwf.verifiedBoot
  <1>0. m.type \in {"hello", "uwf_report", "uwf_fleet_status"}
    BY DEF Reports
  <1>1. CASE m.type = "hello"
    <2>1. Report(m) = touch(upsert(record, "online"))
      BY <1>1 DEF Report
    <2>2. /\ touch(upsert(record, "online")) \in ClientRecord
          /\ touch(upsert(record, "online")).status = "online"
          /\ touch(upsert(record, "online")).uwf = record.uwf
      BY DEF touch, upsert, ClientRecord, Statuses
    <2> QED
      BY <2>1, <2>2 DEF proves_current_protection
  <1>2. CASE m.type = "uwf_report"
    <2>1. Report(m) = set_uwf_report(record, m.outcome)
      BY <1>2 DEF Report
    <2>2. phase_for_configure_outcome(m.outcome) \in Phases
      BY DEF phase_for_configure_outcome, Phases
    <2>3. PICK ph \in Phases : ph = phase_for_configure_outcome(m.outcome)
      BY <2>2
    <2>4. record.uwf \in UwfFleetState
      BY DEF ClientRecord
    <2> DEFINE u == [record.uwf EXCEPT !.phase = ph,
                        !.restartExpected = @ \/ ph = "awaiting_restart",
                        !.configureBoot = IF ph = "awaiting_restart" /\ @ = NoBoot
                                          THEN record.uwf.observedBoot ELSE @,
                        !.verifiedBoot = NoBoot, !.proves = FALSE]
    <2>5. u \in UwfFleetState /\ u.proves = FALSE
      BY <2>4 DEF UwfFleetState, NoBoot
    <2>6. set_uwf_report(record, m.outcome) = [record EXCEPT !.uwf = u]
      BY <2>3 DEF set_uwf_report, ClientRecord, UwfFleetState
    <2> HIDE DEF u
    <2> QED
      BY <2>1, <2>5, <2>6 DEF proves_current_protection, ClientRecord
  <1>3. CASE m.type = "uwf_fleet_status"
    <2>1. Report(m) = set_uwf_fleet_status(record, m)
      BY <1>3 DEF Report
    <2>2. /\ record.uwf \in UwfFleetState /\ m.operation \in Nat /\ m.boot \in Nat
          /\ m.proves \in BOOLEAN /\ m.phase \in Phases
      BY DEF ClientRecord, Reports
    <2>3. CASE Report(m) = record
      BY <2>3
    <2>4. CASE Report(m) # record
      <3> DEFINE waits == m.phase \in {"awaiting_restart", "restarting"}
                 ex == record.uwf.restartExpected \/ waits
                 pin == IF waits /\ record.uwf.configureBoot = NoBoot
                        THEN m.boot ELSE record.uwf.configureBoot
                 ph == IF m.phase # "verified_protected" THEN m.phase
                       ELSE IF ~m.proves THEN "failed"
                       ELSE IF ex /\ pin # NoBoot /\ m.boot = pin THEN "verifying"
                       ELSE "verified_protected"
                 op == IF m.operation # 0 THEN m.operation ELSE record.uwf.operation
      <3>a. pin \in Nat /\ ex \in BOOLEAN /\ op \in Nat
        BY <2>2 DEF UwfFleetState
      <3>b. ph \in Phases
        BY <2>2 DEF Phases
      <3>c. ph = "verified_protected" => m.phase = "verified_protected" /\ m.proves
        OBVIOUS
      <3>1. Report(m) = [record EXCEPT !.uwf =
                   [phase |-> ph, operation |-> op, restartExpected |-> ex,
                    configureBoot |-> pin, observedBoot |-> m.boot,
                    verifiedBoot |-> IF ph = "verified_protected" THEN m.boot ELSE NoBoot,
                    proves |-> m.proves]]
        BY <2>1, <2>4, Zenon DEF set_uwf_fleet_status
      <3> HIDE DEF ph, op, ex, pin
      <3>2. PICK vb \in Nat : vb = IF ph = "verified_protected" THEN m.boot ELSE NoBoot
        BY <2>2 DEF NoBoot
      <3> DEFINE u == [phase |-> ph, operation |-> op, restartExpected |-> ex,
                      configureBoot |-> pin, observedBoot |-> m.boot,
                      verifiedBoot |-> vb, proves |-> m.proves]
      <3>3. u \in UwfFleetState /\ u.phase = ph /\ u.verifiedBoot = vb
        BY <2>2, <3>a, <3>b DEF UwfFleetState
      <3>4. Report(m) = [record EXCEPT !.uwf = u]
        BY <3>1, <3>2
      <3> HIDE DEF u
      <3>5. /\ Report(m) \in ClientRecord /\ Report(m).status = "online" /\ Report(m).uwf = u
        BY <3>3, <3>4 DEF ClientRecord
      <3> QED
        BY <3>c, <3>2, <3>3, <3>5 DEF proves_current_protection
    <2> QED
      BY <2>3, <2>4
  <1> QED
    BY <1>0, <1>1, <1>2, <1>3

\* process_authenticated(): the server takes the next message of a connection.
LEMMA ProcessStep ==
  ASSUME ClassroomIInv, NEW c \in Conns, process_authenticated(c)
  PROVE  ClassroomIInv' /\ Seat!Next
  <1> USE DEF ClassroomIInv
  <1>0. /\ conn[c].live /\ conn[c].up # <<>>
        /\ UNCHANGED <<machine, service, owner, exam, starting, used>>
    BY DEF process_authenticated
  <1>1. /\ conn \in [Conns -> Connections] /\ IsConnection(conn[c], machine.boot, GuardedBoots)
        /\ conn[c].client # "none" /\ conn[c].up \in Seq(Reports)
    BY <1>0, ConnectionFields DEF TableOK, IsConnection
  <1>2. PICK m \in Reports : m = Head(conn[c].up)
    BY <1>0, <1>1
  <1>3. m.boot = conn[c].boot /\ (m.proves => conn[c].boot \in GuardedBoots)
    <2>1. 1 \in 1..Len(conn[c].up) /\ m = conn[c].up[1]
      BY <1>0, <1>1, <1>2
    <2> QED
      BY <1>1, <2>1 DEF IsConnection, Truthful
  <1> DEFINE x == [conn[c] EXCEPT !.up = Tail(@)]
  <1>4. /\ IsConnection(x, machine.boot, GuardedBoots)
        /\ x.client = conn[c].client /\ x.boot = conn[c].boot /\ x.live = conn[c].live
        /\ x.open = conn[c].open /\ x.stage = conn[c].stage /\ x.reported = conn[c].reported
        /\ x.up = Tail(conn[c].up)
    <2>1. conn[c] \in Connections
      BY <1>1
    <2>2. IsConnection(x, machine.boot, GuardedBoots)
      BY <1>0, <1>1, TakenConnection
    <2> QED
      BY <2>1, <2>2 DEF Connections
  <1>5. PICK y : /\ conn' = [conn EXCEPT ![c] = y]
                 /\ IsConnection(y, machine.boot, GuardedBoots)
                 /\ y.client = x.client /\ y.boot = x.boot /\ y.live = x.live
                 /\ y.stage = x.stage /\ y.up = x.up
                 /\ y.open => x.open
                 /\ m.type \in UwfReports => y.reported \/ ~y.open
                 /\ x.reported => y.reported
                 /\ ~is_current_state(c) => UNCHANGED <<record, carrier>>
                 /\ is_current_state(c) =>
                       /\ record' = Report(m)
                       /\ carrier' = IF m.phase = "verified_protected" THEN c ELSE carrier
    <2>1. CASE is_current_state(c)
      <3> DEFINE uwf == m.type \in UwfReports
                 y == [x EXCEPT !.reported = @ \/ uwf]
      <3>1. /\ conn' = [[conn EXCEPT ![c].up = Tail(@)] EXCEPT ![c].reported = @ \/ uwf]
            /\ record' = Report(m)
            /\ carrier' = IF m.phase = "verified_protected" THEN c ELSE carrier
        BY <1>2, <2>1 DEF process_authenticated
      <3>2. conn' = [conn EXCEPT ![c] = y]
        BY <1>1, <3>1
      <3> HIDE DEF x
      <3>3. x \in Connections
        BY <1>4 DEF IsConnection
      <3>4. y \in Connections
        BY <3>3 DEF Connections
      <3>5. /\ y.client = x.client /\ y.boot = x.boot /\ y.live = x.live /\ y.expect = x.expect
            /\ y.stage = x.stage /\ y.up = x.up /\ y.open = x.open /\ y.down = x.down
            /\ y.next = x.next /\ y.reported = (x.reported \/ uwf)
        BY <3>3 DEF Connections
      <3> HIDE DEF y
      <3>6. IsConnection(y, machine.boot, GuardedBoots)
        BY <1>4, <3>4, <3>5 DEF IsConnection, Numbered
      <3> QED
        BY <2>1, <3>1, <3>2, <3>5, <3>6
    <2>2. CASE ~is_current_state(c)
      <3>1. /\ \/ conn' = [conn EXCEPT ![c].up = Tail(@)] /\ m.type \notin UwfReports
               \/ /\ m.type \in UwfReports
                  /\ conn' = [[conn EXCEPT ![c].up = Tail(@)] EXCEPT ![c].open = FALSE]
            /\ UNCHANGED <<record, carrier>>
        BY <1>2, <2>2 DEF process_authenticated, close_connection, Conns, NoConn
      <3>2. CASE conn' = [conn EXCEPT ![c].up = Tail(@)] /\ m.type \notin UwfReports
        <4>1. conn' = [conn EXCEPT ![c] = x]
          BY <3>2
        <4> QED
          BY <1>4, <2>2, <3>1, <3>2, <4>1
      <3>3. CASE /\ m.type \in UwfReports
                 /\ conn' = [[conn EXCEPT ![c].up = Tail(@)] EXCEPT ![c].open = FALSE]
        <4> DEFINE y == [x EXCEPT !.open = FALSE]
        <4>1. conn' = [conn EXCEPT ![c] = y]
          BY <1>1, <3>3
        <4> HIDE DEF x
        <4>2. IsConnection(y, machine.boot, GuardedBoots)
          BY <1>4, ClosedConnection
        <4>3. x \in Connections
          BY <1>4 DEF IsConnection
        <4>4. /\ y.client = x.client /\ y.boot = x.boot /\ y.live = x.live
              /\ y.stage = x.stage /\ y.up = x.up /\ ~y.open /\ y.reported = x.reported
          BY <4>3 DEF Connections
        <4> HIDE DEF y
        <4> QED
          BY <2>2, <3>1, <4>1, <4>2, <4>4
      <3> QED
        BY <3>1, <3>2, <3>3
    <2> QED
      BY <2>1, <2>2
  <1> HIDE DEF x
  <1>6. \A d \in Conns : conn'[d] = IF d = c THEN y ELSE conn[d]
    BY <1>1, <1>5
  <1>7. TableOK'
    BY <1>0, <1>5, ChangedTable, SameMachine
  <1>8. SameClients
    BY <1>4, <1>5, <1>6 DEF SameClients
  <1>9. MachineOK' /\ ServiceOK' /\ EndsOK' /\ UsedOK' /\ ExamOK'
    BY <1>0, <1>8, SameClientsKeep, SameMachine, SameService
  <1>10. ReportComing'
    <2>1. CASE service.link # c
      <3>1. service.link # NoConn => service.link \in Conns /\ conn'[service.link] = conn[service.link]
        BY <1>6, <2>1 DEF ServiceOK, ServiceRecords
      <3> QED
        BY <1>0, <3>1 DEF ReportComing
    <2>2. CASE service.link = c
      <3>1. conn'[c] = y
        BY <1>6
      <3>2. ASSUME NEW i \in 1..Len(conn[c].up), conn[c].up[i].type \in UwfReports,
                   m.type \notin UwfReports
            PROVE  \E j \in 1..Len(y.up) : y.up[j].type \in UwfReports
        <4>1. i # 1
          BY <1>0, <1>1, <1>2, <3>2
        <4>2. PICK u : u = conn[c].up /\ u \in Seq(Reports) /\ u # <<>> /\ y.up = Tail(u)
          BY <1>0, <1>1, <1>4, <1>5
        <4>3. i - 1 \in 1..Len(Tail(u)) /\ Tail(u)[i - 1] = u[i]
          BY <4>1, <4>2
        <4> QED
          BY <3>2, <4>2, <4>3
      <3>3. \/ ~conn[c].open \/ conn[c].reported
            \/ service.worker # "idle" \/ service.out # <<>> \/ service.dropped
            \/ \E i \in 1..Len(conn[c].up) : conn[c].up[i].type \in UwfReports
        BY <2>2 DEF ReportComing, Conns, NoConn
      <3>4. \/ ~y.open \/ y.reported
            \/ service.worker # "idle" \/ service.out # <<>> \/ service.dropped
            \/ \E i \in 1..Len(y.up) : y.up[i].type \in UwfReports
        BY <1>4, <1>5, <3>2, <3>3
      <3> QED
        BY <1>0, <2>2, <3>1, <3>4 DEF ReportComing
    <2> QED
      BY <2>1, <2>2
  <1>11. SeatOK' /\ Seat!Next
    <2>0. {d \in Conns : conn'[d].live} = {d \in Conns : conn[d].live}
      BY <1>4, <1>5, <1>6
    <2>1. CASE ~is_current_state(c)
      <3>1. owner # NoConn => /\ conn'[owner].live /\ conn'[owner].stage = "authenticated"
                              /\ conn'[owner].boot = conn[owner].boot
        BY <1>4, <1>5, <1>6 DEF SeatOK
      <3> QED
        BY <1>0, <1>5, <2>1, <3>1, SeatStays, SameMachine DEF Seat!Next
    <2>2. CASE is_current_state(c)
      <3>1. /\ owner = c /\ owner # NoConn /\ record \in ClientRecord /\ record.status = "online"
        BY <2>2 DEF is_current_state, SeatOK, Conns, NoConn
      <3>2. /\ record' = Report(m)
            /\ carrier' = IF m.phase = "verified_protected" THEN c ELSE carrier
        BY <1>5, <2>2
      <3>3. /\ record' \in ClientRecord /\ record'.status = "online"
            /\ proves_current_protection(record') =>
                 /\ carrier' = c
                 /\ record'.uwf.verifiedBoot = conn[c].boot
                 /\ conn[c].boot \in GuardedBoots
        <4>1. /\ Report(m) \in ClientRecord /\ Report(m).status = "online"
              /\ proves_current_protection(Report(m)) =>
                    \/ /\ m.phase = "verified_protected" /\ m.proves
                       /\ Report(m).uwf.verifiedBoot = m.boot
                    \/ /\ proves_current_protection(record)
                       /\ Report(m).uwf.verifiedBoot = record.uwf.verifiedBoot
          BY <3>1, ReportedRecord
        <4> QED
          BY <1>3, <3>1, <3>2, <4>1 DEF SeatOK
      <3>4. carrier' \in Conns \cup {NoConn}
        BY <3>2 DEF SeatOK
      <3>5. conn'[c].live /\ conn'[c].stage = "authenticated" /\ conn'[c].boot = conn[c].boot
        BY <1>4, <1>5, <1>6, <2>2 DEF is_current_state
      <3>6. SeatOK'
        BY <1>0, <3>1, <3>3, <3>4, <3>5, SameMachine DEF SeatOK
      <3>7. CASE proves_current_protection(record')
        <4>1. Seat!Prove
          BY <1>0, <2>0, <3>1, <3>3, <3>7 DEF Seat!Prove
        <4> QED
          BY <3>6, <4>1 DEF Seat!Next
      <3>8. CASE ~proves_current_protection(record')
        <4>1. Seat!Withdraw
          BY <1>0, <2>0, <3>1, <3>3, <3>8 DEF Seat!Withdraw
        <4> QED
          BY <3>6, <4>1 DEF Seat!Next
      <3> QED
        BY <3>7, <3>8
    <2> QED
      BY <2>1, <2>2
  <1> QED
    BY <1>7, <1>9, <1>10, <1>11

-----------------------------------------------------------------------------
(* The steps of the service.                                                *)

\* The fields of the service's memory have their types.
LEMMA ServiceFields ==
  ASSUME NEW s \in ServiceRecords
  PROVE  /\ s.out \in Seq(Reports) /\ s.link \in Conns \cup {NoConn} /\ s.race \in SUBSET Conns
         /\ s.winner \in Conns \cup {NoConn} /\ s.phase \in Phases /\ s.op \in Nat
         /\ s.action \in Nat /\ s.exam \in BOOLEAN
  BY DEF ServiceRecords

\* queue_outbound_message() keeps the newest message, whatever it drops.
LEMMA QueuedOut ==
  ASSUME NEW q \in Seq(Reports), NEW b, NEW G, OutOK(q, b, G),
         NEW m \in Reports, m.type \in UwfReports, m.boot = b, m.proves => b \in G
  PROVE  LET r == Append(IF Len(q) < MaxOutbound THEN q ELSE Tail(q), m)
         IN  r \in Seq(Reports) /\ r # <<>> /\ OutOK(r, b, G)
  <1>0. MaxOutbound \in Nat \ {0} /\ Len(q) \in Nat
    BY BoundsAssumption
  <1>1. PICK k \in Seq(Reports) : /\ k = IF Len(q) < MaxOutbound THEN q ELSE Tail(q)
                                  /\ \A i \in 1..Len(k) : \E j \in 1..Len(q) : k[i] = q[j]
    <2>1. CASE Len(q) < MaxOutbound
      BY <2>1
    <2>2. CASE ~(Len(q) < MaxOutbound)
      <3>1. q # <<>>
        BY <1>0, <2>2
      <3>2. /\ Tail(q) \in Seq(Reports) /\ Len(Tail(q)) = Len(q) - 1
            /\ \A i \in 1..Len(Tail(q)) : i + 1 \in 1..Len(q) /\ Tail(q)[i] = q[i + 1]
        BY <1>0, <3>1
      <3>3. \A i \in 1..Len(Tail(q)) : \E j \in 1..Len(q) : Tail(q)[i] = q[j]
        BY <3>2
      <3> QED
        BY <2>2, <3>2, <3>3
    <2> QED
      BY <2>1, <2>2
  <1>2. /\ Append(k, m) \in Seq(Reports) /\ Append(k, m) # <<>>
        /\ \A i \in 1..Len(Append(k, m)) : \/ i \in 1..Len(k) /\ Append(k, m)[i] = k[i]
                                           \/ Append(k, m)[i] = m
    <2>1. /\ Len(Append(k, m)) = Len(k) + 1 /\ Len(k) \in Nat
          /\ Append(k, m)[Len(k) + 1] = m
          /\ \A i \in 1..Len(k) : Append(k, m)[i] = k[i]
      OBVIOUS
    <2>2. Append(k, m) \in Seq(Reports) /\ Append(k, m) # <<>>
      BY <2>1
    <2>3. \A i \in 1..Len(k) + 1 : i \in 1..Len(k) \/ i = Len(k) + 1
      BY <2>1
    <2> QED
      BY <2>1, <2>2, <2>3
  <1>3. PICK r : r = Append(k, m)
    OBVIOUS
  <1>4. OutOK(r, b, G)
    BY <1>1, <1>2, <1>3 DEF OutOK, Truthful
  <1> QED
    BY <1>1, <1>2, <1>3, <1>4

\* A message names the running boot and proves nothing by itself.
LEMMA MessageType ==
  ASSUME MachineOK, NEW type \in {"hello", "uwf_report", "uwf_fleet_status"}
  PROVE  /\ Message(type) \in Reports /\ Message(type).type = type
         /\ Message(type).boot = machine.boot /\ Message(type).proves = FALSE
  <1>1. machine.boot \in 1..MaxBoot
    BY DEF MachineOK
  <1> QED
    BY <1>1 DEF Message, Reports, Phases, Outcomes

\* queue_fleet_status() and queue_uwf_report(): a report of the running boot is
\* queued and nothing else of the service changes but its phase.
LEMMA QueuedReport ==
  ASSUME MachineOK, NEW s \in ServiceRecords, OutOK(s.out, machine.boot, GuardedBoots),
         NEW t, \/ \E ph \in Phases, proves \in BOOLEAN :
                      (proves => machine.guarded) /\ t = queue_fleet_status(s, ph, proves)
                \/ \E outcome \in Outcomes : t = queue_uwf_report(s, outcome)
  PROVE  /\ t \in ServiceRecords /\ t.out # <<>>
         /\ OutOK(t.out, machine.boot, GuardedBoots)
         /\ t.link = s.link /\ t.race = s.race /\ t.winner = s.winner /\ t.exam = s.exam
         /\ t.worker = s.worker
  <1>0. machine.boot \in 1..MaxBoot /\ (machine.guarded => machine.boot \in GuardedBoots)
    BY DEF MachineOK, GuardedBoots
  <1>1. PICK ph \in Phases, m \in Reports :
            /\ m.type \in UwfReports /\ m.boot = machine.boot
            /\ m.proves => machine.boot \in GuardedBoots
            /\ t = queue_outbound_message([s EXCEPT !.phase = ph], m)
    <2>1. ASSUME NEW p \in Phases, NEW proves \in BOOLEAN, proves => machine.guarded,
                 t = queue_fleet_status(s, p, proves)
          PROVE  \E ph \in Phases, m \in Reports :
                    /\ m.type \in UwfReports /\ m.boot = machine.boot
                    /\ m.proves => machine.boot \in GuardedBoots
                    /\ t = queue_outbound_message([s EXCEPT !.phase = ph], m)
      <3>1. PICK ph \in Phases : ph = IF p = "verified_protected" /\ ~proves THEN "failed" ELSE p
        BY DEF Phases
      <3> DEFINE m == [Message("uwf_fleet_status") EXCEPT
                         !.operation = s.op, !.action = s.action, !.phase = ph, !.proves = proves]
      <3>2. t = queue_outbound_message([s EXCEPT !.phase = ph], m)
        BY <2>1, <3>1 DEF queue_fleet_status
      <3>3. s.op \in Nat /\ s.action \in Nat
        BY ServiceFields
      <3>4. m \in Reports /\ m.type \in UwfReports /\ m.boot = machine.boot /\ m.proves = proves
        <4>0. Message("uwf_fleet_status") \in Reports
          BY MessageType, Zenon
        <4>1. PICK x \in Reports : x = Message("uwf_fleet_status")
          BY <4>0, Zenon
        <4>2. x.type = "uwf_fleet_status" /\ x.boot = machine.boot
          BY <4>1 DEF Message
        <4>3. m = [x EXCEPT !.operation = s.op, !.action = s.action, !.phase = ph, !.proves = proves]
          BY <4>1
        <4> HIDE DEF m
        <4>4. m \in Reports
          BY <3>3, <4>3 DEF Reports
        <4>5. m.type = x.type /\ m.boot = x.boot /\ m.proves = proves
          BY <4>3 DEF Reports
        <4> QED
          BY <4>2, <4>4, <4>5 DEF UwfReports
      <3> HIDE DEF m
      <3> QED
        BY <1>0, <2>1, <3>2, <3>4
    <2>2. ASSUME NEW outcome \in Outcomes, t = queue_uwf_report(s, outcome)
          PROVE  \E ph \in Phases, m \in Reports :
                    /\ m.type \in UwfReports /\ m.boot = machine.boot
                    /\ m.proves => machine.boot \in GuardedBoots
                    /\ t = queue_outbound_message([s EXCEPT !.phase = ph], m)
      <3> DEFINE m == [Message("uwf_report") EXCEPT !.outcome = outcome]
      <3>1. s.phase \in Phases /\ s = [s EXCEPT !.phase = s.phase]
        BY DEF ServiceRecords
      <3>2. t = queue_outbound_message(s, m)
        BY <2>2 DEF queue_uwf_report
      <3>3. m \in Reports /\ m.type \in UwfReports /\ m.boot = machine.boot /\ m.proves = FALSE
        BY <1>0 DEF Message, Reports, UwfReports, Phases, Outcomes
      <3> HIDE DEF m
      <3>4. t = queue_outbound_message([s EXCEPT !.phase = s.phase], m)
        BY <3>1, <3>2
      <3> QED
        BY <3>1, <3>3, <3>4
    <2> QED
      BY <2>1, <2>2
  <1>2. PICK z \in ServiceRecords : z = [s EXCEPT !.phase = ph]
    BY DEF ServiceRecords
  <1>3. /\ z.link = s.link /\ z.race = s.race /\ z.winner = s.winner /\ z.exam = s.exam
        /\ z.worker = s.worker /\ z.out = s.out /\ s.out \in Seq(Reports)
    BY <1>2 DEF ServiceRecords
  <1>4. PICK r \in Seq(Reports) :
            /\ r = Append(IF Len(s.out) < MaxOutbound THEN s.out ELSE Tail(s.out), m)
            /\ r # <<>> /\ OutOK(r, machine.boot, GuardedBoots)
    BY <1>1, <1>3, QueuedOut
  <1>5. t = [z EXCEPT !.out = r, !.dropped = FALSE]
    BY <1>1, <1>2, <1>3, <1>4 DEF queue_outbound_message
  <1> QED
    BY <1>3, <1>4, <1>5 DEF ServiceRecords

\* Arming or disarming the filter for the next session changes nothing now.
LEMMA ArmedMachine ==
  ASSUME MachineOK, NEW a \in BOOLEAN, machine' = [machine EXCEPT !.armed = a]
  PROVE  /\ MachineOK' /\ GuardedBoots' = GuardedBoots /\ machine'.boot = machine.boot
         /\ machine'.guarded = machine.guarded
  <1>1. /\ machine' \in [boot : 1..MaxBoot, guarded : BOOLEAN, armed : BOOLEAN,
                         guardedBoots : SUBSET (1..MaxBoot), supported : BOOLEAN]
        /\ machine'.boot = machine.boot /\ machine'.guarded = machine.guarded
        /\ machine'.guardedBoots = machine.guardedBoots
    BY DEF MachineOK
  <1> QED
    BY <1>1 DEF MachineOK, GuardedBoots

\* A step of the service that touches neither its links nor a connection.
LEMMA ServiceOnlyStep ==
  ASSUME ClassroomIInv, UNCHANGED <<conn, owner, record, exam, starting, used, carrier>>,
         MachineOK', GuardedBoots' = GuardedBoots, machine'.boot = machine.boot,
         machine'.guarded = machine.guarded,
         service' \in ServiceRecords, OutOK(service'.out, machine.boot, GuardedBoots),
         SameLinks, service'.exam = service.exam,
         ReportKept(service, service')
  PROVE  ClassroomIInv' /\ Seat!Next
  <1> USE DEF ClassroomIInv
  <1>1. Quiet
    BY DEF Quiet
  <1>2. TableOK'
    BY DEF TableOK
  <1>3. ServiceOK'
    BY DEF ServiceOK
  <1>4. EndsOK' /\ ReportComing'
    BY <1>1, QuietEnds, QuietReport
  <1>5. ExamOK'
    BY DEF ExamOK
  <1>6. UsedOK'
    BY DEF UsedOK
  <1>7. SeatOK' /\ Seat!Transport
    BY SeatStays DEF SeatOK
  <1> QED
    BY <1>2, <1>3, <1>4, <1>5, <1>6, <1>7 DEF Seat!Next

\* A worker of the service queues its report and goes on or ends.
LEMMA WorkerQueues ==
  ASSUME ClassroomIInv, UNCHANGED <<conn, owner, record, exam, starting, used, carrier>>,
         MachineOK', GuardedBoots' = GuardedBoots, machine'.boot = machine.boot,
         machine'.guarded = machine.guarded,
         NEW t, \/ \E ph \in Phases, proves \in BOOLEAN :
                      (proves => machine.guarded) /\ t = queue_fleet_status(service, ph, proves)
                \/ \E outcome \in Outcomes : t = queue_uwf_report(service, outcome),
         NEW w \in {"idle", "configure"}, service' = [t EXCEPT !.worker = w]
  PROVE  ClassroomIInv' /\ Seat!Next
  <1>1. /\ t \in ServiceRecords /\ t.out # <<>>
        /\ OutOK(t.out, machine.boot, GuardedBoots)
        /\ t.link = service.link /\ t.race = service.race /\ t.winner = service.winner
        /\ t.exam = service.exam
    BY QueuedReport DEF ClassroomIInv, ServiceOK
  <1>2. /\ service' \in ServiceRecords /\ service'.out = t.out
        /\ service'.link = t.link /\ service'.race = t.race /\ service'.winner = t.winner
        /\ service'.exam = t.exam
    BY <1>1 DEF ServiceRecords
  <1>3. SameLinks
    BY <1>1, <1>2 DEF SameLinks
  <1> QED
    BY <1>1, <1>2, <1>3, ServiceOnlyStep DEF ReportKept

\* What a probe can say.
LEMMA ProbeTrue ==
  ASSUME MachineOK, NEW proves \in probe_uwf_state
  PROVE  proves \in BOOLEAN /\ (proves => machine.guarded)
  BY DEF probe_uwf_state, probe_uwf_protection, MachineOK

\* The workers on the write filter, and maintenance on the machine itself.
LEMMA WorkersStep ==
  ASSUME ClassroomIInv, WorkerStep \/ Disarm
  PROVE  ClassroomIInv' /\ Seat!Next
  <1>0. MachineOK /\ ServiceOK
    BY DEF ClassroomIInv
  <1>s. service.phase \in Phases
    BY <1>0, ServiceFields DEF ServiceOK
  <1>1. CASE report_current_fleet_state
    <2>1. PICK proves \in probe_uwf_state, unsupported \in UnsupportedProbe : TRUE
          /\ LET phase == IF proves THEN "verified_protected"
                          ELSE IF unsupported THEN "unsupported"
                          ELSE IF service.phase = "verified_protected" THEN "verifying"
                          ELSE service.phase
             IN  service' = [queue_fleet_status(service, phase, proves) EXCEPT !.worker = "idle"]
      BY <1>1 DEF report_current_fleet_state
    <2> DEFINE ph == IF proves THEN "verified_protected"
                     ELSE IF unsupported THEN "unsupported"
                     ELSE IF service.phase = "verified_protected" THEN "verifying"
                     ELSE service.phase
               t == queue_fleet_status(service, ph, proves)
    <2>2. ph \in Phases
      BY <1>s DEF Phases
    <2>3. service' = [t EXCEPT !.worker = "idle"]
      BY <2>1
    <2>4. UNCHANGED <<machine, conn, owner, record, exam, starting, used, carrier>>
      BY <1>1 DEF report_current_fleet_state
    <2> HIDE DEF ph
    <2>5. \E p \in Phases, v \in BOOLEAN :
             (v => machine.guarded) /\ t = queue_fleet_status(service, p, v)
      BY <1>0, <2>2, ProbeTrue, Zenon
    <2> HIDE DEF t
    <2> QED
      BY <1>0, <2>3, <2>4, <2>5, WorkerQueues, SameMachine
  <1>2. CASE FleetProbe
    <2>1. PICK p \in Phases, v \in BOOLEAN, w \in {"idle", "configure"} :
             /\ v => machine.guarded
             /\ service' = [queue_fleet_status(service, p, v) EXCEPT !.worker = w]
      <3>1. PICK proves \in probe_uwf_state, unsupported \in UnsupportedProbe :
               service' = IF proves
                          THEN [queue_fleet_status(service, "verified_protected", TRUE)
                                   EXCEPT !.worker = "idle"]
                          ELSE IF unsupported
                          THEN [queue_fleet_status(service, "unsupported", FALSE)
                                   EXCEPT !.worker = "idle"]
                          ELSE [queue_fleet_status(service, "configuring", FALSE)
                                   EXCEPT !.worker = "configure"]
        BY <1>2 DEF FleetProbe
      <3>2. proves \in BOOLEAN /\ (proves => machine.guarded)
        BY <1>0, ProbeTrue
      <3>3. {"verified_protected", "unsupported", "configuring"} \subseteq Phases
        BY DEF Phases
      <3> QED
        BY <3>1, <3>2, <3>3, Zenon
    <2>2. UNCHANGED <<machine, conn, owner, record, exam, starting, used, carrier>>
      BY <1>2 DEF FleetProbe
    <2>3. PICK t : t = queue_fleet_status(service, p, v)
      OBVIOUS
    <2> QED
      BY <1>0, <2>1, <2>2, <2>3, WorkerQueues, SameMachine
  <1>3. CASE FleetConfigure
    <2>1. PICK outcome \in configure_uwf :
             /\ machine' = [machine EXCEPT !.armed = @ \/ Armed(outcome)]
             /\ service' = [queue_fleet_status(service,
                                IF Armed(outcome) THEN "awaiting_restart"
                                ELSE IF outcome = "unsupported_edition" THEN "unsupported"
                                ELSE "failed",
                                machine.guarded) EXCEPT !.worker = "idle"]
      BY <1>3 DEF FleetConfigure
    <2>2. UNCHANGED <<conn, owner, record, exam, starting, used, carrier>>
      BY <1>3 DEF FleetConfigure
    <2> DEFINE ph == IF Armed(outcome) THEN "awaiting_restart"
                     ELSE IF outcome = "unsupported_edition" THEN "unsupported"
                     ELSE "failed"
               t == queue_fleet_status(service, ph, machine.guarded)
    <2>3. ph \in Phases /\ machine.guarded \in BOOLEAN
      BY <1>0 DEF Phases, MachineOK
    <2>4. service' = [t EXCEPT !.worker = "idle"]
      BY <2>1
    <2>5. PICK a \in BOOLEAN : machine' = [machine EXCEPT !.armed = a]
      BY <2>1
    <2> HIDE DEF ph
    <2>6. \E p \in Phases, v \in BOOLEAN :
             (v => machine.guarded) /\ t = queue_fleet_status(service, p, v)
      BY <2>3, Zenon
    <2> HIDE DEF t
    <2> QED
      BY <1>0, <2>2, <2>4, <2>5, <2>6, WorkerQueues, ArmedMachine
  <1>4. CASE LegacyConfigure
    <2>1. PICK outcome \in configure_uwf :
             /\ machine' = [machine EXCEPT !.armed = @ \/ Armed(outcome)]
             /\ service' = [queue_uwf_report(service, outcome) EXCEPT !.worker = "idle"]
      BY <1>4 DEF LegacyConfigure
    <2>2. UNCHANGED <<conn, owner, record, exam, starting, used, carrier>>
      BY <1>4 DEF LegacyConfigure
    <2>3. outcome \in Outcomes
      BY DEF configure_uwf, Outcomes
    <2>4. PICK a \in BOOLEAN : machine' = [machine EXCEPT !.armed = a]
      BY <2>1
    <2> QED
      BY <1>0, <2>1, <2>2, <2>3, <2>4, WorkerQueues, ArmedMachine
  <1>6. CASE report_current_fleet_state_fails
    <2>1. /\ service' = [service EXCEPT !.worker = "idle", !.dropped = service.out = <<>>]
          /\ used' = Fault
          /\ UNCHANGED <<machine, conn, owner, record, exam, starting, carrier>>
      BY <1>6 DEF report_current_fleet_state_fails
    <2>2. PICK d \in BOOLEAN : d = (service.out = <<>>)
      OBVIOUS
    <2>3. service' = [service EXCEPT !.worker = "idle", !.dropped = d]
      BY <2>1, <2>2
    <2>4. /\ service' \in ServiceRecords /\ service'.out = service.out /\ service'.dropped = d
          /\ service'.exam = service.exam /\ SameLinks
      BY <1>0, <2>3 DEF ServiceOK, ServiceRecords, SameLinks
    <2>5. ReportKept(service, service')
      BY <2>2, <2>4 DEF ReportKept
    <2>6. Quiet /\ (owner # NoConn => conn'[owner].stage = "authenticated")
      BY <2>1 DEF Quiet, ClassroomIInv, SeatOK
    <2>7. ServiceOK' /\ MachineOK' /\ TableOK' /\ GuardedBoots \subseteq GuardedBoots'
      BY <1>0, <2>1, <2>4, SameMachine DEF ClassroomIInv, ServiceOK, TableOK
    <2>8. UsedOK'
      <3>1. used.faults + 1 \in Nat
        BY DEF ClassroomIInv, UsedOK
      <3>2. /\ used' \in [connections : Nat, commands : Nat, faults : Nat, actions : Nat,
                           base : Nat]
            /\ used'.connections = used.connections /\ used'.base <= used'.actions
        BY <2>1, <3>1 DEF ClassroomIInv, UsedOK, Fault
      <3> QED
        BY <2>6, <3>2, QuietUsed DEF ClassroomIInv
    <2>9. EndsOK' /\ ReportComing' /\ ExamOK'
      BY <1>0, <2>1, <2>4, <2>5, <2>6, <2>7, QuietEnds, QuietReport, QuietExam DEF ClassroomIInv
    <2>10. SeatOK' /\ Seat!Transport
      BY <2>1, <2>6, <2>7, QuietSeat DEF ClassroomIInv
    <2> QED
      BY <2>7, <2>8, <2>9, <2>10 DEF ClassroomIInv, Seat!Next
  <1>7. CASE queue_other_message
    <2>1. /\ service' = [service EXCEPT !.out = Tail(@), !.dropped = Tail(service.out) = <<>>]
          /\ service.out # <<>> /\ used' = Fault
          /\ UNCHANGED <<machine, conn, owner, record, exam, starting, carrier>>
      BY <1>7 DEF queue_other_message
    <2>2. service.out \in Seq(Reports) /\ OutOK(service.out, machine.boot, GuardedBoots)
      BY <1>0, ServiceFields DEF ServiceOK
    <2>3. PICK q \in Seq(Reports) : q = Tail(service.out)
      <3>1. PICK o \in Seq(Reports) : o = service.out
        BY <2>2
      <3>2. Tail(o) \in Seq(Reports)
        BY <2>1, <3>1
      <3> QED
        BY <3>1, <3>2
    <2>4. PICK d \in BOOLEAN : d = (q = <<>>)
      OBVIOUS
    <2>5. service' = [service EXCEPT !.out = q, !.dropped = d]
      BY <2>1, <2>3, <2>4
    <2>6. /\ service' \in ServiceRecords /\ service'.out = q /\ service'.dropped = d
          /\ service'.exam = service.exam /\ SameLinks
      BY <1>0, <2>5 DEF ServiceOK, ServiceRecords, SameLinks
    <2>7. ReportKept(service, service')
      BY <2>4, <2>6 DEF ReportKept
    <2>8. \A i \in 1..Len(q) : \E j \in 1..Len(service.out) : q[i] = service.out[j]
      <3>1. /\ Len(q) = Len(service.out) - 1 /\ Len(service.out) \in Nat
            /\ \A i \in 1..Len(q) : i + 1 \in 1..Len(service.out) /\ q[i] = service.out[i + 1]
        BY <2>1, <2>2, <2>3
      <3> QED
        BY <3>1
    <2>9. OutOK(q, machine.boot, GuardedBoots)
      BY <2>2, <2>8 DEF OutOK, Truthful
    <2>10. Quiet /\ (owner # NoConn => conn'[owner].stage = "authenticated")
      BY <2>1 DEF Quiet, ClassroomIInv, SeatOK
    <2>11. ServiceOK' /\ MachineOK' /\ TableOK' /\ GuardedBoots \subseteq GuardedBoots'
      BY <1>0, <2>1, <2>6, <2>9, SameMachine DEF ClassroomIInv, ServiceOK, TableOK
    <2>12. UsedOK'
      <3>1. used.faults + 1 \in Nat
        BY DEF ClassroomIInv, UsedOK
      <3>2. /\ used' \in [connections : Nat, commands : Nat, faults : Nat, actions : Nat,
                           base : Nat]
            /\ used'.connections = used.connections /\ used'.base <= used'.actions
        BY <2>1, <3>1 DEF ClassroomIInv, UsedOK, Fault
      <3> QED
        BY <2>10, <3>2, QuietUsed DEF ClassroomIInv
    <2>13. EndsOK' /\ ReportComing' /\ ExamOK'
      BY <1>0, <2>1, <2>6, <2>7, <2>10, <2>11, QuietEnds, QuietReport, QuietExam DEF ClassroomIInv
    <2>14. SeatOK' /\ Seat!Transport
      BY <2>1, <2>10, <2>11, QuietSeat DEF ClassroomIInv
    <2> QED
      BY <2>11, <2>12, <2>13, <2>14 DEF ClassroomIInv, Seat!Next
  <1>5. CASE Disarm
    <2>1. /\ machine' = [machine EXCEPT !.armed = FALSE]
          /\ UNCHANGED <<service, conn, owner, record, exam, starting, used, carrier>>
      BY <1>5 DEF Disarm
    <2>2. /\ MachineOK' /\ GuardedBoots' = GuardedBoots /\ machine'.boot = machine.boot
          /\ machine'.guarded = machine.guarded
      BY <1>0, <2>1, ArmedMachine
    <2>3. SameLinks
      BY <2>1 DEF SameLinks
    <2> QED
      BY <1>0, <2>1, <2>2, <2>3, ServiceOnlyStep DEF ServiceOK, ReportKept
  <1> QED
    BY <1>1, <1>2, <1>3, <1>4, <1>5, <1>6, <1>7 DEF WorkerStep

-----------------------------------------------------------------------------
(* The client's steps.                                                      *)

\* A step of the client: the server's end of a connection stays as it is, and
\* an end that is dropped takes its boot with it only where the server has
\* forgotten the connection.
Kept ==
    \A d \in Conns : conn[d].client # "none" =>
        /\ conn'[d].client # "none"
        /\ conn[d].live => /\ conn'[d].live /\ conn'[d].stage = conn[d].stage
                           /\ conn'[d].boot = conn[d].boot
        /\ conn'[d].open => conn[d].open /\ conn'[d].boot = conn[d].boot

\* Whatever the client does, the seat and the exam context are the server's.
LEMMA ClientKeeps ==
  ASSUME ClassroomIInv, Kept, GuardedBoots \subseteq GuardedBoots',
         UNCHANGED <<owner, record, carrier, exam, starting>>
  PROVE  SeatOK' /\ ExamOK' /\ Seat!Next
  <1> USE DEF ClassroomIInv
  <1>1. owner # NoConn => /\ conn'[owner].live /\ conn'[owner].stage = "authenticated"
                          /\ conn'[owner].boot = conn[owner].boot
    BY DEF SeatOK, TableOK, IsConnection, Kept
  <1>2. SeatOK' /\ Seat!Transport
    BY <1>1, SeatStays
  <1>3. ExamOK'
    BY DEF ExamOK, Kept
  <1> QED
    BY <1>2, <1>3 DEF Seat!Next

\* Accept(): a connection never used before is dialled.
LEMMA AcceptEffect ==
  ASSUME ClassroomIInv, UNCHANGED machine, used.connections < MaxConnections,
         NEW c, c = used.connections + 1,
         conn' = Accept(conn, c), used' = [used EXCEPT !.connections = c]
  PROVE  /\ c \in Conns /\ TableOK' /\ UsedOK' /\ Kept
         /\ conn[c].client = "none" /\ conn'[c].client = "dialing"
         /\ \A d \in Conns : d # c => conn'[d] = conn[d]
  <1> USE DEF ClassroomIInv
  <1>1. /\ c \in Conns /\ c \in Nat /\ c > used.connections /\ used.connections \in Nat
    BY BoundsAssumption DEF UsedOK, Conns
  <1>2. conn[c].client = "none" /\ conn \in [Conns -> Connections]
    BY <1>1 DEF UsedOK, TableOK
  <1> DEFINE r == [NewConnection EXCEPT !.stage = "auth_hello", !.open = TRUE, !.live = TRUE,
                                        !.client = "dialing", !.boot = machine.boot]
  <1>3. machine.boot \in 0..MaxBoot
    BY DEF MachineOK
  <1>4. /\ r \in Connections /\ r.client = "dialing" /\ r.boot = machine.boot
        /\ r.up = <<>> /\ r.down = <<>> /\ r.next = 0 /\ r.expect = 0
        /\ r.live = TRUE /\ r.stage = "auth_hello"
    <2>1. NewConnection \in Connections
      BY FreshConnection DEF IsConnection
    <2>2. r \in Connections
      BY <1>3, <2>1 DEF Connections
    <2> QED
      BY <2>2 DEF NewConnection
  <1>5. conn' = [conn EXCEPT ![c] = r]
    BY DEF Accept
  <1> HIDE DEF r
  <1>6. IsConnection(r, machine.boot, GuardedBoots)
    BY <1>4 DEF IsConnection, Truthful, StartsProtected, Numbered
  <1>7. TableOK'
    BY <1>1, <1>5, <1>6, ChangedTable, SameMachine
  <1>8. \A d \in Conns : conn'[d] = IF d = c THEN r ELSE conn[d]
    BY <1>2, <1>5
  <1>9. Kept
    BY <1>2, <1>8 DEF Kept
  <1>10. UsedOK'
    <2>1. /\ used' \in [connections : Nat, commands : Nat, faults : Nat, actions : Nat, base : Nat]
          /\ used'.connections = c /\ used'.base = used.base /\ used'.actions = used.actions
      BY <1>1 DEF UsedOK
    <2>2. \A d \in Conns : d > c => d # c /\ d > used.connections
      BY <1>1 DEF Conns
    <2> QED
      BY <1>8, <2>1, <2>2 DEF UsedOK
  <1> QED
    BY <1>1, <1>2, <1>4, <1>7, <1>8, <1>9, <1>10

\* Dial and DiscoveryDial: a report is on its way before a connection is.
LEMMA DialStep ==
  ASSUME ClassroomIInv, Dial \/ DiscoveryDial
  PROVE  ClassroomIInv' /\ Seat!Next
  <1> USE DEF ClassroomIInv
  <1>0. /\ UNCHANGED <<machine, owner, record, exam, starting, carrier>>
        /\ used.connections < MaxConnections
    BY DEF Dial, DiscoveryDial
  <1>1. PICK c : /\ c = used.connections + 1
                 /\ conn' = Accept(conn, c) /\ used' = [used EXCEPT !.connections = c]
    BY DEF Dial, DiscoveryDial
  <1>2. /\ c \in Conns /\ TableOK' /\ UsedOK' /\ Kept
        /\ conn[c].client = "none" /\ conn'[c].client = "dialing"
        /\ \A d \in Conns : d # c => conn'[d] = conn[d]
    BY <1>0, <1>1, AcceptEffect
  <1>3. SeatOK' /\ ExamOK' /\ Seat!Next /\ MachineOK'
    BY <1>0, <1>2, ClientKeeps, SameMachine
  <1>4. /\ service \in ServiceRecords /\ service.race \in SUBSET Conns
        /\ service.worker \in {"idle", "report", "fleet", "configure", "legacy"}
    BY DEF ServiceOK, ServiceRecords
  <1>5. /\ service' \in ServiceRecords /\ service'.out = service.out /\ service'.exam = service.exam
        /\ service'.link = NoConn /\ service'.winner = NoConn
        /\ service.link = NoConn /\ service.winner = NoConn
        /\ service'.race = service.race \cup {c}
        /\ service'.worker # "idle" \/ service'.out # <<>> \/ service'.dropped
    <2>1. CASE Dial
      <3>1. /\ service.link = NoConn /\ service.winner = NoConn /\ service.race = {}
            /\ service' = [report_current_fleet_state_async(service) EXCEPT !.race = {c}]
        BY <1>1, <2>1 DEF Dial
      <3>2. PICK w \in {"report", "fleet", "configure", "legacy"} :
               report_current_fleet_state_async(service) = [service EXCEPT !.worker = w]
        <4>1. CASE service.worker = "idle"
          BY <4>1 DEF report_current_fleet_state_async
        <4>2. CASE service.worker # "idle"
          <5>1. service = [service EXCEPT !.worker = service.worker]
            BY <1>4 DEF ServiceRecords
          <5> QED
            BY <1>4, <4>2, <5>1 DEF report_current_fleet_state_async
        <4> QED
          BY <4>1, <4>2
      <3> QED
        BY <1>2, <1>4, <3>1, <3>2 DEF ServiceRecords
    <2>2. CASE DiscoveryDial
      <3>1. /\ Cardinality(service.race) = 1 /\ service.winner = NoConn
            /\ service' = [service EXCEPT !.race = @ \cup {c}]
        BY <1>1, <2>2 DEF DiscoveryDial
      <3>2. service.race # {}
        BY <3>1, FS_EmptySet
      <3>3. service.link = NoConn /\ (service.worker # "idle" \/ service.out # <<>> \/ service.dropped)
        BY <3>2 DEF EndsOK, ReportComing
      <3> QED
        BY <1>2, <1>4, <3>1, <3>3 DEF ServiceRecords
    <2> QED
      BY <2>1, <2>2
  <1>6. ServiceOK'
    BY <1>0, <1>5, SameMachine DEF ServiceOK, OutOK, Truthful
  <1>7. EndsOK'
    BY <1>2, <1>4, <1>5 DEF EndsOK, Conns, NoConn
  <1>8. ReportComing'
    BY <1>5 DEF ReportComing
  <1> QED
    BY <1>2, <1>3, <1>6, <1>7, <1>8

\* Hang(): the client drops its end of a connection and the others stay.
LEMMA HangEffect ==
  ASSUME TableOK, NEW c \in Conns, conn[c].client # "none", NEW t, t = Hang(conn, c)
  PROVE  /\ t \in [Conns -> Connections]
         /\ \A d \in Conns : IsConnection(t[d], machine.boot, GuardedBoots)
         /\ \A d \in Conns : d # c => t[d] = conn[d]
         /\ t[c].client = "gone" /\ t[c].stage = conn[c].stage
         /\ conn[c].live => /\ t[c].live /\ t[c].boot = conn[c].boot
                            /\ t[c].open = conn[c].open
         /\ ~conn[c].live => ~t[c].live /\ ~t[c].open
  <1>1. conn \in [Conns -> Connections] /\ IsConnection(conn[c], machine.boot, GuardedBoots)
    BY DEF TableOK
  <1>2. t = [conn EXCEPT ![c] = Hung(conn[c])]
    BY DEF Hang, Hung
  <1>3. PICK r : r = Hung(conn[c])
    OBVIOUS
  <1>4. /\ IsConnection(r, machine.boot, GuardedBoots)
        /\ r.client = "gone" /\ r.stage = conn[c].stage
        /\ conn[c].live => r.live /\ r.boot = conn[c].boot /\ r.open = conn[c].open
        /\ ~conn[c].live => ~r.live /\ ~r.open
    BY <1>1, <1>3, HungConnection
  <1>5. r \in Connections
    BY <1>4 DEF IsConnection
  <1>6. \A d \in Conns : t[d] = IF d = c THEN r ELSE conn[d]
    BY <1>1, <1>2, <1>3
  <1>7. t \in [Conns -> Connections]
    BY <1>1, <1>2, <1>3, <1>5
  <1> QED
    BY <1>4, <1>6, <1>7 DEF TableOK

\* claim(): the connections once the winner is linked and has said hello.
Linked(t, w) ==
    [t EXCEPT ![w].client = "linked", ![w].up = Append(@, Message("hello"))]

\* The session begins on a connection: it is linked and says hello.
LEMMA LinkEffect ==
  ASSUME MachineOK, NEW t \in [Conns -> Connections], NEW w \in Conns,
         \A d \in Conns : IsConnection(t[d], machine.boot, GuardedBoots),
         t[w].client = "dialing",
         NEW x, x = Linked(t, w)
  PROVE  /\ x \in [Conns -> Connections]
         /\ \A d \in Conns : IsConnection(x[d], machine.boot, GuardedBoots)
         /\ \A d \in Conns : d # w => x[d] = t[d]
         /\ x[w].client = "linked" /\ x[w].stage = t[w].stage /\ x[w].live = t[w].live
         /\ x[w].boot = t[w].boot /\ x[w].open = t[w].open
  <1>0. Message("hello") \in Reports
    BY MessageType, Zenon
  <1>1. PICK m \in Reports : m = Message("hello")
    BY <1>0, Zenon
  <1>2. m.boot = machine.boot /\ ~m.proves
    BY <1>1 DEF Message
  <1>3. IsConnection(t[w], machine.boot, GuardedBoots) /\ t[w].boot = machine.boot
    BY DEF IsConnection, Attached
  <1>4. PICK u : u = [t[w] EXCEPT !.up = Append(@, m)]
    OBVIOUS
  <1>5. IsConnection(u, machine.boot, GuardedBoots)
    BY <1>2, <1>3, <1>4, ReportedConnection
  <1>6. u \in Connections /\ t[w] \in Connections
    BY <1>3, <1>5 DEF IsConnection
  <1>7. /\ u.client = "dialing" /\ u.stage = t[w].stage /\ u.live = t[w].live
        /\ u.boot = t[w].boot /\ u.open = t[w].open
    BY <1>4, <1>6 DEF Connections
  <1>8. PICK r \in Connections : r = [u EXCEPT !.client = "linked"]
    BY <1>6 DEF Connections
  <1>9. /\ r.client = "linked" /\ r.stage = u.stage /\ r.live = u.live /\ r.boot = u.boot
        /\ r.open = u.open /\ r.up = u.up /\ r.down = u.down /\ r.next = u.next
        /\ r.expect = u.expect
    BY <1>6, <1>8 DEF Connections
  <1>10. IsConnection(r, machine.boot, GuardedBoots)
    BY <1>5, <1>7, <1>9 DEF IsConnection, Attached, Numbered
  <1>11. x = [t EXCEPT ![w] = r]
    <2>1. r = [t[w] EXCEPT !.client = "linked", !.up = Append(t[w].up, m)]
      BY <1>4, <1>6, <1>8 DEF Connections
    <2> QED
      BY <1>1, <2>1 DEF Linked
  <1>12. \A d \in Conns : x[d] = IF d = w THEN r ELSE t[d]
    BY <1>11
  <1> QED
    BY <1>7, <1>9, <1>10, <1>11, <1>12

\* claim(): a branch of the dialling race ends.
LEMMA ClaimStep ==
  ASSUME ClassroomIInv, NEW c \in Conns, claim(c)
  PROVE  ClassroomIInv' /\ Seat!Next
  <1> USE DEF ClassroomIInv
  <1>0. /\ UNCHANGED <<machine, owner, record, exam, starting, used, carrier>>
        /\ c \in service.race
    BY DEF claim
  <1>1. /\ service \in ServiceRecords /\ service.race \in SUBSET Conns
        /\ service.winner \in Conns \cup {NoConn} /\ conn \in [Conns -> Connections]
        /\ NoConn \notin Conns
    BY DEF ServiceOK, ServiceRecords, TableOK, Conns, NoConn
  <1>2. /\ conn[c].client = "dialing" /\ service.link = NoConn
        /\ service.worker # "idle" \/ service.out # <<>> \/ service.dropped
    BY <1>0 DEF EndsOK, ReportComing
  <1>3. PICK winner \in {service.winner, c} :
          LET left == service.race \ {c}
              lost == IF winner = c THEN conn ELSE Hang(conn, c)
          IN  /\ winner = c => /\ service.winner = NoConn
                              /\ client_handshake(c)
              /\ winner # c => service.winner # NoConn \/ ~conn[c].open
              /\ IF left = {} /\ winner # NoConn
                 THEN /\ service' = [service EXCEPT !.race = {}, !.winner = NoConn, !.link = winner]
                      /\ conn' = [lost EXCEPT ![winner].client = "linked",
                                              ![winner].up = Append(@, Message("hello"))]
                 ELSE /\ service' = [service EXCEPT !.race = left, !.winner = winner]
                      /\ conn' = lost
    BY DEF claim
  <1>4. PICK lost : lost = IF winner = c THEN conn ELSE Hang(conn, c)
    OBVIOUS
  <1>5. /\ lost \in [Conns -> Connections]
        /\ \A d \in Conns : IsConnection(lost[d], machine.boot, GuardedBoots)
        /\ \A d \in Conns : d # c => lost[d] = conn[d]
        /\ winner = c => lost = conn
        /\ winner # c => lost[c].client = "gone"
        /\ lost[c].client # "none" /\ lost[c].stage = conn[c].stage
        /\ conn[c].live => lost[c].live /\ lost[c].boot = conn[c].boot
        /\ lost[c].open => lost[c].boot = conn[c].boot /\ conn[c].open
    <2>1. CASE winner = c
      BY <1>2, <1>4, <2>1 DEF TableOK
    <2>2. CASE winner # c
      <3>1. lost = Hang(conn, c)
        BY <1>4, <2>2
      <3>2. conn[c].live \in BOOLEAN /\ conn[c].client # "none"
        BY <1>1, <1>2, ConnectionFields
      <3> QED
        BY <2>2, <3>1, <3>2, HangEffect
    <2> QED
      BY <2>1, <2>2
  <1>6. CASE service.race \ {c} = {} /\ winner # NoConn
    <2>1. /\ service' = [service EXCEPT !.race = {}, !.winner = NoConn, !.link = winner]
          /\ conn' = [lost EXCEPT ![winner].client = "linked",
                                  ![winner].up = Append(@, Message("hello"))]
      BY <1>3, <1>4, <1>6
    <2>2. winner \in Conns /\ conn[winner].client = "dialing" /\ lost[winner] = conn[winner]
      BY <1>1, <1>2, <1>3, <1>5, <1>6 DEF EndsOK
    <2>3. /\ conn' \in [Conns -> Connections]
          /\ \A d \in Conns : IsConnection(conn'[d], machine.boot, GuardedBoots)
          /\ \A d \in Conns : d # winner => conn'[d] = lost[d]
          /\ conn'[winner].client = "linked" /\ conn'[winner].stage = lost[winner].stage
          /\ conn'[winner].live = lost[winner].live
          /\ conn'[winner].boot = lost[winner].boot /\ conn'[winner].open = lost[winner].open
      <3>1. PICK x : x = conn'
        OBVIOUS
      <3>2. x = Linked(lost, winner)
        BY <2>1, <3>1 DEF Linked
      <3>3. lost[winner].client = "dialing"
        BY <2>2
      <3>4. /\ x \in [Conns -> Connections]
            /\ \A d \in Conns : IsConnection(x[d], machine.boot, GuardedBoots)
            /\ \A d \in Conns : d # winner => x[d] = lost[d]
            /\ x[winner].client = "linked" /\ x[winner].stage = lost[winner].stage
            /\ x[winner].live = lost[winner].live
            /\ x[winner].boot = lost[winner].boot /\ x[winner].open = lost[winner].open
        BY <1>5, <2>2, <3>2, <3>3, LinkEffect
      <3> QED
        BY <3>1, <3>4
    <2>4. /\ service' \in ServiceRecords /\ service'.race = {} /\ service'.winner = NoConn
          /\ service'.link = winner /\ service'.out = service.out /\ service'.exam = service.exam
          /\ service'.worker = service.worker /\ service'.dropped = service.dropped
      BY <1>1, <2>1, <2>2 DEF ServiceRecords
    <2>5. TableOK'
      BY <1>0, <2>3, SameMachine DEF TableOK
    <2>6. Kept
      <3> SUFFICES ASSUME NEW d \in Conns, conn[d].client # "none"
                   PROVE  /\ conn'[d].client # "none"
                          /\ conn[d].live => /\ conn'[d].live /\ conn'[d].stage = conn[d].stage
                                             /\ conn'[d].boot = conn[d].boot
                          /\ conn'[d].open => conn[d].open /\ conn'[d].boot = conn[d].boot
        BY DEF Kept
      <3>1. CASE d = winner
        BY <2>2, <2>3, <3>1
      <3>2. CASE d # winner /\ d = c
        BY <1>5, <2>3, <3>2
      <3>3. CASE d # winner /\ d # c
        BY <1>5, <2>3, <3>3
      <3> QED
        BY <3>1, <3>2, <3>3
    <2>7. EndsOK'
      <3>1. \A d \in Conns : conn'[d].client # "dialing"
        BY <1>1, <1>3, <1>5, <1>6, <2>2, <2>3 DEF EndsOK
      <3>2. \A d \in Conns : conn'[d].client = "linked" <=> d = winner
        BY <1>1, <1>2, <1>5, <2>2, <2>3 DEF EndsOK
      <3> QED
        BY <1>1, <2>4, <3>1, <3>2 DEF EndsOK
    <2>8. ServiceOK' /\ ReportComing'
      BY <1>0, <1>2, <2>4, SameMachine DEF ServiceOK, OutOK, Truthful, ReportComing
    <2>9. UsedOK'
      <3>1. \A d \in Conns : conn[d].client = "none" => d # c /\ d # winner
        BY <1>2, <2>2
      <3> QED
        BY <1>0, <1>5, <2>3, <3>1 DEF UsedOK
    <2> QED
      BY <1>0, <2>5, <2>6, <2>7, <2>8, <2>9, ClientKeeps, SameMachine
  <1>7. CASE ~(service.race \ {c} = {} /\ winner # NoConn)
    <2>1. /\ service' = [service EXCEPT !.race = service.race \ {c}, !.winner = winner]
          /\ conn' = lost
      BY <1>3, <1>4, <1>7
    <2>4. /\ service' \in ServiceRecords /\ service'.race = service.race \ {c}
          /\ service'.winner = winner
          /\ service'.link = service.link /\ service'.out = service.out
          /\ service'.exam = service.exam /\ service'.worker = service.worker
          /\ service'.dropped = service.dropped
      <3>1. winner \in Conns \cup {NoConn}
        BY <1>1, <1>3
      <3> QED
        BY <1>1, <2>1, <3>1 DEF ServiceRecords
    <2>5. TableOK'
      BY <1>0, <1>5, <2>1, SameMachine DEF TableOK
    <2>6. Kept
      BY <1>5, <2>1 DEF Kept
    <2>7. EndsOK'
      <3>1. \A d \in Conns : conn'[d].client = "dialing" <=> d \in service'.race \cup {winner}
        <4>1. CASE winner = c
          BY <1>1, <1>0, <1>3, <1>5, <2>1, <2>4, <4>1 DEF EndsOK
        <4>2. CASE winner # c
          BY <1>1, <1>0, <1>3, <1>5, <2>1, <2>4, <4>2 DEF EndsOK
        <4> QED
          BY <4>1, <4>2
      <3>2. \A d \in Conns : conn'[d].client = "linked" <=> d = service.link
        <4>1. CASE winner = c
          BY <1>5, <2>1, <4>1 DEF EndsOK
        <4>2. CASE winner # c
          BY <1>1, <1>2, <1>5, <2>1, <4>2 DEF EndsOK
        <4> QED
          BY <4>1, <4>2
      <3>3. winner \notin service'.race
        BY <1>3, <2>4 DEF EndsOK
      <3> QED
        BY <1>2, <2>4, <3>1, <3>2, <3>3 DEF EndsOK
    <2>8. ServiceOK' /\ ReportComing'
      BY <1>0, <1>2, <2>4, SameMachine DEF ServiceOK, OutOK, Truthful, ReportComing
    <2>9. UsedOK'
      BY <1>0, <1>2, <1>5, <2>1 DEF UsedOK
    <2> QED
      BY <1>0, <2>5, <2>6, <2>7, <2>8, <2>9, ClientKeeps, SameMachine
  <1> QED
    BY <1>6, <1>7

\* SendOutbound: the report leaves the queue and is on the wire.
LEMMA SendOutboundStep ==
  ASSUME ClassroomIInv, SendOutbound
  PROVE  ClassroomIInv' /\ Seat!Next
  <1> USE DEF ClassroomIInv
  <1>0. /\ service.link # NoConn /\ service.out # <<>>
        /\ conn' = [conn EXCEPT ![service.link].up = Append(@, Head(service.out))]
        /\ service' = [service EXCEPT !.out = Tail(@)]
        /\ UNCHANGED <<machine, owner, record, exam, starting, used, carrier>>
    BY DEF SendOutbound
  <1>1. /\ service \in ServiceRecords /\ service.out \in Seq(Reports)
        /\ conn \in [Conns -> Connections]
        /\ OutOK(service.out, machine.boot, GuardedBoots)
    BY DEF ServiceOK, ServiceRecords, TableOK
  <1>2. PICK c \in Conns : c = service.link
    BY <1>0 DEF ServiceOK, ServiceRecords
  <1>3. PICK m \in Reports : m = Head(service.out)
    BY <1>0, <1>1
  <1>4. m = service.out[1] /\ 1 \in 1..Len(service.out)
    BY <1>0, <1>1, <1>3
  <1>5. m.boot = machine.boot /\ (m.proves => machine.boot \in GuardedBoots) /\ m.type \in UwfReports
    BY <1>1, <1>4 DEF OutOK, Truthful
  <1>6. /\ IsConnection(conn[c], machine.boot, GuardedBoots)
        /\ conn[c].client = "linked" /\ conn[c].boot = machine.boot
    BY <1>2 DEF TableOK, EndsOK, IsConnection, Attached
  <1>7. PICK r : r = [conn[c] EXCEPT !.up = Append(@, m)]
    OBVIOUS
  <1>8. IsConnection(r, machine.boot, GuardedBoots)
    BY <1>5, <1>6, <1>7, ReportedConnection
  <1>9. /\ r.client = conn[c].client /\ r.boot = conn[c].boot /\ r.live = conn[c].live
        /\ r.stage = conn[c].stage /\ r.open = conn[c].open /\ r.up = Append(conn[c].up, m)
    BY <1>1, <1>7 DEF Connections
  <1>10. conn' = [conn EXCEPT ![c] = r]
    BY <1>0, <1>1, <1>2, <1>3, <1>7
  <1>11. \A d \in Conns : conn'[d] = IF d = c THEN r ELSE conn[d]
    BY <1>1, <1>10
  <1>12. TableOK'
    BY <1>0, <1>8, <1>10, ChangedTable, SameMachine
  <1>13. Kept
    BY <1>9, <1>11 DEF Kept
  <1>14. PICK q \in Seq(Reports) : /\ q = Tail(service.out)
                                   /\ \A i \in 1..Len(q) : \E j \in 1..Len(service.out) :
                                          q[i] = service.out[j]
    <2>1. /\ Tail(service.out) \in Seq(Reports) /\ Len(service.out) \in Nat
          /\ \A i \in 1..Len(Tail(service.out)) :
                i + 1 \in 1..Len(service.out) /\ Tail(service.out)[i] = service.out[i + 1]
      BY <1>0, <1>1
    <2>2. \A i \in 1..Len(Tail(service.out)) : \E j \in 1..Len(service.out) :
             Tail(service.out)[i] = service.out[j]
      BY <2>1
    <2> QED
      BY <2>1, <2>2
  <1>15. /\ service' \in ServiceRecords /\ service'.out = q /\ service'.exam = service.exam
         /\ service'.link = service.link /\ service'.race = service.race
         /\ service'.winner = service.winner
    BY <1>0, <1>1, <1>14 DEF ServiceRecords
  <1>16. ServiceOK'
    <2>1. OutOK(q, machine.boot, GuardedBoots)
      BY <1>1, <1>14 DEF OutOK, Truthful
    <2> QED
      BY <1>0, <1>15, <2>1, SameMachine DEF ServiceOK
  <1>17. EndsOK' /\ UsedOK'
    BY <1>0, <1>9, <1>11, <1>15 DEF EndsOK, UsedOK
  <1>18. ReportComing'
    <2>1. \E i \in 1..Len(r.up) : r.up[i].type \in UwfReports
      <3>1. conn[c].up \in Seq(Reports)
        BY <1>1, ConnectionFields
      <3>2. /\ Len(Append(conn[c].up, m)) = Len(conn[c].up) + 1
            /\ Append(conn[c].up, m)[Len(conn[c].up) + 1] = m
            /\ Len(conn[c].up) + 1 \in 1..(Len(conn[c].up) + 1)
        BY <3>1
      <3> QED
        BY <1>5, <1>9, <3>2
    <2>2. conn'[service'.link] = r
      BY <1>2, <1>11, <1>15
    <2>3. service'.race = {} /\ service'.winner = NoConn
      BY <1>0, <1>15 DEF EndsOK
    <2> QED
      BY <2>1, <2>2, <2>3 DEF ReportComing
  <1> QED
    BY <1>0, <1>12, <1>13, <1>16, <1>17, <1>18, ClientKeeps, SameMachine

\* handle_server_command(): the service starts, stops or configures; a worker
\* that was running goes on, and a refusal is itself a report.
LEMMA HandledService ==
  ASSUME ServiceOK, MachineOK, NEW m \in Commands,
         m.type = "exam_start" => machine.guarded,
         NEW t, t = handle_server_command(service, m)
  PROVE  /\ t \in ServiceRecords /\ OutOK(t.out, machine.boot, GuardedBoots)
         /\ t.exam => machine.guarded
         /\ t.link = service.link /\ t.race = service.race /\ t.winner = service.winner
         /\ ReportKept(service, t)
  <1> USE DEF ReportKept
  <1>0. /\ service \in ServiceRecords /\ OutOK(service.out, machine.boot, GuardedBoots)
        /\ service.exam => machine.guarded
        /\ m.type \in {"exam_start", "exam_stop", "uwf_configure", "uwf_fleet_configure"}
        /\ m.op \in Nat /\ m.action \in Nat
    BY DEF ServiceOK, Commands
  <1>1. CASE m.type \in {"exam_start", "exam_stop"}
    <2>1. PICK e \in BOOLEAN : (e => machine.guarded) /\ t = [service EXCEPT !.exam = e]
      BY <1>1 DEF handle_server_command
    <2> QED
      BY <1>0, <2>1 DEF ServiceRecords
  <1>2. CASE m.type = "uwf_configure"
    <2>1. t = configure_uwf_async(service)
      BY <1>2 DEF handle_server_command
    <2>2. CASE service.worker = "idle"
      <3>1. t = [service EXCEPT !.worker = "legacy"]
        BY <2>1, <2>2 DEF configure_uwf_async
      <3> QED
        BY <1>0, <3>1 DEF ServiceRecords
    <2>3. CASE service.worker # "idle"
      <3>1. t = queue_uwf_report(service, "busy") /\ "busy" \in Outcomes
        BY <2>1, <2>3 DEF configure_uwf_async, Outcomes
      <3> QED
        BY <1>0, <3>1, QueuedReport
    <2> QED
      BY <2>2, <2>3
  <1>3. CASE m.type = "uwf_fleet_configure"
    <2>1. t = configure_uwf_fleet_async(service, m)
      BY <1>3 DEF handle_server_command
    <2>2. CASE m.op = service.op
      <3>1. t = service \/ t = [service EXCEPT !.worker = "report"]
        BY <2>1, <2>2 DEF configure_uwf_fleet_async, report_current_fleet_state_async
      <3> QED
        BY <1>0, <3>1 DEF ServiceRecords
    <2>3. CASE m.op # service.op
      <3>1. PICK taken : taken = [service EXCEPT !.op = m.op, !.action = m.action,
                                                 !.phase = "requested"]
        OBVIOUS
      <3>2. /\ taken \in ServiceRecords /\ taken.out = service.out /\ taken.exam = service.exam
            /\ taken.link = service.link /\ taken.race = service.race
            /\ taken.winner = service.winner /\ taken.worker = service.worker
        BY <1>0, <3>1 DEF ServiceRecords, Phases
      <3>3. CASE service.worker # "idle"
        <4>1. t = queue_fleet_status(taken, "failed", FALSE)
          BY <2>1, <2>3, <3>1, <3>3 DEF configure_uwf_fleet_async
        <4>2. "failed" \in Phases /\ FALSE \in BOOLEAN
          BY DEF Phases
        <4>3. \E ph \in Phases, proves \in BOOLEAN :
                 (proves => machine.guarded) /\ t = queue_fleet_status(taken, ph, proves)
          BY <4>1, <4>2, Zenon
        <4> QED
          BY <1>0, <3>2, <4>3, QueuedReport
      <3>4. CASE service.worker = "idle"
        <4>1. t = [taken EXCEPT !.worker = "fleet"]
          BY <2>1, <2>3, <3>1, <3>4 DEF configure_uwf_fleet_async
        <4> QED
          BY <1>0, <3>2, <4>1 DEF ServiceRecords
      <3> QED
        BY <3>3, <3>4
    <2> QED
      BY <2>2, <2>3
  <1> QED
    BY <1>0, <1>1, <1>2, <1>3

\* The session ends: the client drops the link and its exam.
LEMMA UnlinkedStep ==
  ASSUME ClassroomIInv, service.link # NoConn, conn' = Hang(conn, service.link),
         service' = [service EXCEPT !.link = NoConn, !.exam = FALSE],
         UNCHANGED <<machine, owner, record, exam, starting, used, carrier>>
  PROVE  ClassroomIInv' /\ Seat!Next
  <1> USE DEF ClassroomIInv
  <1>1. PICK c \in Conns : c = service.link
    BY DEF ServiceOK, ServiceRecords
  <1>2. /\ conn[c].client = "linked" /\ conn[c].live \in BOOLEAN
        /\ service \in ServiceRecords /\ service.race = {} /\ service.winner = NoConn
        /\ NoConn \notin Conns
    BY <1>1, ConnectionFields DEF EndsOK, ServiceOK, TableOK, Conns, NoConn
  <1>3. PICK t : t = Hang(conn, c)
    OBVIOUS
  <1>4. /\ t \in [Conns -> Connections]
        /\ \A d \in Conns : IsConnection(t[d], machine.boot, GuardedBoots)
        /\ \A d \in Conns : d # c => t[d] = conn[d]
        /\ t[c].client = "gone" /\ t[c].stage = conn[c].stage
        /\ conn[c].live => /\ t[c].live /\ t[c].boot = conn[c].boot
                           /\ t[c].open = conn[c].open
        /\ ~conn[c].live => ~t[c].live /\ ~t[c].open
    BY <1>2, <1>3, HangEffect
  <1>5. conn' = t
    BY <1>1, <1>3
  <1>6. TableOK'
    BY <1>4, <1>5, SameMachine DEF TableOK
  <1>7. Kept
    BY <1>2, <1>4, <1>5 DEF Kept
  <1>8. /\ service' \in ServiceRecords /\ service'.link = NoConn /\ service'.exam = FALSE
        /\ service'.race = {} /\ service'.winner = NoConn /\ service'.out = service.out
    BY <1>2 DEF ServiceRecords
  <1>9. EndsOK'
    <2>1. \A d \in Conns : conn'[d].client \notin {"dialing", "linked"}
      BY <1>1, <1>2, <1>4, <1>5 DEF EndsOK
    <2> QED
      BY <1>2, <1>8, <2>1 DEF EndsOK
  <1>10. ServiceOK' /\ ReportComing'
    BY <1>8, SameMachine DEF ServiceOK, OutOK, Truthful, ReportComing
  <1>11. UsedOK'
    BY <1>2, <1>4, <1>5 DEF UsedOK
  <1> QED
    BY <1>6, <1>7, <1>9, <1>10, <1>11, ClientKeeps, SameMachine

\* ReceiveCommand: a start reaches the service only in the boot it was for.
LEMMA ReceiveCommandStep ==
  ASSUME ClassroomIInv, ReceiveCommand
  PROVE  ClassroomIInv' /\ Seat!Next
  <1> USE DEF ClassroomIInv
  <1>0. /\ UNCHANGED <<machine, owner, record, exam, starting, used, carrier>>
        /\ service.link # NoConn /\ conn[service.link].down # <<>>
    BY DEF ReceiveCommand
  <1>1. PICK c \in Conns : c = service.link
    BY <1>0 DEF ServiceOK, ServiceRecords
  <1>2. /\ conn \in [Conns -> Connections] /\ conn[c].down \in Seq(Commands)
        /\ conn[c].client = "linked" /\ IsConnection(conn[c], machine.boot, GuardedBoots)
        /\ conn[c].down # <<>>
    BY <1>0, <1>1, ConnectionFields DEF TableOK, EndsOK
  <1>3. PICK m \in Commands : m = Head(conn[c].down)
    BY <1>2
  <1>4. CASE ~ControlSequenceGuard(c, m)
    <2>1. /\ conn' = Hang(conn, service.link)
          /\ service' = [service EXCEPT !.link = NoConn, !.exam = FALSE]
      BY <1>1, <1>3, <1>4 DEF ReceiveCommand
    <2> QED
      BY <1>0, <2>1, UnlinkedStep
  <1>5. CASE ControlSequenceGuard(c, m)
    <2>1. /\ conn' = [conn EXCEPT ![c].down = Tail(@), ![c].expect = @ + 1]
          /\ service' = handle_server_command(service, m)
      BY <1>1, <1>3, <1>5 DEF ReceiveCommand
    <2>2. m.type = "exam_start" => machine.guarded
      <3>1. m = conn[c].down[1] /\ 1 \in 1..Len(conn[c].down)
        BY <1>2, <1>3
      <3>2. m.type = "exam_start" => machine.boot \in GuardedBoots
        BY <1>2, <3>1 DEF IsConnection, StartsProtected, Attached
      <3>3. machine.boot \notin machine.guardedBoots
        BY DEF MachineOK
      <3> QED
        BY <3>2, <3>3 DEF GuardedBoots
    <2>3. PICK s : s = handle_server_command(service, m)
      OBVIOUS
    <2>4. /\ s \in ServiceRecords /\ OutOK(s.out, machine.boot, GuardedBoots)
          /\ s.exam => machine.guarded
          /\ s.link = service.link /\ s.race = service.race /\ s.winner = service.winner
          /\ ReportKept(service, s)
      BY <2>2, <2>3, HandledService
    <2>5. service' = s
      BY <2>1, <2>3
    <2>6. PICK r : r = [conn[c] EXCEPT !.down = Tail(@), !.expect = @ + 1]
      OBVIOUS
    <2>7. IsConnection(r, machine.boot, GuardedBoots)
      BY <1>2, <2>6, ReceivedConnection
    <2>8. /\ r.client = conn[c].client /\ r.boot = conn[c].boot /\ r.live = conn[c].live
          /\ r.stage = conn[c].stage /\ r.open = conn[c].open /\ r.up = conn[c].up
          /\ r.reported = conn[c].reported
      BY <1>2, <2>6 DEF Connections
    <2>9. conn' = [conn EXCEPT ![c] = r]
      BY <1>2, <2>1, <2>6
    <2>10. \A d \in Conns : conn'[d] = IF d = c THEN r ELSE conn[d]
      BY <1>2, <2>9
    <2>11. TableOK'
      BY <1>0, <2>7, <2>9, ChangedTable, SameMachine
    <2>12. Quiet /\ Kept /\ SameLinks
      BY <2>4, <2>5, <2>8, <2>10 DEF Quiet, Kept, SameLinks
    <2>13. EndsOK' /\ ReportComing'
      BY <2>4, <2>5, <2>12, QuietEnds, QuietReport
    <2>14. ServiceOK'
      BY <1>0, <2>4, <2>5, SameMachine DEF ServiceOK
    <2>15. UsedOK'
      BY <1>0, <2>12, QuietUsed DEF UsedOK
    <2> QED
      BY <1>0, <2>11, <2>12, <2>13, <2>14, <2>15, ClientKeeps, SameMachine
  <1> QED
    BY <1>4, <1>5

\* RestartService and Reboot: every end of the service is gone, and the machine
\* starts into what was armed.
LEMMA RestartStep ==
  ASSUME ClassroomIInv, RestartService \/ Reboot
  PROVE  ClassroomIInv' /\ Seat!Next
  <1> USE DEF ClassroomIInv
  <1>0. /\ UNCHANGED <<owner, record, exam, starting, carrier>>
        /\ service' = NewService /\ conn' = Abandon /\ used' = Fault
    BY DEF RestartService, Reboot
  <1>1. MachineOK' /\ GuardedBoots \subseteq GuardedBoots'
    <2>1. CASE RestartService
      BY <2>1, SameMachine DEF RestartService
    <2>2. CASE Reboot
      <3>1. /\ machine.boot < MaxBoot
            /\ machine' = [machine EXCEPT !.boot = @ + 1, !.guarded = machine.armed,
                                          !.guardedBoots = GuardedBoots]
        BY <2>2 DEF Reboot, SessionsLeft
      <3>2. /\ machine.boot \in 1..MaxBoot /\ MaxBoot \in Nat
            /\ machine.guardedBoots \in SUBSET (1..MaxBoot)
            /\ \A b \in machine.guardedBoots : b < machine.boot
            /\ machine.armed \in BOOLEAN
        BY BoundsAssumption DEF MachineOK
      <3>3. PICK n \in 1..MaxBoot : n = machine.boot + 1
        BY <3>1, <3>2
      <3>4. /\ GuardedBoots \in SUBSET (1..MaxBoot)
            /\ \A b \in GuardedBoots : b < n
        BY <3>2, <3>3 DEF GuardedBoots
      <3>5. PICK G \in SUBSET (1..MaxBoot) : G = GuardedBoots
        BY <3>4
      <3>6. machine' = [machine EXCEPT !.boot = n, !.guarded = machine.armed, !.guardedBoots = G]
        BY <3>1, <3>3, <3>5
      <3>7. /\ machine' \in [boot : 1..MaxBoot, guarded : BOOLEAN, armed : BOOLEAN,
                             guardedBoots : SUBSET (1..MaxBoot), supported : BOOLEAN]
            /\ machine'.boot = n /\ machine'.guardedBoots = G
        BY <3>2, <3>6 DEF MachineOK
      <3> QED
        BY <3>4, <3>5, <3>7 DEF MachineOK, GuardedBoots
    <2> QED
      BY <2>1, <2>2
  <1>2. conn \in [Conns -> Connections]
    BY DEF TableOK
  <1>3. \A d \in Conns : conn'[d] = IF conn[d].client \in Attached THEN Hung(conn[d]) ELSE conn[d]
    BY <1>0, <1>2 DEF Abandon, Hang, Hung, Attached
  <1>4. ASSUME NEW d \in Conns
        PROVE  /\ IsConnection(conn'[d], machine'.boot, GuardedBoots')
               /\ conn'[d].client \notin Attached
               /\ conn[d].client = "none" => conn'[d].client = "none"
               /\ conn[d].client # "none" =>
                     /\ conn'[d].client # "none"
                     /\ conn[d].live => /\ conn'[d].live /\ conn'[d].stage = conn[d].stage
                                        /\ conn'[d].boot = conn[d].boot
                     /\ conn'[d].open => conn[d].open /\ conn'[d].boot = conn[d].boot
    <2>1. IsConnection(conn[d], machine.boot, GuardedBoots) /\ conn[d].live \in BOOLEAN
      BY <1>2, ConnectionFields DEF TableOK
    <2>2. CASE conn[d].client \in Attached
      <3>1. PICK r : r = Hung(conn[d])
        OBVIOUS
      <3>2. /\ IsConnection(r, machine.boot, GuardedBoots)
            /\ r.client = "gone" /\ r.stage = conn[d].stage
            /\ conn[d].live => r.live /\ r.boot = conn[d].boot /\ r.open = conn[d].open
            /\ ~conn[d].live => ~r.live /\ ~r.open
        BY <2>1, <2>2, <3>1, HungConnection DEF Attached
      <3>3. IsConnection(r, machine'.boot, GuardedBoots)
        BY <3>2, DetachedConnection DEF Attached
      <3>4. IsConnection(r, machine'.boot, GuardedBoots')
        BY <1>1, <3>3, GrownConnection
      <3>5. conn'[d] = r
        BY <1>3, <2>2, <3>1
      <3> QED
        BY <2>1, <2>2, <3>2, <3>4, <3>5 DEF Attached
    <2>3. CASE conn[d].client \notin Attached
      <3>1. IsConnection(conn[d], machine'.boot, GuardedBoots)
        BY <2>1, <2>3, DetachedConnection
      <3>2. IsConnection(conn[d], machine'.boot, GuardedBoots')
        BY <1>1, <3>1, GrownConnection
      <3>3. conn'[d] = conn[d]
        BY <1>3, <2>3
      <3> QED
        BY <2>3, <3>2, <3>3
    <2> QED
      BY <2>2, <2>3
  <1>5. TableOK'
    <2>1. conn' \in [Conns -> Connections]
      <3>1. \A d \in Conns : conn'[d] \in Connections
        BY <1>4 DEF IsConnection
      <3>2. conn' = [d \in Conns |-> conn'[d]]
        BY <1>0 DEF Abandon
      <3> QED
        BY <3>1, <3>2
    <2> QED
      BY <1>4, <2>1 DEF TableOK
  <1>6. Kept
    BY <1>4 DEF Kept
  <1>7. /\ service' \in ServiceRecords /\ service'.link = NoConn /\ service'.race = {}
        /\ service'.winner = NoConn /\ service'.out = <<>> /\ service'.exam = FALSE
    BY <1>0 DEF NewService, ServiceRecords, Phases
  <1>8. ServiceOK' /\ ReportComing'
    BY <1>7 DEF ServiceOK, OutOK, Truthful, ReportComing
  <1>9. EndsOK'
    BY <1>4, <1>7 DEF EndsOK, Attached, Conns, NoConn
  <1>10. UsedOK'
    <2>1. used.faults + 1 \in Nat
      BY DEF UsedOK
    <2>2. /\ used' \in [connections : Nat, commands : Nat, faults : Nat, actions : Nat, base : Nat]
          /\ used'.connections = used.connections /\ used'.base <= used'.actions
      BY <1>0, <2>1 DEF UsedOK, Fault
    <2> QED
      BY <1>4, <2>2 DEF UsedOK
  <1> QED
    BY <1>0, <1>1, <1>5, <1>6, <1>8, <1>9, <1>10, ClientKeeps

-----------------------------------------------------------------------------
(* The theorems.                                                            *)

\* Every step keeps the invariant and is a step of the abstract seat or leaves
\* it as it was.
LEMMA ClassroomStep ==
  ASSUME ClassroomIInv, [Next]_vars
  PROVE  ClassroomIInv' /\ [Seat!Next]_(Seat!seat)
  <1>1. CASE Next
    <2>1. CASE ServerStep
      <3>1. PICK c \in Conns : \/ watchdog_loop(c) \/ on_disconnected(c)
                               \/ handshake(c) \/ publish(c)
                               \/ disconnect_previous(c) \/ process_authenticated(c)
        BY <2>1 DEF ServerStep
      <3> QED
        BY <3>1, TransportStep, DisconnectedStep, PublishStep, ProcessStep
    <2>2. CASE AdmissionStep
      BY <2>2, OperatorQuietStep DEF AdmissionStep
    <2>3. CASE OperatorStep
      BY <2>3, OperatorQuietStep, FleetOperationStep DEF OperatorStep
    <2>4. CASE WorkerStep
      BY <2>4, WorkersStep
    <2>5. CASE ClientStep
      <3>1. CASE \E c \in Conns : claim(c)
        BY <3>1, ClaimStep
      <3>2. CASE EndSession
        BY <3>2, UnlinkedStep DEF EndSession
      <3> QED
        BY <2>5, <3>1, <3>2, DialStep, SendOutboundStep, ReceiveCommandStep DEF ClientStep
    <2>6. CASE FaultStep
      <3>1. CASE \E c \in Conns : TransportFails(c)
        BY <3>1, TransportStep
      <3> QED
        BY <2>6, <3>1, RestartServerStep, RestartStep, WorkersStep DEF FaultStep
    <2> QED
      BY <1>1, <2>1, <2>2, <2>3, <2>4, <2>5, <2>6 DEF Next
  <1>2. CASE UNCHANGED vars
    <2>1. UNCHANGED <<machine, service, conn, owner, record, exam, starting, used, carrier>>
      BY <1>2 DEF vars
    <2>2. UNCHANGED Seat!seat
      BY <2>1 DEF Seat!seat, proves_current_protection
    <2>3. ClassroomIInv'
      <3>1. GuardedBoots' = GuardedBoots
        BY <2>1 DEF GuardedBoots
      <3> QED
        BY <2>1, <3>1 DEF ClassroomIInv, MachineOK, TableOK, UsedOK, ServiceOK, EndsOK, SeatOK,
                          ExamOK, ReportComing
    <2> QED
      BY <2>2, <2>3
  <1> QED
    BY <1>1, <1>2

\* The inductive invariant holds throughout.
LEMMA ClassroomInvariant == Spec => []ClassroomIInv
  <1>1. Init => ClassroomIInv
    BY Initially
  <1>2. ClassroomIInv /\ [Next]_vars => ClassroomIInv'
    BY ClassroomStep
  <1> QED
    BY <1>1, <1>2, PTL DEF Spec

\* The control plane implements the abstract seat: every step of the server,
\* the client, the operator and the network is a claim, a proof, a withdrawal
\* or a leave of SeatOwnership, or leaves the seat alone.
THEOREM SeatImplemented == Spec => SeatRefined
  <1>1. Init => Seat!Init
    BY Initially
  <1>2. ClassroomIInv /\ [Next]_vars => [Seat!Next]_(Seat!seat)
    BY ClassroomStep
  <1> QED
    BY <1>1, <1>2, ClassroomInvariant, PTL DEF Spec, SeatRefined, Seat!Spec

\* The registry's proof of protection is true whenever proves_current_protection()
\* accepts it: it is of the owner's boot, and that boot was protected.
THEOREM ProofsAreTrue == Spec => []ProofIsTrue
  <1>1. ClassroomIInv => ProofIsTrue
    BY DEF ClassroomIInv, SeatOK, ProofIsTrue
  <1> QED
    BY <1>1, ClassroomInvariant, PTL

\* start_exam() admits, and the client's exam_start handler runs, exams in
\* protected sessions only, for any number of connections, boots and commands.
THEOREM ExamsOnlyProtected == Spec => []ExamOnlyProtected
  <1>1. ClassroomIInv => ExamOnlyProtected
    BY DEF ClassroomIInv, ExamOK, ServiceOK, ExamOnlyProtected
  <1> QED
    BY <1>1, ClassroomInvariant, PTL

\* The commands send_authenticated_locked() numbers reach ControlSequenceGuard
\* without a gap, whatever is dropped, refused or cut off on the way.
THEOREM SequencesUnbroken == Spec => []SequenceUnbroken
  <1>1. ClassroomIInv => SequenceUnbroken
    BY DEF ClassroomIInv, TableOK, IsConnection, Numbered, Attached, SequenceUnbroken
  <1> QED
    BY <1>1, ClassroomInvariant, PTL

\* The report that resolves a new owner's protection is lost only with the last one
\* in the service, although report_current_fleet_state_async() gives way to a running
\* worker.
THEOREM ReportsOnTheirWay == Spec => []ReportOnItsWay
  <1>1. ClassroomIInv => ReportOnItsWay
    <2> SUFFICES ASSUME ClassroomIInv, owner # NoConn, ~conn[owner].reported,
                        conn[owner].open, conn[owner].client # "gone",
                        service.worker = "idle", ~service.dropped,
                        ~ \E i \in 1..Len(service.out) : service.out[i].type \in UwfReports
                 PROVE  \E i \in 1..Len(conn[owner].up) : conn[owner].up[i].type \in UwfReports
      BY DEF ReportOnItsWay
    <2> USE DEF ClassroomIInv
    <2>1. /\ owner \in Conns /\ conn[owner].live /\ conn[owner].client # "none"
          /\ conn[owner].client \in {"none", "dialing", "linked", "gone"}
      BY ConnectionFields DEF SeatOK, TableOK, IsConnection
    <2>2. service.out = <<>>
      <3>1. service.out \in Seq(Reports)
        BY DEF ServiceOK, ServiceRecords
      <3>2. service.out # <<>> => 1 \in 1..Len(service.out)
        BY <3>1
      <3> QED
        BY <3>2 DEF ServiceOK, OutOK
    <2>3. service.race = {} /\ service.winner = NoConn
      BY <2>2 DEF ReportComing
    <2>4. conn[owner].client # "dialing"
      BY <2>1, <2>3 DEF EndsOK, Conns, NoConn
    <2>5. owner = service.link
      BY <2>1, <2>4 DEF EndsOK
    <2> QED
      BY <2>2, <2>5 DEF ReportComing
  <1> QED
    BY <1>1, ClassroomInvariant, PTL

=============================================================================
