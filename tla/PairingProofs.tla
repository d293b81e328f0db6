--------------------------- MODULE PairingProofs ----------------------------
(***************************************************************************)
(* Proofs about Pairing for any set of machines, any number of attempts,   *)
(* requests, windows and failures: no pairing key exists without the       *)
(* student's and the teacher's consent, and a key a machine has saved is   *)
(* known to the server, in memory and in its file, unless a later approval *)
(* replaced it or an enrollment overlapped an approval.                    *)
(***************************************************************************)
EXTENDS Pairing, Integers, WellFoundedInduction, TLAPS

\* The machines.
Machines == Students \cup {Provisioned}

\* What the server sends on a pairing connection.
Frames == [type : {"offer", "reject", "accept"}, id : Nat]

\* Both ends of an attempt and the frames between them.
Links ==
    [client : Machines,
     mine : {"none", "hello", "student", "approval", "over"},
     up : Seq({"hello", "confirm", "heartbeat"}), down : Seq(Frames),
     open : BOOLEAN, known : BOOLEAN,
     stage : {"initial", "deriving", "offering", "offered", "pending", "failed"},
     settled : BOOLEAN, yes : BOOLEAN, window : Nat]

\* A confirmation is sent by a student who said yes.
Confirms(l) == \E i \in DOMAIN l.up : l.up[i] = "confirm"

\* A link with such confirmations only.
GoodLink(l) == l \in Links /\ (Confirms(l) => l.yes)

\* Keys of attempts, the key of the enrollment secret, and none.
Keys == Attempts \cup {TokenKey, NoKey}

\* What the key store holds.
Entries == [client : Machines, id : Nat, key : Keys, revoked : BOOLEAN]

\* What the keyring file holds.
Records == Machines \X Nat \X BOOLEAN \X Keys

\* The fields of an approval or an enrollment under way.
Tasks ==
    [step : {"idle", "window", "snapshot", "rotate", "encode", "write", "settle", "send",
             "requested", "accept", "accepted", "done", "failed"},
     attempt : Nat, number : Nat, previous : SUBSET Entries, image : SUBSET Records]

\* The steps of an approval before its key is in the file.
Unsaved == {"snapshot", "rotate", "encode", "write"}

\* All steps of an approval.
Approving == Unsaved \cup {"settle", "send"}

\* The types, the attempts that have not begun, and the students' confirmations.
LinksOK ==
    /\ link \in [Attempts -> Links]
    /\ request \in [Attempts -> {"none", "requested", "confirmed"}]
    /\ window \in [open : BOOLEAN, beacon : BOOLEAN, count : Nat]
    /\ used \in [attempts : 0 .. MaxAttempts, faults : Nat]
    /\ \A a \in Attempts : a > used.attempts => link[a] = NoLink /\ request[a] = "none"
    /\ \A a \in Attempts : a <= used.attempts => link[a].client \in Students
    /\ \A a \in Attempts : GoodLink(link[a])

\* Attempts the teacher approved.
Approved == {approved[i] : i \in DOMAIN approved}

\* An attempt is approved once, after its student confirmed.
ApprovedOK ==
    /\ approved \in Seq(Attempts)
    /\ \A a \in Approved : a <= used.attempts /\ link[a].yes
    /\ \A a \in Attempts : request[a] = "confirmed" => link[a].yes
    /\ \A a \in Attempts : request[a] # "none" => a \notin Approved
    /\ \A a \in Attempts : link[a].stage \in {"initial", "deriving"} =>
                              a \notin Approved /\ request[a] = "none"
    /\ operator.step \in Approving => operator.attempt \in Approved
    /\ operator.step \in Unsaved => approved[Len(approved)] = operator.attempt

\* An entry's key is that of an attempt of A, the enrollment's or none.
Consented(s, A) == \A e \in s : e.key \in Attempts => e.key \in A

\* A client has at most one key under a number, and numbers are bounded.
Sound(s) ==
    /\ \A e, f \in s : e.client = f.client /\ e.id = f.id => e = f
    /\ \E n \in Nat : \A e \in s : e.id <= n

\* A copy of the keys, all of approved attempts.
Copy(s) == s \in SUBSET Entries /\ Sound(s)

\* An acceptance with number n is on its way on link l.
Accepted(l, n) == \E i \in DOMAIN l.down : l.down[i] = [type |-> "accept", id |-> n]

\* Everything that holds keys.
KeysOK ==
    /\ disk \in SUBSET Records /\ operator \in Tasks /\ enroll \in Tasks
    /\ config \in [Machines -> [id : Nat, key : Keys]]
    /\ Copy(store) /\ Consented(store, Approved)
    /\ Copy(decode_keyring(disk)) /\ Consented(decode_keyring(disk), Approved)
    /\ Copy(operator.previous) /\ Consented(operator.previous, Approved)
    /\ Copy(decode_keyring(operator.image)) /\ Consented(decode_keyring(operator.image), Approved)
    /\ Copy(enroll.previous) /\ Consented(enroll.previous, Approved)
    /\ Copy(decode_keyring(enroll.image)) /\ Consented(decode_keyring(enroll.image), Approved)
    /\ \A a \in Attempts : \A n \in Nat : Accepted(link[a], n) => a \in Approved
    /\ \A c \in Students : \/ config[c] = NoConfig
                           \/ config[c].key \in Approved /\ link[config[c].key].client = c
    /\ config[Provisioned] \in {NoConfig, [id |-> TokenId, key |-> TokenKey]}

-----------------------------------------------------------------------------
\* Number n was, or is about to be, handed to the machine of attempt k.
Claimed(k, n) ==
    \/ config[link[k].client] = [id |-> n, key |-> k]
    \/ Accepted(link[k], n)
    \/ operator.step \in {"settle", "send"} /\ operator.attempt = k /\ operator.number = n

\* The entry of the enrollment.
Token == Entry(Provisioned, TokenId, TokenKey)

\* The enrollment's machine saved its key or is about to.
TokenClaimed == enroll.step = "accepted" \/ config[Provisioned] # NoConfig

\* The keys that were handed out and not replaced since.
Handed ==
    {e \in Entries :
        /\ ~e.revoked
        /\ \/ /\ e.key \in Attempts /\ e.client = link[e.key].client
              /\ Claimed(e.key, e.id) /\ ~Superseded(e.key)
           \/ e = Token /\ TokenClaimed}

\* The entry of the approval under way.
Approval == Entry(link[operator.attempt].client, operator.number, operator.attempt)

\* While no enrollment overlaps an approval, every copy that may become the
\* store or the file holds what was handed out.
KeepsOK ==
    /\ ~(operator.step \in Unsaved /\ enroll.step \in {"accept", "encode", "write"})
    /\ Handed \subseteq store /\ Handed \subseteq decode_keyring(disk)
    /\ operator.step \in Unsaved => \A e \in Handed : e.key # operator.attempt
    /\ operator.step \in {"rotate", "encode", "write"} => Handed \subseteq operator.previous
    /\ operator.step \in {"encode", "write"} => Approval \in store
    /\ operator.step = "write" => Handed \cup {Approval} \subseteq decode_keyring(operator.image)
    /\ enroll.step \in {"accept", "encode", "write"} => Handed \subseteq enroll.previous
    /\ enroll.step \in {"encode", "write"} => Token \in store
    /\ enroll.step = "write" => Handed \cup {Token} \subseteq decode_keyring(enroll.image)

\* The inductive invariant.
PairingIInv == LinksOK /\ ApprovedOK /\ KeysOK /\ (~overlap => KeepsOK)

-----------------------------------------------------------------------------
(* The key store's operations.                                              *)

\* The largest of a bounded set of numbers, which NextId takes.
LEMMA MaxExists ==
  ASSUME NEW S \in SUBSET Nat, S # {}, NEW b \in Nat, \A x \in S : x <= b
  PROVE  Max(S) \in S /\ \A y \in S : y <= Max(S)
  <1> DEFINE U == {u \in Nat : \A x \in S : x <= u}
  <1>1. U \subseteq Nat /\ U # {}
    OBVIOUS
  <1>2. PICK m \in U : \A y \in U : ~(<<y, m>> \in OpToRel(<, Nat))
    BY <1>1, WFMin, NatLessThanWellFounded, Zenon
  <1>3. \A y \in U : ~(y < m)
    BY <1>2 DEF OpToRel
  <1>4. m \in S
    <2>1. SUFFICES ASSUME m \notin S PROVE FALSE
      OBVIOUS
    <2>2. \A x \in S : x <= m - 1
      BY <2>1
    <2>3. m - 1 \in U
      <3>1. PICK x \in S : x <= m - 1
        BY <2>2
      <3>2. m - 1 \in Nat
        BY <3>1
      <3> QED
        BY <2>2, <3>2
    <2> QED
      BY <1>3, <2>3
  <1>5. \E x \in S : \A y \in S : x >= y
    BY <1>4
  <1>6. Max(S) \in S /\ \A y \in S : Max(S) >= y
    BY <1>5 DEF Max
  <1> QED
    BY <1>6

\* A number nobody of the client has: NextId().
LEMMA NextIdFree ==
  ASSUME NEW s, Copy(s), NEW c \in Machines
  PROVE  /\ NextId(s, c) \in Nat
         /\ \A e \in s : e.client = c => e.id < NextId(s, c)
  <1> DEFINE Ids == {0} \cup {e.id : e \in {f \in s : f.client = c}}
  <1>1. PICK n \in Nat : \A e \in s : e.id <= n
    BY DEF Copy, Sound
  <1>2. Ids \in SUBSET Nat /\ Ids # {} /\ \A x \in Ids : x <= n
    BY <1>1 DEF Copy, Entries
  <1>3. Max(Ids) \in Ids /\ \A y \in Ids : y <= Max(Ids)
    <2> HIDE DEF Ids
    <2> QED
      BY <1>2, MaxExists
  <1>4. Max(Ids) \in Nat
    BY <1>2, <1>3
  <1>5. NextId(s, c) = 1 + Max(Ids)
    BY DEF NextId
  <1>6. \A e \in s : e.client = c => e.id \in Ids
    OBVIOUS
  <1>7. \A e \in s : e.client = c => e.id \in Nat /\ e.id <= Max(Ids)
    BY <1>2, <1>3, <1>6
  <1> HIDE DEF Ids
  <1> QED
    BY <1>4, <1>5, <1>7

\* The only changes rotate() makes: the client's older keys are revoked and its
\* new one is added under a free number.
LEMMA Rotated ==
  ASSUME NEW s, Copy(s), NEW c \in Machines, NEW k \in Attempts
  PROVE  /\ Copy(rotate(s, c, k))
         /\ \A A : Consented(s, A) /\ k \in A => Consented(rotate(s, c, k), A)
         /\ \A e \in s : e.client # c => e \in rotate(s, c, k)
         /\ Entry(c, NextId(s, c), k) \in rotate(s, c, k)
  <1>1. /\ NextId(s, c) \in Nat
        /\ \A e \in s : e.client = c => e.id < NextId(s, c)
    BY NextIdFree
  <1>2. PICK n \in Nat : n = NextId(s, c)
    BY <1>1
  <1> DEFINE rev(e) == [e EXCEPT !.revoked = TRUE, !.key = NoKey]
             new == Entry(c, n, k)
             old == {IF e.client = c THEN rev(e) ELSE e : e \in s}
  <1>3. rotate(s, c, k) = old \cup {new}
    BY <1>2 DEF rotate
  <1>4. /\ new \in Entries /\ new.client = c /\ new.id = n /\ new.key = k
    BY DEF Entry, Entries, Keys
  <1>5. \A e \in s : /\ e \in Entries /\ rev(e) \in Entries /\ rev(e).client = e.client
                     /\ rev(e).id = e.id /\ rev(e).key = NoKey
    BY DEF Copy, Entries, Keys
  <1> HIDE DEF rev, new
  <1>6. old \cup {new} \in SUBSET Entries
    BY <1>4, <1>5
  <1>7. \A e \in old : \E f \in s : /\ e = IF f.client = c THEN rev(f) ELSE f
                                    /\ e.client = f.client /\ e.id = f.id
                                    /\ e.key \in {f.key, NoKey}
    BY <1>5
  <1>8. \A e \in old : e.client = c => e.id < n
    BY <1>1, <1>2, <1>7
  <1>9. \A e, f \in old : e.client = f.client /\ e.id = f.id => e = f
    BY <1>7 DEF Copy, Sound
  <1>10. \A e, f \in old \cup {new} : e.client = f.client /\ e.id = f.id => e = f
    <2>1. TAKE e, f \in old \cup {new}
    <2>2. HAVE e.client = f.client /\ e.id = f.id
    <2>3. CASE e \in old /\ f \in old
      BY <1>9, <2>2, <2>3
    <2>4. CASE e \in old /\ f = new
      BY <1>4, <1>8, <2>2, <2>4
    <2>5. CASE e = new /\ f \in old
      BY <1>4, <1>8, <2>2, <2>5
    <2> QED
      BY <2>3, <2>4, <2>5
  <1>11. PICK m \in Nat : \A e \in s : e.id <= m
    BY DEF Copy, Sound
  <1>12. PICK m2 \in Nat : m2 = m + n
    OBVIOUS
  <1>13. \A e \in old \cup {new} : e.id <= m2
    <2>1. \A e \in s : e.id \in Nat
      BY <1>5 DEF Entries
    <2> QED
      BY <1>4, <1>7, <1>11, <1>12, <2>1
  <1>14. Copy(rotate(s, c, k))
    BY <1>3, <1>6, <1>10, <1>13 DEF Copy, Sound
  <1>15. \A A : Consented(s, A) /\ k \in A => Consented(rotate(s, c, k), A)
    <2>1. NoKey \notin Attempts
      BY DEF NoKey, Attempts
    <2> QED
      BY <1>3, <1>4, <1>7, <2>1 DEF Consented
  <1>16. \A e \in s : e.client # c => e \in rotate(s, c, k)
    BY <1>3
  <1>17. Entry(c, NextId(s, c), k) \in rotate(s, c, k)
    BY <1>2, <1>3 DEF new
  <1> QED
    BY <1>14, <1>15, <1>16, <1>17

\* What the file gives back of a store: the keys that are not revoked.
LEMMA Saved ==
  ASSUME NEW s, Copy(s)
  PROVE  /\ encode_keyring(s) \in SUBSET Records
         /\ Copy(decode_keyring(encode_keyring(s)))
         /\ \A A : Consented(s, A) => Consented(decode_keyring(encode_keyring(s)), A)
         /\ \A e \in s : ~e.revoked => e \in decode_keyring(encode_keyring(s))
  <1> DEFINE rec(e) == <<e.client, e.id, e.revoked, IF e.revoked THEN NoKey ELSE e.key>>
             ent(x) == [client |-> x[1], id |-> x[2], revoked |-> x[3], key |-> x[4]]
             d == decode_keyring(encode_keyring(s))
  <1>1. \A e \in s : e \in Entries
    BY DEF Copy
  <1>2. \A e \in s : rec(e) \in Records
    BY <1>1 DEF Records, Entries, Keys
  <1>3. encode_keyring(s) = {rec(e) : e \in s}
    BY DEF encode_keyring
  <1>4. encode_keyring(s) \in SUBSET Records
    BY <1>2, <1>3
  <1>5. d = {ent(x) : x \in encode_keyring(s)}
    BY DEF decode_keyring
  <1>6. \A e \in s : /\ ent(rec(e)) \in Entries /\ ent(rec(e)).client = e.client
                     /\ ent(rec(e)).id = e.id /\ ent(rec(e)).key \in {e.key, NoKey}
                     /\ ~e.revoked => ent(rec(e)) = e
    BY <1>1 DEF Entries, Keys
  <1> HIDE DEF rec, ent, d
  <1>7. \A e \in s : ent(rec(e)) \in d
    BY <1>3, <1>5
  <1>8. \A x \in d : \E e \in s : x = ent(rec(e))
    BY <1>3, <1>5
  <1>9. d \in SUBSET Entries
    BY <1>6, <1>8
  <1>10. \A e, f \in d : e.client = f.client /\ e.id = f.id => e = f
    BY <1>6, <1>8 DEF Copy, Sound
  <1>11. \E n \in Nat : \A e \in d : e.id <= n
    BY <1>6, <1>8 DEF Copy, Sound
  <1>12. Copy(d)
    BY <1>9, <1>10, <1>11 DEF Copy, Sound
  <1>13. \A A : Consented(s, A) => Consented(d, A)
    <2>1. NoKey \notin Attempts
      BY DEF NoKey, Attempts
    <2> QED
      BY <1>6, <1>8, <2>1 DEF Consented
  <1>14. \A e \in s : ~e.revoked => e \in d
    BY <1>6, <1>7
  <1> QED
    BY <1>4, <1>12, <1>13, <1>14 DEF d

\* No keys at all.
LEMMA NothingKept ==
  /\ Copy({}) /\ Copy(decode_keyring({})) /\ decode_keyring({}) = {}
  /\ \A A : Consented({}, A) /\ Consented(decode_keyring({}), A)
  BY DEF Copy, Sound, Consented, decode_keyring

\* More approvals leave consent where it was.
LEMMA ConsentGrows ==
  ASSUME NEW s, NEW A, NEW B, Consented(s, A), A \subseteq B
  PROVE  Consented(s, B)
  BY DEF Consented

\* The enrollment's key under its own number.
LEMMA Enrolled ==
  ASSUME NEW s, Copy(s), CanEnroll(s, Provisioned, TokenId)
  PROVE  /\ Copy(s \cup {Token})
         /\ \A A : Consented(s, A) => Consented(s \cup {Token}, A)
  <1>1. /\ Token \in Entries /\ Token.client = Provisioned /\ Token.id = TokenId
        /\ Token.key = TokenKey
    BY DEF Token, Entry, Entries, Machines, Keys, TokenId
  <1>2. TokenKey \notin Attempts
    BY PairingAssumption DEF TokenKey, Attempts
  <1>3. \A e, f \in s \cup {Token} : e.client = f.client /\ e.id = f.id => e = f
    BY <1>1 DEF Copy, Sound, CanEnroll
  <1>4. PICK n \in Nat : \A e \in s : e.id <= n
    BY DEF Copy, Sound
  <1>5. \A e \in s \cup {Token} : e.id <= n + 1
    <2>1. \A e \in s : e.id \in Nat
      BY DEF Copy, Entries
    <2> QED
      BY <1>1, <1>4, <2>1 DEF TokenId
  <1>6. n + 1 \in Nat
    OBVIOUS
  <1>7. \E m \in Nat : \A e \in s \cup {Token} : e.id <= m
    BY <1>5, <1>6
  <1> QED
    BY <1>1, <1>2, <1>3, <1>7 DEF Copy, Sound, Consented

-----------------------------------------------------------------------------
(* What becomes of a connection.                                            *)

\* What every step but the handing out of a key does to a link at most: it sends
\* no acceptance, takes back no yes and does not go back to the beginning.
Tame(l, m) ==
    /\ GoodLink(m) /\ m.client = l.client
    /\ l.yes => m.yes
    /\ \A n \in Nat : Accepted(m, n) => Accepted(l, n)
    /\ m.stage \in {"initial", "deriving"} => l.stage \in {"initial", "deriving"}
    /\ l = NoLink => m = NoLink

\* The same of all links.
TameMap(t, u) ==
    /\ u \in [Attempts -> Links]
    /\ \A a \in Attempts : Tame(t[a], u[a])

\* Links that are good.
GoodMap(t) == t \in [Attempts -> Links] /\ \A a \in Attempts : GoodLink(t[a])

\* An attempt that has not begun is a good link.
LEMMA NoLinkGood == GoodLink(NoLink)
  <1>1. /\ <<>> \in Seq({"hello", "confirm", "heartbeat"}) /\ <<>> \in Seq(Frames)
    OBVIOUS
  <1>2. NoLink \in Links
    BY <1>1 DEF NoLink, Links, Machines
  <1>3. NoLink.up = <<>>
    BY DEF NoLink
  <1> QED
    BY <1>2, <1>3 DEF GoodLink, Confirms

\* A step that leaves a link alone.
LEMMA TameSame ==
  ASSUME NEW l, GoodLink(l)
  PROVE  Tame(l, l)
  BY DEF Tame

\* Two changes in a row.
LEMMA TameTrans ==
  ASSUME NEW l, NEW m, NEW k, Tame(l, m), Tame(m, k)
  PROVE  Tame(l, k)
  BY DEF Tame

\* A change of one link.
LEMMA TameAt ==
  ASSUME NEW t, GoodMap(t), NEW a \in Attempts, NEW m, Tame(t[a], m),
         NEW u, u = [t EXCEPT ![a] = m]
  PROVE  TameMap(t, u) /\ GoodMap(u)
  <1>1. m \in Links
    BY DEF Tame, GoodLink
  <1>2. u \in [Attempts -> Links]
    BY <1>1 DEF GoodMap
  <1>3. \A b \in Attempts : u[b] = IF b = a THEN m ELSE t[b]
    BY DEF GoodMap
  <1>4. \A b \in Attempts : Tame(t[b], u[b])
    BY <1>3, TameSame DEF GoodMap
  <1> QED
    BY <1>2, <1>4 DEF TameMap, GoodMap, Tame

\* No change of any link.
LEMMA TameMapSame ==
  ASSUME NEW t, GoodMap(t)
  PROVE  TameMap(t, t)
  BY TameSame DEF GoodMap, TameMap

\* Two changes of the links in a row.
LEMMA TameMapTrans ==
  ASSUME NEW t, NEW u, NEW v, TameMap(t, u), TameMap(u, v)
  PROVE  TameMap(t, v)
  <1>1. \A a \in Attempts : Tame(t[a], v[a])
    <2>1. TAKE a \in Attempts
    <2>2. Tame(t[a], u[a]) /\ Tame(u[a], v[a])
      BY DEF TameMap
    <2> QED
      BY <2>2, TameTrans
  <1> QED
    BY <1>1 DEF TameMap

\* The rest of an attempt that both ends have ended: Rest().
LEMMA TameRest ==
  ASSUME NEW l, GoodLink(l), l # NoLink
  PROVE  Tame(l, Rest(l))
  <1>1. CASE Rest(l) = l
    BY <1>1, TameSame
  <1>2. CASE Rest(l) = [NoLink EXCEPT !.client = l.client, !.mine = "over",
                                      !.stage = "failed", !.yes = l.yes]
    <2>1. NoLink \in Links /\ NoLink.up = <<>> /\ NoLink.down = <<>>
      BY NoLinkGood DEF GoodLink, NoLink
    <2>2. l.client \in Machines /\ l.yes \in BOOLEAN
      BY DEF GoodLink, Links
    <2>3. PICK m : m = Rest(l)
      OBVIOUS
    <2>4. /\ m \in Links /\ m.client = l.client /\ m.yes = l.yes /\ m.stage = "failed"
      BY <1>2, <2>1, <2>2, <2>3 DEF Links
    <2>5. m.up = <<>> /\ m.down = <<>>
      BY <1>2, <2>1, <2>3 DEF Links
    <2>6. ~Confirms(m) /\ \A n \in Nat : ~Accepted(m, n)
      BY <2>5 DEF Confirms, Accepted
    <2>7. Tame(l, m)
      BY <2>4, <2>6 DEF Tame, GoodLink
    <2> QED
      BY <2>3, <2>7
  <1> QED
    BY <1>1, <1>2 DEF Rest

\* The client ends the attempt: Leave().
LEMMA TameLeave ==
  ASSUME NEW t, GoodMap(t), NEW a \in Attempts, t[a] # NoLink
  PROVE  TameMap(t, Leave(t, a)) /\ GoodMap(Leave(t, a))
  <1>1. GoodLink(t[a]) /\ t[a] \in Links
    BY DEF GoodMap, GoodLink
  <1>2. PICK m : m = [t[a] EXCEPT !.mine = "over", !.down = <<>>]
    OBVIOUS
  <1>3. <<>> \in Seq(Frames)
    OBVIOUS
  <1>4. /\ m \in Links /\ m.client = t[a].client /\ m.yes = t[a].yes /\ m.up = t[a].up
        /\ m.down = <<>> /\ m.stage = t[a].stage /\ m.mine = "over"
    BY <1>1, <1>2, <1>3 DEF Links
  <1>5. Tame(t[a], m)
    <2>1. t[a].up \in Seq({"hello", "confirm", "heartbeat"}) /\ t[a].down \in Seq(Frames)
      BY <1>1 DEF Links
    <2>2. ~Accepted(m, 0) /\ \A n \in Nat : ~Accepted(m, n)
      BY <1>4 DEF Accepted
    <2>3. Confirms(m) => Confirms(t[a])
      BY <1>4 DEF Confirms
    <2> QED
      BY <1>1, <1>4, <2>2, <2>3 DEF Tame, GoodLink
  <1>6. m # NoLink
    BY <1>4 DEF NoLink
  <1>7. Tame(m, Rest(m))
    BY <1>5, <1>6, TameRest DEF Tame
  <1>8. Tame(t[a], Rest(m))
    BY <1>5, <1>7, TameTrans
  <1>9. Leave(t, a) = [t EXCEPT ![a] = Rest(m)]
    BY <1>2 DEF Leave
  <1> QED
    BY <1>8, <1>9, TameAt

\* A frame other than an acceptance is sent.
LEMMA TameSend ==
  ASSUME NEW t, GoodMap(t), NEW a \in Attempts, NEW type \in {"offer", "reject"}
  PROVE  TameMap(t, Send(t, a, Frame(type))) /\ GoodMap(Send(t, a, Frame(type)))
  <1>1. GoodLink(t[a]) /\ t[a] \in Links
    BY DEF GoodMap, GoodLink
  <1>2. CASE ~t[a].open
    BY <1>2, TameMapSame DEF Send
  <1>3. CASE t[a].open
    <2>1. t[a].down \in Seq(Frames)
      BY <1>1 DEF Links
    <2>2. Frame(type) \in Frames /\ Frame(type).type # "accept"
      BY DEF Frame, Frames
    <2>3. PICK q : q = Append(t[a].down, Frame(type))
      OBVIOUS
    <2>4. /\ q \in Seq(Frames)
          /\ \A i \in DOMAIN q : \/ i \in DOMAIN t[a].down /\ q[i] = t[a].down[i]
                                 \/ q[i] = Frame(type)
      BY <2>1, <2>2, <2>3
    <2>5. PICK m : m = [t[a] EXCEPT !.down = q]
      OBVIOUS
    <2>6. /\ m \in Links /\ m.client = t[a].client /\ m.yes = t[a].yes /\ m.up = t[a].up
          /\ m.down = q /\ m.stage = t[a].stage
      BY <1>1, <2>4, <2>5 DEF Links
    <2>7. \A n \in Nat : Accepted(m, n) => Accepted(t[a], n)
      BY <2>2, <2>4, <2>6 DEF Accepted
    <2>8. Confirms(m) => Confirms(t[a])
      BY <2>6 DEF Confirms
    <2>9. t[a] # NoLink
      BY <1>3 DEF NoLink
    <2>10. Tame(t[a], m)
      BY <1>1, <2>6, <2>7, <2>8, <2>9 DEF Tame, GoodLink
    <2>11. Send(t, a, Frame(type)) = [t EXCEPT ![a] = m]
      BY <1>1, <1>3, <2>3, <2>5 DEF Send
    <2> QED
      BY <2>10, <2>11, TameAt
  <1> QED
    BY <1>2, <1>3

\* The server gives up a connection: Disconnect().
LEMMA TameDisconnect ==
  ASSUME NEW t, GoodMap(t), NEW a \in Attempts, t[a] # NoLink
  PROVE  TameMap(t, Disconnect(t, a)) /\ GoodMap(Disconnect(t, a))
  <1>1. GoodLink(t[a]) /\ t[a] \in Links
    BY DEF GoodMap, GoodLink
  <1>2. PICK m : m = [t[a] EXCEPT !.open = FALSE, !.stage = "failed"]
    OBVIOUS
  <1>4. /\ m \in Links /\ m.client = t[a].client /\ m.yes = t[a].yes /\ m.up = t[a].up
        /\ m.down = t[a].down /\ m.stage = "failed"
    BY <1>1, <1>2 DEF Links
  <1>5. Tame(t[a], m)
    <2>1. \A n \in Nat : Accepted(m, n) => Accepted(t[a], n)
      BY <1>4 DEF Accepted
    <2>2. Confirms(m) => Confirms(t[a])
      BY <1>4 DEF Confirms
    <2> QED
      BY <1>1, <1>4, <2>1, <2>2 DEF Tame, GoodLink
  <1>6. m # NoLink
    BY <1>4 DEF NoLink
  <1>7. Tame(m, Rest(m))
    BY <1>5, <1>6, TameRest DEF Tame
  <1>8. Tame(t[a], Rest(m))
    BY <1>5, <1>7, TameTrans
  <1>9. Disconnect(t, a) = [t EXCEPT ![a] = Rest(m)]
    BY <1>2 DEF Disconnect
  <1> QED
    BY <1>8, <1>9, TameAt

\* A refusal: refuse_pairing().
LEMMA TameRefuse ==
  ASSUME NEW t, GoodMap(t), NEW a \in Attempts, t[a] # NoLink
  PROVE  TameMap(t, refuse_pairing(t, a))
  <1>1. PICK u : u = Send(t, a, Frame("reject"))
    OBVIOUS
  <1>2. TameMap(t, u) /\ GoodMap(u)
    BY <1>1, TameSend
  <1>3. u[a] # NoLink
    <2>1. CASE ~t[a].open
      BY <1>1, <2>1 DEF Send
    <2>2. CASE t[a].open
      <3>1. t[a] \in Links /\ t \in [Attempts -> Links]
        BY DEF GoodMap, GoodLink
      <3>2. u[a].open
        BY <1>1, <2>2, <3>1 DEF Send, Links
      <3> QED
        BY <3>2 DEF NoLink
    <2> QED
      BY <2>1, <2>2
  <1>4. TameMap(u, Disconnect(u, a))
    BY <1>2, <1>3, TameDisconnect
  <1>5. refuse_pairing(t, a) = Disconnect(u, a)
    BY <1>1 DEF refuse_pairing
  <1> QED
    BY <1>2, <1>4, <1>5, TameMapTrans

\* A connection is settled: settle_pairing_connection().
LEMMA TameSettle ==
  ASSUME NEW t, GoodMap(t), NEW a \in Attempts
  PROVE  TameMap(t, settle_pairing_connection(t, a)) /\ GoodMap(settle_pairing_connection(t, a))
  <1>1. GoodLink(t[a]) /\ t[a] \in Links
    BY DEF GoodMap, GoodLink
  <1>2. CASE ~t[a].known
    BY <1>2, TameMapSame DEF settle_pairing_connection
  <1>3. CASE t[a].known
    <2>1. PICK m : m = [t[a] EXCEPT !.settled = TRUE]
      OBVIOUS
    <2>2. /\ m \in Links /\ m.client = t[a].client /\ m.yes = t[a].yes /\ m.up = t[a].up
          /\ m.down = t[a].down /\ m.stage = t[a].stage
      BY <1>1, <2>1 DEF Links
    <2>3. \A n \in Nat : Accepted(m, n) => Accepted(t[a], n)
      BY <2>2 DEF Accepted
    <2>4. Confirms(m) => Confirms(t[a])
      BY <2>2 DEF Confirms
    <2>5. t[a] # NoLink
      BY <1>3 DEF NoLink
    <2>6. Tame(t[a], m)
      BY <1>1, <2>2, <2>3, <2>4, <2>5 DEF Tame, GoodLink
    <2>7. settle_pairing_connection(t, a) = [t EXCEPT ![a] = m]
      BY <1>1, <1>3, <2>1 DEF settle_pairing_connection
    <2> QED
      BY <2>6, <2>7, TameAt
  <1> QED
    BY <1>2, <1>3

\* A rejected or expired request: its client is told and its connection settled.
LEMMA TameReject ==
  ASSUME NEW t, GoodMap(t), NEW a \in Attempts
  PROVE  TameMap(t, settle_pairing_connection(Send(t, a, Frame("reject")), a))
  <1>1. PICK u : u = Send(t, a, Frame("reject"))
    OBVIOUS
  <1>2. TameMap(t, u) /\ GoodMap(u)
    BY <1>1, TameSend
  <1>3. TameMap(u, settle_pairing_connection(u, a))
    BY <1>2, TameSettle
  <1>4. TameMap(t, settle_pairing_connection(u, a))
    BY <1>2, <1>3, TameMapTrans
  <1> QED
    BY <1>1, <1>4

\* All abandoned requests: refuse_abandoned().
LEMMA TameAbandoned ==
  ASSUME NEW t, GoodMap(t), NEW gone
  PROVE  TameMap(t, refuse_abandoned(t, gone))
  <1> DEFINE one(a) == settle_pairing_connection(Send(t, a, Frame("reject")), a)
  <1>1. \A a \in Attempts : Tame(t[a], one(a)[a])
    BY TameReject DEF TameMap
  <1>2. \A a \in Attempts : Tame(t[a], t[a])
    BY TameSame DEF GoodMap
  <1>3. refuse_abandoned(t, gone) = [a \in Attempts |-> IF a \in gone THEN one(a)[a] ELSE t[a]]
    BY DEF refuse_abandoned
  <1> HIDE DEF one
  <1>4. \A a \in Attempts : Tame(t[a], refuse_abandoned(t, gone)[a])
    BY <1>1, <1>2, <1>3
  <1>5. refuse_abandoned(t, gone) \in [Attempts -> Links]
    BY <1>1, <1>2, <1>3 DEF Tame, GoodLink
  <1> QED
    BY <1>4, <1>5 DEF TameMap

-----------------------------------------------------------------------------
(* Steps that hand out no key.                                              *)

\* What such a step does to a request: it drops it, makes one of a hello that
\* was just taken, or confirms one that is there.
RequestStep(a) ==
    /\ request'[a] = "confirmed" => link'[a].yes
    /\ request'[a] # "none" => request[a] # "none" \/ link[a].stage = "deriving"
    /\ link'[a].stage \in {"initial", "deriving"} => request'[a] = "none"

\* The links, requests, windows and budgets after such a step.
Talk ==
    /\ TameMap(link, link')
    /\ request' \in [Attempts -> {"none", "requested", "confirmed"}]
    /\ \A a \in Attempts : RequestStep(a)
    /\ window' \in [open : BOOLEAN, beacon : BOOLEAN, count : Nat]
    /\ used' \in [attempts : 0 .. MaxAttempts, faults : Nat]
    /\ used'.attempts = used.attempts
    /\ UNCHANGED approved

\* The types and the approved attempts after such a step.
LEMMA TalkKeeps ==
  ASSUME LinksOK, ApprovedOK, Talk,
         operator'.step \in Approving => operator.step \in Approving
                                           /\ operator'.attempt = operator.attempt,
         operator'.step \in Unsaved => operator.step \in Unsaved
  PROVE  LinksOK' /\ ApprovedOK' /\ Approved' = Approved
  <1>0. /\ link' \in [Attempts -> Links]
        /\ \A a \in Attempts : Tame(link[a], link'[a])
    BY DEF Talk, TameMap
  <1>1. \A a \in Attempts : /\ GoodLink(link'[a]) /\ link'[a].client = link[a].client
                            /\ link[a].yes => link'[a].yes
                            /\ link'[a].stage \in {"initial", "deriving"} =>
                                  link[a].stage \in {"initial", "deriving"}
                            /\ link[a] = NoLink => link'[a] = NoLink
    BY <1>0 DEF Tame
  <1>2. \A a \in Attempts : a > used'.attempts => link'[a] = NoLink /\ request'[a] = "none"
    <2>1. TAKE a \in Attempts
    <2>2. HAVE a > used'.attempts
    <2>3. link[a] = NoLink /\ request[a] = "none"
      BY <2>2 DEF LinksOK, Talk
    <2>4. link'[a] = NoLink
      BY <1>1, <2>3
    <2>5. link[a].stage # "deriving"
      BY <2>3 DEF NoLink
    <2>6. request'[a] = "none"
      BY <2>3, <2>5 DEF Talk, RequestStep
    <2> QED
      BY <2>4, <2>6
  <1>3. \A a \in Attempts : a <= used'.attempts => link'[a].client \in Students
    BY <1>1 DEF LinksOK, Talk
  <1>4. LinksOK'
    BY <1>0, <1>1, <1>2, <1>3 DEF LinksOK, Talk
  <1>5. Approved' = Approved
    BY DEF Talk, Approved
  <1>6. Approved \subseteq Attempts
    BY DEF ApprovedOK, Approved
  <1>7. \A a \in Approved : a <= used'.attempts /\ link'[a].yes
    BY <1>1, <1>6 DEF ApprovedOK, Talk
  <1>8. \A a \in Attempts : request'[a] = "confirmed" => link'[a].yes
    BY DEF Talk, RequestStep
  <1>9. \A a \in Attempts : request'[a] # "none" => a \notin Approved
    BY DEF Talk, RequestStep, ApprovedOK
  <1>10. \A a \in Attempts : link'[a].stage \in {"initial", "deriving"} =>
                                a \notin Approved /\ request'[a] = "none"
    BY <1>1 DEF Talk, RequestStep, ApprovedOK
  <1>11. approved' \in Seq(Attempts)
    BY DEF ApprovedOK, Talk
  <1>12. operator'.step \in Approving => operator'.attempt \in Approved
    BY DEF ApprovedOK
  <1>13. operator'.step \in Unsaved => approved'[Len(approved')] = operator'.attempt
    BY DEF ApprovedOK, Talk, Approving
  <1>14. ApprovedOK'
    BY <1>5, <1>7, <1>8, <1>9, <1>10, <1>11, <1>12, <1>13 DEF ApprovedOK
  <1> QED
    BY <1>4, <1>5, <1>14

\* An attempt that was superseded stays so.
LEMMA SupersededStays ==
  ASSUME ApprovedOK, approved' \in Seq(Attempts), Len(approved) <= Len(approved'),
         \A i \in DOMAIN approved : approved'[i] = approved[i],
         \A a \in Approved : link'[a].client = link[a].client
  PROVE  \A k : Superseded(k) => Superseded(k)'
  <1>1. TAKE k
  <1>2. HAVE Superseded(k)
  <1>3. PICK i, j \in DOMAIN approved :
           i < j /\ approved[i] = k /\ link[approved[j]].client = link[k].client
    BY <1>2 DEF Superseded
  <1>4. approved[i] \in Approved /\ approved[j] \in Approved
    BY DEF Approved
  <1>5. /\ i \in DOMAIN approved' /\ j \in DOMAIN approved'
    BY DEF ApprovedOK
  <1>6. approved'[i] = k /\ link'[approved'[j]].client = link'[k].client
    BY <1>3, <1>4
  <1> QED
    BY <1>3, <1>5, <1>6 DEF Superseded

\* A step that hands out no key leaves at most what was handed out before.
LEMMA HandedShrinks ==
  ASSUME TameMap(link, link'), UNCHANGED config,
         \A k : Superseded(k) => Superseded(k)',
         operator'.step \in {"settle", "send"} =>
            /\ operator.step \in {"settle", "send"}
            /\ operator'.attempt = operator.attempt /\ operator'.number = operator.number,
         enroll'.step = "accepted" => enroll.step = "accepted"
  PROVE  Handed' \subseteq Handed
  <1>1. \A a \in Attempts : /\ link'[a].client = link[a].client
                            /\ \A n \in Nat : Accepted(link'[a], n) => Accepted(link[a], n)
    BY DEF TameMap, Tame
  <1>2. \A k \in Attempts, n \in Nat : Claimed(k, n)' => Claimed(k, n)
    BY <1>1 DEF Claimed
  <1>3. TokenClaimed' => TokenClaimed
    BY DEF TokenClaimed
  <1>4. SUFFICES ASSUME NEW e \in Handed' PROVE e \in Handed
    OBVIOUS
  <1>5. e \in Entries /\ ~e.revoked /\ e.id \in Nat
    BY <1>4 DEF Handed, Entries
  <1>6. CASE e = Token /\ TokenClaimed'
    BY <1>3, <1>5, <1>6 DEF Handed
  <1>7. CASE /\ e.key \in Attempts /\ e.client = link'[e.key].client
             /\ Claimed(e.key, e.id)' /\ ~Superseded(e.key)'
    <2>1. e.client = link[e.key].client /\ Claimed(e.key, e.id) /\ ~Superseded(e.key)
      BY <1>1, <1>2, <1>5, <1>7
    <2> QED
      BY <1>5, <1>7, <2>1 DEF Handed
  <1> QED
    BY <1>4, <1>6, <1>7 DEF Handed

\* The configurations and acceptances after a step that hands out no key.
LEMMA ConfigsKept ==
  ASSUME LinksOK, ApprovedOK, KeysOK, TameMap(link, link'), UNCHANGED config,
         Approved \subseteq Approved'
  PROVE  /\ config' \in [Machines -> [id : Nat, key : Keys]]
         /\ \A a \in Attempts : \A n \in Nat : Accepted(link'[a], n) => a \in Approved'
         /\ \A c \in Students : \/ config'[c] = NoConfig
                                \/ config'[c].key \in Approved'
                                     /\ link'[config'[c].key].client = c
         /\ config'[Provisioned] \in {NoConfig, [id |-> TokenId, key |-> TokenKey]}
  <1>1. \A a \in Attempts : /\ link'[a].client = link[a].client
                            /\ \A n \in Nat : Accepted(link'[a], n) => Accepted(link[a], n)
    BY DEF TameMap, Tame
  <1>2. Approved \subseteq Attempts
    BY DEF ApprovedOK, Approved
  <1> QED
    BY <1>1, <1>2 DEF KeysOK

\* The fields of an approval or enrollment that is at rest.
LEMMA AtRest ==
  ASSUME NEW s \in {"idle", "window", "requested", "accepted", "done", "failed"}
  PROVE  /\ Idle \in Tasks /\ Idle.step = "idle" /\ Idle.previous = {} /\ Idle.image = {}
         /\ [Idle EXCEPT !.step = s] \in Tasks /\ [Idle EXCEPT !.step = s].step = s
         /\ [Idle EXCEPT !.step = s].previous = {} /\ [Idle EXCEPT !.step = s].image = {}
  BY DEF Idle, Tasks

\* A step that only talks: the teacher's thread goes on, rests or changes the
\* window, and no copy of the keys is touched.
Quiet ==
    /\ Talk
    /\ UNCHANGED <<store, disk, enroll, config, overlap>>
    /\ \/ operator' = operator
       \/ /\ operator' \in Tasks /\ operator'.step \in {"idle", "window"}
          /\ operator'.previous = {} /\ operator'.image = {}

\* It keeps the invariant.
LEMMA QuietStep ==
  ASSUME PairingIInv, Quiet
  PROVE  PairingIInv'
  <1> USE DEF PairingIInv
  <1>0. /\ TameMap(link, link') /\ UNCHANGED <<store, disk, enroll, config, overlap, approved>>
    BY DEF Quiet, Talk
  <1>1. /\ operator'.step \in Approving => operator' = operator
        /\ operator' \in Tasks
    BY DEF Quiet, KeysOK, Approving, Unsaved
  <1>2. LinksOK' /\ ApprovedOK' /\ Approved' = Approved
    <2>1. Unsaved \subseteq Approving
      BY DEF Approving
    <2> QED
      BY <1>1, <2>1, TalkKeeps DEF Quiet
  <1>3. KeysOK'
    <2>1. /\ Copy(operator'.previous) /\ Consented(operator'.previous, Approved)
          /\ Copy(decode_keyring(operator'.image))
          /\ Consented(decode_keyring(operator'.image), Approved)
      <3>1. CASE operator' = operator
        BY <3>1 DEF KeysOK
      <3>2. CASE operator'.previous = {} /\ operator'.image = {}
        BY <3>2, NothingKept
      <3> QED
        BY <3>1, <3>2 DEF Quiet
    <2>2. /\ config' \in [Machines -> [id : Nat, key : Keys]]
          /\ \A a \in Attempts : \A n \in Nat : Accepted(link'[a], n) => a \in Approved'
          /\ \A c \in Students : \/ config'[c] = NoConfig
                                 \/ config'[c].key \in Approved'
                                      /\ link'[config'[c].key].client = c
          /\ config'[Provisioned] \in {NoConfig, [id |-> TokenId, key |-> TokenKey]}
      BY <1>0, <1>2, ConfigsKept
    <2> QED
      BY <1>0, <1>1, <1>2, <2>1, <2>2 DEF KeysOK
  <1>4. ASSUME ~overlap' PROVE KeepsOK'
    <2>0. KeepsOK
      BY <1>0, <1>4
    <2>1. Approved \subseteq Attempts
      BY DEF ApprovedOK, Approved
    <2>2. \A a \in Attempts : link'[a].client = link[a].client
      BY <1>0 DEF TameMap, Tame
    <2>3. \A k : Superseded(k) => Superseded(k)'
      BY <1>0, <2>1, <2>2, SupersededStays DEF ApprovedOK
    <2>4. Handed' \subseteq Handed
      <3>1. {"settle", "send"} \subseteq Approving
        BY DEF Approving
      <3> QED
        BY <1>0, <1>1, <2>3, <3>1, HandedShrinks
    <2>5. /\ Token' = Token /\ store' = store /\ decode_keyring(disk)' = decode_keyring(disk)
          /\ enroll' = enroll
      BY <1>0 DEF Token
    <2>6. CASE operator'.step \notin Approving
      BY <2>0, <2>4, <2>5, <2>6 DEF KeepsOK, Approving, Unsaved
    <2>7. CASE operator'.step \in Approving
      <3>1. operator' = operator
        BY <1>1, <2>7
      <3>2. operator.attempt \in Attempts
        BY <2>1, <2>7, <3>1 DEF ApprovedOK
      <3>3. Approval' = Approval
        BY <2>2, <3>1, <3>2 DEF Approval
      <3> QED
        BY <2>0, <2>4, <2>5, <3>1, <3>3 DEF KeepsOK
    <2> QED
      BY <2>6, <2>7
  <1> QED
    BY <1>2, <1>3, <1>4

-----------------------------------------------------------------------------
(* The steps of the two ends of a connection.                               *)

\* The stage of a connection goes on.
LEMMA TameStage ==
  ASSUME NEW t, GoodMap(t), NEW a \in Attempts, t[a] # NoLink,
         NEW s \in {"deriving", "offering", "offered", "pending", "failed"},
         s = "deriving" => t[a].stage = "initial", NEW u, u = [t EXCEPT ![a].stage = s]
  PROVE  TameMap(t, u) /\ GoodMap(u) /\ u[a].stage = s
  <1>1. GoodLink(t[a]) /\ t[a] \in Links /\ t \in [Attempts -> Links]
    BY DEF GoodMap, GoodLink
  <1>2. PICK m : m = [t[a] EXCEPT !.stage = s]
    OBVIOUS
  <1>w. u = [t EXCEPT ![a] = m]
    BY <1>1, <1>2
  <1>3. /\ m \in Links /\ m.client = t[a].client /\ m.yes = t[a].yes /\ m.up = t[a].up
        /\ m.down = t[a].down /\ m.stage = s
    BY <1>1, <1>2 DEF Links
  <1>4. Tame(t[a], m)
    <2>1. \A n \in Nat : Accepted(m, n) => Accepted(t[a], n)
      BY <1>3 DEF Accepted
    <2>2. Confirms(m) => Confirms(t[a])
      BY <1>3 DEF Confirms
    <2> QED
      BY <1>1, <1>3, <2>1, <2>2 DEF Tame, GoodLink
  <1>5. u[a] = m
    BY <1>1, <1>w
  <1>6. TameMap(t, u) /\ GoodMap(u)
    BY <1>4, <1>w, TameAt
  <1> QED
    BY <1>3, <1>5, <1>6

\* A frame of the client is taken.
LEMMA TameConsumed ==
  ASSUME GoodMap(link), NEW a \in Attempts, link[a].known, link[a].up # <<>>
  PROVE  /\ TameMap(link, Consumed(a)) /\ GoodMap(Consumed(a))
         /\ Consumed(a)[a] # NoLink /\ Consumed(a)[a].stage = link[a].stage
         /\ Consumed(a)[a].yes = link[a].yes
  <1>1. GoodLink(link[a]) /\ link[a] \in Links /\ link \in [Attempts -> Links]
    BY DEF GoodMap, GoodLink
  <1>2. link[a].up \in Seq({"hello", "confirm", "heartbeat"})
    BY <1>1 DEF Links
  <1>t. Len(link[a].up) # 0 /\ Tail(link[a].up) \in Seq({"hello", "confirm", "heartbeat"})
    BY <1>2
  <1>3. PICK q \in Seq({"hello", "confirm", "heartbeat"}) : q = Tail(link[a].up)
    BY <1>t, Zenon
  <1>4. PICK m : m = [link[a] EXCEPT !.up = q]
    OBVIOUS
  <1>5. /\ m \in Links /\ m.client = link[a].client /\ m.yes = link[a].yes /\ m.up = q
        /\ m.down = link[a].down /\ m.stage = link[a].stage /\ m.known = link[a].known
    BY <1>1, <1>3, <1>4 DEF Links
  <1>6. link[a] # NoLink /\ m # NoLink
    <2>1. ~NoLink.known
      BY DEF NoLink
    <2> QED
      BY <1>5, <2>1, Zenon
  <1>7. Tame(link[a], m)
    <2>1. \A i \in DOMAIN q : i + 1 \in DOMAIN link[a].up /\ q[i] = link[a].up[i + 1]
      BY <1>2, <1>t, <1>3
    <2>2. Confirms(m) => Confirms(link[a])
      BY <1>5, <2>1 DEF Confirms
    <2>3. \A n \in Nat : Accepted(m, n) => Accepted(link[a], n)
      BY <1>5 DEF Accepted
    <2> QED
      BY <1>1, <1>5, <1>6, <2>2, <2>3 DEF Tame, GoodLink
  <1>8. Consumed(a) = [link EXCEPT ![a] = m]
    BY <1>1, <1>3, <1>4 DEF Consumed
  <1>9. Consumed(a)[a] = m
    BY <1>1, <1>8
  <1> QED
    BY <1>5, <1>6, <1>7, <1>8, <1>9, TameAt

\* Requests that stay or go.
LEMMA RequestsDropped ==
  ASSUME LinksOK, ApprovedOK, TameMap(link, link'),
         request' \in [Attempts -> {"none", "requested", "confirmed"}],
         NEW a \in Attempts, request'[a] \in {request[a], "none"}
  PROVE  RequestStep(a)
  <1>1. Tame(link[a], link'[a])
    BY DEF TameMap
  <1> QED
    BY <1>1 DEF RequestStep, ApprovedOK, Tame

\* A failure is counted.
LEMMA Budget ==
  ASSUME LinksOK, used' = used \/ Fault
  PROVE  /\ used' \in [attempts : 0 .. MaxAttempts, faults : Nat]
         /\ used'.attempts = used.attempts
  <1>1. used \in [attempts : 0 .. MaxAttempts, faults : Nat]
    BY DEF LinksOK
  <1>2. CASE used' = used
    BY <1>1, <1>2
  <1>3. CASE Fault
    <2>1. used.faults + 1 \in Nat
      BY <1>1
    <2>2. PICK n \in Nat : n = used.faults + 1
      BY <2>1
    <2>3. used' = [used EXCEPT !.faults = n]
      BY <1>3, <2>2 DEF Fault
    <2> QED
      BY <1>1, <2>3
  <1> QED
    BY <1>2, <1>3

\* A step of a connection that keeps or drops requests and touches nothing else.
LEMMA Chatter ==
  ASSUME LinksOK, ApprovedOK, TameMap(link, link'),
         request' \in [Attempts -> {"none", "requested", "confirmed"}],
         \A a \in Attempts : request'[a] \in {request[a], "none"},
         used' = used \/ Fault,
         UNCHANGED <<window, store, disk, operator, enroll, config, approved, overlap>>
  PROVE  Quiet
  <1>1. \A a \in Attempts : RequestStep(a)
    BY RequestsDropped
  <1>2. /\ used' \in [attempts : 0 .. MaxAttempts, faults : Nat]
        /\ used'.attempts = used.attempts
    BY Budget
  <1>3. window' \in [open : BOOLEAN, beacon : BOOLEAN, count : Nat]
    BY DEF LinksOK
  <1> QED
    BY <1>1, <1>2, <1>3 DEF Quiet, Talk

\* The client's steps, but for the acceptance.
LEMMA ClientTalks ==
  ASSUME LinksOK, ApprovedOK, NEW a \in Attempts,
         \/ ShowCode(a) \/ StudentAnswers(a) \/ AttemptEnds(a) \/ approval_deadline(a)
         \/ Heartbeat(a)
  PROVE  Quiet
  <1>0. /\ GoodMap(link) /\ GoodLink(link[a]) /\ link[a] \in Links
        /\ link \in [Attempts -> Links]
        /\ request \in [Attempts -> {"none", "requested", "confirmed"}]
    BY DEF LinksOK, GoodMap, GoodLink
  <1>1. link[a] # NoLink
    BY DEF ShowCode, StudentAnswers, AttemptEnds, approval_deadline, Heartbeat, NoLink
  <1>2. /\ request' = request /\ (used' = used \/ Fault)
        /\ UNCHANGED <<window, store, disk, operator, enroll, config, approved, overlap>>
    BY DEF ShowCode, StudentAnswers, AttemptEnds, approval_deadline, Heartbeat
  <1>3. link[a].down \in Seq(Frames) /\ link[a].up \in Seq({"hello", "confirm", "heartbeat"})
    BY <1>0 DEF Links
  <1>4. CASE link' = Leave(link, a)
    <2>1. TameMap(link, link')
      BY <1>0, <1>1, <1>4, TameLeave
    <2> QED
      BY <1>0, <1>2, <2>1, Chatter
  <1>5. CASE ShowCode(a) /\ link' # Leave(link, a)
    <2>1. link[a].down # <<>> /\ link' = [link EXCEPT ![a].mine = "student", ![a].down = Tail(@)]
      BY <1>5 DEF ShowCode
    <2>2. Len(link[a].down) # 0 /\ Tail(link[a].down) \in Seq(Frames)
      BY <1>3, <2>1
    <2>3. PICK q \in Seq(Frames) : q = Tail(link[a].down)
      BY <2>2
    <2>4. PICK m : m = [link[a] EXCEPT !.mine = "student", !.down = q]
      OBVIOUS
    <2>5. /\ m \in Links /\ m.client = link[a].client /\ m.yes = link[a].yes
          /\ m.up = link[a].up /\ m.down = q /\ m.stage = link[a].stage
      BY <1>0, <2>3, <2>4 DEF Links
    <2>6. link' = [link EXCEPT ![a] = m]
      BY <1>0, <2>1, <2>3, <2>4
    <2>8. Tame(link[a], m)
      <3>1. Confirms(m) => Confirms(link[a])
        BY <2>5 DEF Confirms
      <3>2. \A i \in DOMAIN q : i + 1 \in DOMAIN link[a].down /\ q[i] = link[a].down[i + 1]
        BY <1>3, <2>2, <2>3
      <3>3. \A n \in Nat : Accepted(m, n) => Accepted(link[a], n)
        BY <2>5, <3>2 DEF Accepted
      <3> QED
        BY <1>0, <1>1, <2>5, <3>1, <3>3 DEF Tame, GoodLink
    <2>9. TameMap(link, link')
      BY <1>0, <2>6, <2>8, TameAt
    <2> QED
      BY <1>0, <1>2, <2>9, Chatter
  <1>6. CASE StudentAnswers(a) /\ link' # Leave(link, a)
    <2>1. link' = [link EXCEPT ![a].mine = "approval", ![a].yes = TRUE,
                               ![a].up = Append(@, "confirm")]
      BY <1>6 DEF StudentAnswers
    <2>t. Append(link[a].up, "confirm") \in Seq({"hello", "confirm", "heartbeat"})
      BY <1>3
    <2>2. PICK q \in Seq({"hello", "confirm", "heartbeat"}) : q = Append(link[a].up, "confirm")
      BY <2>t, Zenon
    <2>3. PICK m : m = [link[a] EXCEPT !.mine = "approval", !.yes = TRUE, !.up = q]
      OBVIOUS
    <2>4. /\ m \in Links /\ m.client = link[a].client /\ m.yes
          /\ m.down = link[a].down /\ m.stage = link[a].stage
      BY <1>0, <2>2, <2>3 DEF Links
    <2>5. link' = [link EXCEPT ![a] = m]
      BY <1>0, <2>1, <2>2, <2>3
    <2>6. \A n \in Nat : Accepted(m, n) => Accepted(link[a], n)
      BY <2>4 DEF Accepted
    <2>7. Tame(link[a], m)
      BY <1>0, <1>1, <2>4, <2>6 DEF Tame, GoodLink
    <2>8. TameMap(link, link')
      BY <1>0, <2>5, <2>7, TameAt
    <2> QED
      BY <1>0, <1>2, <2>8, Chatter
  <1>7. CASE Heartbeat(a)
    <2>1. link' = [link EXCEPT ![a].up = <<"heartbeat">>]
      BY <1>7 DEF Heartbeat
    <2>2. <<"heartbeat">> \in Seq({"hello", "confirm", "heartbeat"})
      OBVIOUS
    <2>3. PICK q \in Seq({"hello", "confirm", "heartbeat"}) : q = <<"heartbeat">>
      BY <2>2, Zenon
    <2>4. PICK m : m = [link[a] EXCEPT !.up = q]
      OBVIOUS
    <2>5. /\ m \in Links /\ m.client = link[a].client /\ m.yes = link[a].yes /\ m.up = q
          /\ m.down = link[a].down /\ m.stage = link[a].stage
      BY <1>0, <2>3, <2>4 DEF Links
    <2>6. link' = [link EXCEPT ![a] = m]
      BY <1>0, <2>1, <2>3, <2>4
    <2>7. ~Confirms(m)
      BY <2>3, <2>5 DEF Confirms
    <2>8. \A n \in Nat : Accepted(m, n) => Accepted(link[a], n)
      BY <2>5 DEF Accepted
    <2>9. Tame(link[a], m)
      BY <1>0, <1>1, <2>5, <2>7, <2>8 DEF Tame, GoodLink
    <2>10. TameMap(link, link')
      BY <1>0, <2>6, <2>9, TameAt
    <2> QED
      BY <1>0, <1>2, <2>10, Chatter
  <1>8. CASE AttemptEnds(a) \/ approval_deadline(a)
    BY <1>4, <1>8 DEF AttemptEnds, approval_deadline
  <1> QED
    BY <1>4, <1>5, <1>6, <1>7, <1>8

\* The server's steps on a connection: the hello, the offer, the confirmation,
\* heartbeats and the end.
LEMMA ServerTalks ==
  ASSUME LinksOK, ApprovedOK, NEW a \in Attempts, Server(a)
  PROVE  Quiet
  <1>0. /\ GoodMap(link) /\ GoodLink(link[a]) /\ link[a] \in Links
        /\ link \in [Attempts -> Links]
        /\ request \in [Attempts -> {"none", "requested", "confirmed"}]
        /\ window \in [open : BOOLEAN, beacon : BOOLEAN, count : Nat]
    BY DEF LinksOK, GoodMap, GoodLink
  <1>1. link[a] # NoLink
    <2>1. /\ NoLink.stage = "initial" /\ ~NoLink.known /\ ~NoLink.open
      BY DEF NoLink
    <2>2. link[a].stage # "initial" \/ link[a].known \/ link[a].open
      BY DEF Server, derive_pairing_secrets, process_pairing_hello, send_offer,
         process_pairing_confirm, process_pairing_wait, ConnectionCloses, on_disconnected,
         Received
    <2> QED
      BY <2>1, <2>2, Zenon
  <1>2. UNCHANGED <<window, store, disk, operator, enroll, config, approved, overlap>>
    BY DEF Server, derive_pairing_secrets, process_pairing_hello, send_offer,
       process_pairing_confirm, process_pairing_wait, ConnectionCloses, on_disconnected
  <1>3. CASE derive_pairing_secrets(a)
    <2>1. /\ link[a].known /\ link[a].up # <<>> /\ link[a].stage = "initial"
          /\ link' = [Consumed(a) EXCEPT ![a].stage = "deriving"] /\ UNCHANGED <<request, used>>
      BY <1>3 DEF derive_pairing_secrets, Received
    <2>2. PICK u : u = Consumed(a)
      OBVIOUS
    <2>3. TameMap(link, u) /\ GoodMap(u) /\ u[a] # NoLink /\ u[a].stage = "initial"
      BY <1>0, <2>1, <2>2, TameConsumed
    <2>4. link' = [u EXCEPT ![a].stage = "deriving"]
      BY <2>1, <2>2
    <2>5. TameMap(u, link')
      BY <2>3, <2>4, TameStage
    <2>6. TameMap(link, link')
      BY <2>3, <2>5, TameMapTrans
    <2> QED
      BY <1>0, <1>2, <2>1, <2>6, Chatter
  <1>4. CASE process_pairing_hello(a) /\ request' = request
    <2>1. link[a].stage = "deriving" /\ UNCHANGED used
      BY <1>4 DEF process_pairing_hello
    <2>2. request[a] = "none"
      BY <2>1 DEF ApprovedOK
    <2>3. link' = refuse_pairing(link, a)
      BY <1>0, <1>4, <2>2 DEF process_pairing_hello
    <2>4. TameMap(link, link')
      BY <1>0, <1>1, <2>3, TameRefuse
    <2> QED
      BY <1>0, <1>2, <1>4, <2>1, <2>4, Chatter
  <1>5. CASE process_pairing_hello(a) /\ request' # request
    <2>1. /\ link[a].stage = "deriving" /\ UNCHANGED used
          /\ request' = [request EXCEPT ![a] = "requested"]
          /\ link' = [link EXCEPT ![a].stage = "offering", ![a].window = window.count]
      BY <1>5 DEF process_pairing_hello
    <2>2. PICK w \in Nat : w = window.count
      BY <1>0
    <2>3. TameMap(link, link') /\ link'[a].stage = "offering"
      <3>1. PICK m : m = [link[a] EXCEPT !.stage = "offering", !.window = w]
        OBVIOUS
      <3>2. /\ m \in Links /\ m.client = link[a].client /\ m.yes = link[a].yes
            /\ m.up = link[a].up /\ m.down = link[a].down /\ m.stage = "offering"
        BY <1>0, <3>1 DEF Links
      <3>3. link' = [link EXCEPT ![a] = m]
        BY <1>0, <2>1, <2>2, <3>1
      <3>4. Confirms(m) => Confirms(link[a])
        BY <3>2 DEF Confirms
      <3>5. \A n \in Nat : Accepted(m, n) => Accepted(link[a], n)
        BY <3>2 DEF Accepted
      <3>6. Tame(link[a], m)
        BY <1>0, <1>1, <3>2, <3>4, <3>5 DEF Tame, GoodLink
      <3>7. link'[a] = m
        BY <1>0, <3>3
      <3> QED
        BY <1>0, <3>2, <3>3, <3>6, <3>7, TameAt
    <2>4. request' \in [Attempts -> {"none", "requested", "confirmed"}]
      BY <1>0, <2>1
    <2>5. \A b \in Attempts : RequestStep(b)
      <3>1. RequestStep(a)
        BY <1>0, <2>1, <2>3 DEF RequestStep
      <3>2. \A b \in Attempts : b # a => request'[b] = request[b]
        BY <1>0, <2>1
      <3> QED
        BY <2>3, <2>4, <3>1, <3>2, RequestsDropped
    <2> QED
      BY <1>0, <1>2, <2>1, <2>3, <2>4, <2>5 DEF Quiet, Talk, LinksOK
  <1>6. CASE send_offer(a) /\ link[a].open
    <2>1. /\ link' = [Send(link, a, Frame("offer")) EXCEPT ![a].stage = "offered"]
          /\ UNCHANGED <<request, used>>
      BY <1>6 DEF send_offer
    <2>2. PICK u : u = Send(link, a, Frame("offer"))
      OBVIOUS
    <2>3. TameMap(link, u) /\ GoodMap(u)
      BY <1>0, <2>2, TameSend
    <2>4. u[a].open
      BY <1>0, <1>6, <2>2 DEF Send, Links
    <2>5. u[a] # NoLink
      BY <2>4 DEF NoLink
    <2>6. link' = [u EXCEPT ![a].stage = "offered"]
      BY <2>1, <2>2
    <2>7. TameMap(u, link')
      BY <2>3, <2>5, <2>6, TameStage
    <2>8. TameMap(link, link')
      BY <2>3, <2>7, TameMapTrans
    <2> QED
      BY <1>0, <1>2, <2>1, <2>8, Chatter
  <1>7. CASE \/ send_offer(a) /\ ~link[a].open
             \/ on_disconnected(a)
    <2>1. PICK m : /\ m \in {[link[a] EXCEPT !.stage = "failed"],
                             [link[a] EXCEPT !.known = FALSE, !.up = <<>>]}
                   /\ link' = [link EXCEPT ![a] = Rest(m)]
      BY <1>7, Zenon DEF send_offer, on_disconnected
    <2>2. request' = [request EXCEPT ![a] = "none"] /\ UNCHANGED used
      BY <1>7 DEF send_offer, on_disconnected
    <2>3. <<>> \in Seq({"hello", "confirm", "heartbeat"})
      OBVIOUS
    <2>4. /\ m \in Links /\ m.client = link[a].client /\ m.yes = link[a].yes
          /\ m.up \in {link[a].up, <<>>} /\ m.down = link[a].down
          /\ m.stage \in {"initial", "deriving"} => link[a].stage \in {"initial", "deriving"}
      <3>1. CASE m = [link[a] EXCEPT !.stage = "failed"]
        BY <1>0, <3>1 DEF Links
      <3>2. CASE m = [link[a] EXCEPT !.known = FALSE, !.up = <<>>]
        BY <1>0, <2>3, <3>2 DEF Links
      <3> QED
        BY <2>1, <3>1, <3>2
    <2>5. Confirms(m) => Confirms(link[a])
      BY <2>4 DEF Confirms
    <2>6. \A n \in Nat : Accepted(m, n) => Accepted(link[a], n)
      BY <2>4 DEF Accepted
    <2>7. Tame(link[a], m)
      BY <1>0, <1>1, <2>4, <2>5, <2>6 DEF Tame, GoodLink
    <2>8. TameMap(link, link')
      <3>1. CASE m # NoLink
        <4>1. Tame(m, Rest(m))
          BY <2>7, <3>1, TameRest DEF Tame
        <4>2. Tame(link[a], Rest(m))
          BY <2>7, <4>1, TameTrans
        <4> QED
          BY <1>0, <2>1, <4>2, TameAt
      <3>2. CASE m = NoLink
        <4>1. Rest(m) = m
          BY <3>2 DEF Rest, NoLink
        <4> QED
          BY <1>0, <2>1, <2>7, <4>1, TameAt
      <3> QED
        BY <3>1, <3>2
    <2>9. /\ request' \in [Attempts -> {"none", "requested", "confirmed"}]
          /\ \A b \in Attempts : request'[b] \in {request[b], "none"}
      BY <1>0, <2>2
    <2> QED
      BY <1>0, <1>2, <2>2, <2>8, <2>9, Chatter
  <1>8. CASE process_pairing_confirm(a)
    <2>1. /\ link[a].known /\ link[a].up # <<>> /\ Head(link[a].up) = "confirm"
          /\ UNCHANGED used
      BY <1>8 DEF process_pairing_confirm, Received
    <2>2. PICK u : u = Consumed(a)
      OBVIOUS
    <2>3. /\ TameMap(link, u) /\ GoodMap(u) /\ u[a] # NoLink /\ u[a].yes = link[a].yes
      BY <1>0, <2>1, <2>2, TameConsumed
    <2>4. CASE request[a] = "none"
      <3>1. link' = Disconnect(u, a) /\ request' = request
        BY <1>8, <2>2, <2>4 DEF process_pairing_confirm
      <3>2. TameMap(u, link')
        BY <2>3, <3>1, TameDisconnect
      <3>3. TameMap(link, link')
        BY <2>3, <3>2, TameMapTrans
      <3> QED
        BY <1>0, <1>2, <2>1, <3>1, <3>3, Chatter
    <2>5. CASE request[a] # "none"
      <3>1. /\ link' = [u EXCEPT ![a].stage = "pending"]
            /\ request' = [request EXCEPT ![a] = "confirmed"]
        BY <1>8, <2>2, <2>5 DEF process_pairing_confirm
      <3>2. link[a].yes
        <4>1. link[a].up \in Seq({"hello", "confirm", "heartbeat"})
          BY <1>0 DEF Links
        <4>2. 1 \in DOMAIN link[a].up /\ link[a].up[1] = "confirm"
          BY <2>1, <4>1
        <4> QED
          BY <1>0, <4>2 DEF GoodLink, Confirms
      <3>v. PICK v : v = link'
        OBVIOUS
      <3>w. v = [u EXCEPT ![a].stage = "pending"]
        BY <3>1, <3>v
      <3>t. TameMap(u, v)
        BY <2>3, <3>w, TameStage
      <3>x. v[a].stage = "pending"
        BY <2>3, <3>w, TameStage
      <3>3. TameMap(u, link') /\ link'[a].stage = "pending"
        BY <3>v, <3>t, <3>x
      <3>4. TameMap(link, link')
        BY <2>3, <3>3, TameMapTrans
      <3>5. request' \in [Attempts -> {"none", "requested", "confirmed"}]
        BY <1>0, <3>1
      <3>6. link'[a].yes
        BY <3>2, <3>4 DEF TameMap, Tame
      <3>7. \A b \in Attempts : RequestStep(b)
        <4>1. RequestStep(a)
          BY <1>0, <2>5, <3>1, <3>3, <3>6 DEF RequestStep
        <4>2. \A b \in Attempts : b # a => request'[b] = request[b]
          BY <1>0, <3>1
        <4> QED
          BY <3>4, <3>5, <4>1, <4>2, RequestsDropped
      <3> QED
        BY <1>0, <1>2, <2>1, <3>4, <3>5, <3>7 DEF Quiet, Talk, LinksOK
    <2> QED
      BY <2>4, <2>5
  <1>9. CASE process_pairing_wait(a)
    <2>1. /\ link[a].known /\ link[a].up # <<>> /\ UNCHANGED <<request, used>>
          /\ link' \in {Consumed(a), Disconnect(Consumed(a), a)}
      BY <1>9 DEF process_pairing_wait
    <2>2. PICK u : u = Consumed(a)
      OBVIOUS
    <2>3. /\ TameMap(link, u) /\ GoodMap(u) /\ u[a] # NoLink
      BY <1>0, <2>1, <2>2, TameConsumed
    <2>4. TameMap(u, Disconnect(u, a))
      BY <2>3, TameDisconnect
    <2>5. TameMap(link, Disconnect(u, a))
      BY <2>3, <2>4, TameMapTrans
    <2>6. TameMap(link, link')
      BY <2>1, <2>2, <2>3, <2>5
    <2> QED
      BY <1>0, <1>2, <2>1, <2>6, Chatter
  <1>10. CASE ConnectionCloses(a)
    <2>1. link' = [link EXCEPT ![a].open = FALSE] /\ request' = request /\ (used' = used \/ Fault)
      BY <1>10 DEF ConnectionCloses
    <2>2. PICK m : m = [link[a] EXCEPT !.open = FALSE]
      OBVIOUS
    <2>3. /\ m \in Links /\ m.client = link[a].client /\ m.yes = link[a].yes /\ m.up = link[a].up
          /\ m.down = link[a].down /\ m.stage = link[a].stage
      BY <1>0, <2>2 DEF Links
    <2>4. link' = [link EXCEPT ![a] = m]
      BY <1>0, <2>1, <2>2
    <2>5. Confirms(m) => Confirms(link[a])
      BY <2>3 DEF Confirms
    <2>6. \A n \in Nat : Accepted(m, n) => Accepted(link[a], n)
      BY <2>3 DEF Accepted
    <2>7. Tame(link[a], m)
      BY <1>0, <1>1, <2>3, <2>5, <2>6 DEF Tame, GoodLink
    <2>8. TameMap(link, link')
      BY <1>0, <2>4, <2>7, TameAt
    <2> QED
      BY <1>0, <1>2, <2>1, <2>8, Chatter
  <1> QED
    BY <1>3, <1>4, <1>5, <1>6, <1>7, <1>8, <1>9, <1>10 DEF Server

\* The teacher's steps that approve nothing.
LEMMA TeacherTalks ==
  ASSUME LinksOK, ApprovedOK,
         \/ \E open \in BOOLEAN : set_pairing_beacon(open)
         \/ set_pairing_window \/ expire_pending_pairings
         \/ \E a \in Attempts : reject_pairing(a)
  PROVE  Quiet
  <1>0. /\ GoodMap(link) /\ link \in [Attempts -> Links]
        /\ request \in [Attempts -> {"none", "requested", "confirmed"}]
        /\ window \in [open : BOOLEAN, beacon : BOOLEAN, count : Nat]
        /\ TameMap(link, link)
    BY TameMapSame DEF LinksOK, GoodMap, GoodLink
  <1>1. UNCHANGED <<store, disk, enroll, config, approved, overlap, used>>
    BY DEF set_pairing_beacon, set_pairing_window, expire_pending_pairings, reject_pairing
  <1>2. CASE \E open \in BOOLEAN : set_pairing_beacon(open)
    <2>1. PICK open \in BOOLEAN : set_pairing_beacon(open)
      BY <1>2
    <2>2. PICK n \in Nat : n \in {window.count, window.count + 1}
                           /\ window' = [window EXCEPT !.beacon = open, !.count = n]
      <3>1. window.count \in Nat /\ window.count + 1 \in Nat
        BY <1>0
      <3> QED
        BY <2>1, <3>1 DEF set_pairing_beacon
    <2>3. window' \in [open : BOOLEAN, beacon : BOOLEAN, count : Nat]
      BY <1>0, <2>2
    <2>4. UNCHANGED <<link, request>> /\ operator' = [Idle EXCEPT !.step = "window"]
      BY <2>1 DEF set_pairing_beacon
    <2>5. /\ operator' \in Tasks /\ operator'.step \in {"idle", "window"}
          /\ operator'.previous = {} /\ operator'.image = {}
      BY <2>4, AtRest
    <2>6. \A a \in Attempts : RequestStep(a)
      BY <1>0, <2>4, RequestsDropped
    <2> QED
      BY <1>0, <1>1, <2>3, <2>4, <2>5, <2>6 DEF Quiet, Talk, LinksOK
  <1>3. CASE set_pairing_window
    <2>1. /\ window' = [window EXCEPT !.open = window.beacon] /\ operator' = Idle
          /\ \/ UNCHANGED <<link, request>>
             \/ /\ request' = [a \in Attempts |-> "none"]
                /\ link' = refuse_abandoned(link, Pending)
      BY <1>3 DEF set_pairing_window
    <2>2. window' \in [open : BOOLEAN, beacon : BOOLEAN, count : Nat]
      BY <1>0, <2>1
    <2>3. /\ operator' \in Tasks /\ operator'.step \in {"idle", "window"}
          /\ operator'.previous = {} /\ operator'.image = {}
      BY <2>1, AtRest
    <2>4. TameMap(link, refuse_abandoned(link, Pending))
      BY <1>0, TameAbandoned
    <2>5. TameMap(link, link')
      BY <1>0, <2>1, <2>4
    <2>6. /\ request' \in [Attempts -> {"none", "requested", "confirmed"}]
          /\ \A a \in Attempts : request'[a] \in {request[a], "none"}
      BY <1>0, <2>1
    <2>7. \A a \in Attempts : RequestStep(a)
      BY <2>5, <2>6, RequestsDropped
    <2> QED
      BY <1>1, <2>2, <2>3, <2>5, <2>6, <2>7 DEF Quiet, Talk, LinksOK
  <1>4. CASE expire_pending_pairings
    <2>1. PICK a \in Pending : /\ request' = [request EXCEPT ![a] = "none"]
                               /\ link' = refuse_abandoned(link, {a})
      BY <1>4 DEF expire_pending_pairings
    <2>2. UNCHANGED <<window, operator>>
      BY <1>4 DEF expire_pending_pairings
    <2>3. TameMap(link, link')
      BY <1>0, <2>1, TameAbandoned
    <2>4. /\ request' \in [Attempts -> {"none", "requested", "confirmed"}]
          /\ \A b \in Attempts : request'[b] \in {request[b], "none"}
      BY <1>0, <2>1
    <2> QED
      BY <1>1, <2>2, <2>3, <2>4, Chatter
  <1>5. CASE \E a \in Attempts : reject_pairing(a)
    <2>1. PICK a \in Attempts : reject_pairing(a)
      BY <1>5
    <2>2. /\ request' = [request EXCEPT ![a] = "none"] /\ UNCHANGED <<window, operator>>
          /\ link' = settle_pairing_connection(Send(link, a, Frame("reject")), a)
      BY <2>1 DEF reject_pairing
    <2>3. TameMap(link, link')
      BY <1>0, <2>2, TameReject
    <2>4. /\ request' \in [Attempts -> {"none", "requested", "confirmed"}]
          /\ \A b \in Attempts : request'[b] \in {request[b], "none"}
      BY <1>0, <2>2
    <2> QED
      BY <1>1, <2>2, <2>3, <2>4, Chatter
  <1> QED
    BY <1>2, <1>3, <1>4, <1>5

-----------------------------------------------------------------------------
(* The steps that touch the keys.                                           *)

\* What is handed out afterwards was so before or is in X.
LEMMA HandedWithin ==
  ASSUME NEW X, \A a \in Attempts : link'[a].client = link[a].client,
         \A k : Superseded(k) => Superseded(k)',
         \A k \in Attempts, n \in Nat :
            Claimed(k, n)' => Claimed(k, n) \/ Entry(link[k].client, n, k) \in X,
         TokenClaimed' => TokenClaimed \/ Token \in X
  PROVE  Handed' \subseteq Handed \cup X
  <1>4. SUFFICES ASSUME NEW e \in Handed', e \notin X PROVE e \in Handed
    OBVIOUS
  <1>5. /\ e \in Entries /\ ~e.revoked /\ e.id \in Nat
        /\ e = Entry(e.client, e.id, e.key)
    BY <1>4 DEF Handed, Entries, Entry
  <1>6. CASE e = Token /\ TokenClaimed'
    BY <1>4, <1>5, <1>6 DEF Handed
  <1>7. CASE /\ e.key \in Attempts /\ e.client = link'[e.key].client
             /\ Claimed(e.key, e.id)' /\ ~Superseded(e.key)'
    <2>1. e.client = link[e.key].client /\ ~Superseded(e.key)
      BY <1>7
    <2>2. Entry(link[e.key].client, e.id, e.key) \notin X
      BY <1>4, <1>5, <2>1
    <2>3. Claimed(e.key, e.id)
      BY <1>5, <1>7, <2>2
    <2> QED
      BY <1>5, <1>7, <2>1, <2>3 DEF Handed
  <1> QED
    BY <1>4, <1>6, <1>7 DEF Handed

\* A key that was handed out is of an approved attempt, not superseded and not
\* revoked, or the enrollment's.
LEMMA HandedIs ==
  ASSUME LinksOK, ApprovedOK, KeysOK, NEW e \in Handed
  PROVE  /\ e \in Entries /\ ~e.revoked
         /\ \/ /\ e.key \in Approved /\ e.client = link[e.key].client /\ ~Superseded(e.key)
            \/ e.client = Provisioned /\ e.key = TokenKey
  <1>1. e \in Entries /\ ~e.revoked /\ e.id \in Nat
    BY DEF Handed, Entries
  <1>2. CASE e = Token
    BY <1>1, <1>2 DEF Token, Entry
  <1>3. CASE /\ e.key \in Attempts /\ e.client = link[e.key].client
             /\ Claimed(e.key, e.id) /\ ~Superseded(e.key)
    <2>1. CASE config[link[e.key].client] = [id |-> e.id, key |-> e.key]
      <3>1. link[e.key].client \in Machines
        BY <1>3 DEF LinksOK, Links
      <3>2. config[link[e.key].client].key = e.key /\ e.key # NoKey
        BY <1>3, <2>1 DEF Attempts, NoKey
      <3>3. config[link[e.key].client] # NoConfig
        BY <3>2 DEF NoConfig
      <3> QED
        BY <1>1, <1>3, <3>1, <3>2, <3>3 DEF KeysOK, Machines
    <2>2. CASE Accepted(link[e.key], e.id)
      BY <1>1, <1>3, <2>2 DEF KeysOK
    <2>3. CASE operator.step \in {"settle", "send"} /\ operator.attempt = e.key
      BY <1>1, <1>3, <2>3 DEF ApprovedOK, Approving
    <2> QED
      BY <1>3, <2>1, <2>2, <2>3 DEF Claimed
  <1> QED
    BY <1>1, <1>2, <1>3 DEF Handed

\* Steps that leave the connections alone.
LEMMA Still ==
  ASSUME LinksOK, ApprovedOK, UNCHANGED <<link, request, window, approved>>,
         used' = used \/ Fault
  PROVE  /\ Talk /\ \A k : Superseded(k) => Superseded(k)'
         /\ \A a \in Attempts : link'[a].client = link[a].client
  <1>1. TameMap(link, link)
    BY TameMapSame DEF LinksOK, GoodMap
  <1>2. request' \in [Attempts -> {"none", "requested", "confirmed"}]
    BY DEF LinksOK
  <1>3. TameMap(link, link')
    BY <1>1
  <1>4. \A a \in Attempts : RequestStep(a)
    BY <1>2, <1>3, RequestsDropped
  <1>5. /\ used' \in [attempts : 0 .. MaxAttempts, faults : Nat]
        /\ used'.attempts = used.attempts
    BY Budget
  <1>6. Talk
    BY <1>2, <1>3, <1>4, <1>5 DEF Talk, LinksOK
  <1> QED
    BY <1>6 DEF Superseded

\* A sound copy of the keys, all of attempts of A.
Kept(s, A) == Copy(s) /\ Consented(s, A)

\* What holds keys after a step that leaves the connections and the machines alone.
LEMMA KeysStill ==
  ASSUME LinksOK, ApprovedOK, KeysOK, UNCHANGED <<link, config, approved>>,
         disk' \in SUBSET Records, operator' \in Tasks, enroll' \in Tasks,
         Kept(store', Approved), Kept(decode_keyring(disk'), Approved),
         Kept(operator'.previous, Approved), Kept(decode_keyring(operator'.image), Approved),
         Kept(enroll'.previous, Approved), Kept(decode_keyring(enroll'.image), Approved)
  PROVE  KeysOK'
  <1>1. Approved' = Approved
    BY DEF Approved
  <1>2. \A a \in Attempts : \A n \in Nat : Accepted(link'[a], n) => a \in Approved
    BY DEF KeysOK
  <1>3. \A c \in Students : \/ config'[c] = NoConfig
                            \/ config'[c].key \in Approved /\ link'[config'[c].key].client = c
    BY DEF KeysOK
  <1>4. /\ config' \in [Machines -> [id : Nat, key : Keys]]
        /\ config'[Provisioned] \in {NoConfig, [id |-> TokenId, key |-> TokenKey]}
    BY DEF KeysOK
  <1> QED
    BY <1>1, <1>2, <1>3, <1>4 DEF KeysOK, Kept

\* The copies of the keys before a step.
LEMMA KeysBefore ==
  ASSUME KeysOK
  PROVE  /\ Kept(store, Approved) /\ Kept(decode_keyring(disk), Approved)
         /\ Kept(operator.previous, Approved) /\ Kept(decode_keyring(operator.image), Approved)
         /\ Kept(enroll.previous, Approved) /\ Kept(decode_keyring(enroll.image), Approved)
         /\ Kept({}, Approved) /\ Kept(decode_keyring({}), Approved)
         /\ disk \in SUBSET Records /\ operator \in Tasks /\ enroll \in Tasks
         /\ operator.image \in SUBSET Records /\ enroll.image \in SUBSET Records
         /\ operator.previous \in SUBSET Entries /\ enroll.previous \in SUBSET Entries
         /\ store \in SUBSET Entries
  BY NothingKept DEF KeysOK, Kept, Tasks, Copy

\* An approval that ends before it rotates the key is quiet.
LEMMA ApproveFails ==
  ASSUME LinksOK, ApprovedOK, approve_fails
  PROVE  Quiet
  <1>1. /\ UNCHANGED <<link, request, window, store, disk, enroll, config, approved, overlap>>
        /\ Fault /\ operator' = Idle
    BY DEF approve_fails
  <1>2. Talk
    BY <1>1, Still
  <1> QED
    BY <1>1, <1>2, AtRest DEF Quiet

\* approve_snapshot() and approve_encode(): the store is copied.
LEMMA ApproveCopies ==
  ASSUME PairingIInv, approve_snapshot \/ approve_encode
  PROVE  PairingIInv'
  <1> USE DEF PairingIInv
  <1>0. /\ UNCHANGED <<link, request, window, store, disk, enroll, config, used, approved, overlap>>
    BY DEF approve_snapshot, approve_encode
  <1>1. /\ Talk /\ \A k : Superseded(k) => Superseded(k)'
        /\ \A a \in Attempts : link'[a].client = link[a].client
    BY <1>0, Still
  <1>2. /\ Kept(store, Approved) /\ Kept(decode_keyring(disk), Approved)
        /\ Kept(operator.previous, Approved) /\ Kept(decode_keyring(operator.image), Approved)
        /\ Kept(enroll.previous, Approved) /\ Kept(decode_keyring(enroll.image), Approved)
        /\ disk \in SUBSET Records /\ operator \in Tasks /\ enroll \in Tasks
        /\ store \in SUBSET Entries
    BY KeysBefore
  <1>3. PICK image : image = encode_keyring(store)
    OBVIOUS
  <1>4. /\ image \in SUBSET Records /\ Kept(decode_keyring(image), Approved)
        /\ \A e \in store : ~e.revoked => e \in decode_keyring(image)
    BY <1>2, <1>3, Saved DEF Kept
  <1>5. \/ /\ operator.step = "snapshot"
           /\ operator' = [operator EXCEPT !.step = "rotate", !.previous = store]
        \/ /\ operator.step = "encode"
           /\ operator' = [operator EXCEPT !.step = "write", !.image = image]
    BY <1>3 DEF approve_snapshot, approve_encode
  <1>6. /\ operator' \in Tasks /\ operator'.attempt = operator.attempt
        /\ operator'.number = operator.number
        /\ \/ /\ operator.step = "snapshot" /\ operator'.step = "rotate"
              /\ operator'.previous = store /\ operator'.image = operator.image
           \/ /\ operator.step = "encode" /\ operator'.step = "write"
              /\ operator'.previous = operator.previous /\ operator'.image = image
    <2>1. CASE /\ operator.step = "snapshot"
               /\ operator' = [operator EXCEPT !.step = "rotate", !.previous = store]
      BY <1>2, <2>1 DEF Tasks
    <2>2. CASE /\ operator.step = "encode"
               /\ operator' = [operator EXCEPT !.step = "write", !.image = image]
      BY <1>2, <1>4, <2>2 DEF Tasks
    <2> QED
      BY <1>5, <2>1, <2>2
  <1>7. LinksOK' /\ ApprovedOK' /\ Approved' = Approved
    BY <1>1, <1>6, TalkKeeps DEF Approving, Unsaved
  <1>8. KeysOK'
    <2>1. Kept(operator'.previous, Approved) /\ Kept(decode_keyring(operator'.image), Approved)
      BY <1>2, <1>4, <1>6
    <2> QED
      BY <1>0, <1>2, <1>6, <2>1, KeysStill
  <1>9. ASSUME ~overlap' PROVE KeepsOK'
    <2>0. KeepsOK
      BY <1>0, <1>9
    <2>1. TameMap(link, link')
      BY <1>1 DEF Talk
    <2>2. Handed' \subseteq Handed
      BY <1>0, <1>1, <1>6, <2>1, HandedShrinks
    <2>3. Approval' = Approval
      BY <1>0, <1>6 DEF Approval
    <2>4. operator.step \in Unsaved
      BY <1>6 DEF Unsaved
    <2>5. /\ enroll' = enroll /\ store' = store
          /\ decode_keyring(disk)' = decode_keyring(disk)
          /\ enroll.step \notin {"accept", "encode", "write"}
      BY <1>0, <2>0, <2>4 DEF KeepsOK
    <2>6. CASE operator'.step = "rotate"
      BY <1>6, <2>0, <2>2, <2>4, <2>5, <2>6 DEF KeepsOK
    <2>7. CASE operator'.step = "write"
      <3>1. operator.step = "encode" /\ operator'.previous = operator.previous
            /\ operator'.image = image
        BY <1>6, <2>7
      <3>2. Handed \subseteq store /\ Approval \in store /\ Handed \subseteq operator.previous
        BY <2>0, <3>1 DEF KeepsOK
      <3>3. ~Approval.revoked
        BY DEF Approval, Entry
      <3>4. \A e \in Handed : ~e.revoked
        BY HandedIs
      <3>5. Handed \cup {Approval} \subseteq decode_keyring(image)
        BY <1>4, <3>2, <3>3, <3>4
      <3>6. Handed' \cup {Approval'} \subseteq decode_keyring(operator'.image)
        BY <2>2, <2>3, <3>1, <3>5
      <3> QED
        BY <1>6, <2>0, <2>2, <2>3, <2>4, <2>5, <2>7, <3>1, <3>2, <3>6 DEF KeepsOK
    <2> QED
      BY <1>6, <2>6, <2>7
  <1> QED
    BY <1>7, <1>8, <1>9

\* approve_rotate(): the machine's new key, and the older ones revoked.
LEMMA ApproveRotates ==
  ASSUME PairingIInv, approve_rotate
  PROVE  PairingIInv'
  <1> USE DEF PairingIInv
  <1>0. /\ UNCHANGED <<link, request, window, disk, enroll, config, used, approved, overlap>>
        /\ operator.step = "rotate"
    BY DEF approve_rotate
  <1>1. /\ Talk /\ \A k : Superseded(k) => Superseded(k)'
        /\ \A a \in Attempts : link'[a].client = link[a].client
    BY <1>0, Still
  <1>2. /\ Kept(store, Approved) /\ Kept(decode_keyring(disk), Approved)
        /\ Kept(operator.previous, Approved) /\ Kept(decode_keyring(operator.image), Approved)
        /\ Kept(enroll.previous, Approved) /\ Kept(decode_keyring(enroll.image), Approved)
        /\ disk \in SUBSET Records /\ operator \in Tasks /\ enroll \in Tasks
    BY KeysBefore
  <1>3. PICK b : b = operator.attempt
    OBVIOUS
  <1>4. /\ b \in Approved /\ b \in Attempts /\ approved[Len(approved)] = b
        /\ b <= used.attempts
    BY <1>0, <1>3 DEF ApprovedOK, Approving, Unsaved, Approved
  <1>5. PICK c \in Students : c = link[b].client
    BY <1>4 DEF LinksOK
  <1>6. /\ store' = rotate(store, c, b)
        /\ operator' = [operator EXCEPT !.step = "encode", !.number = NextId(store, c)]
    BY <1>3, <1>5 DEF approve_rotate
  <1>7. c \in Machines /\ Copy(store) /\ Consented(store, Approved)
    BY <1>2 DEF Machines, Kept
  <1>8. NextId(store, c) \in Nat
    BY <1>7, NextIdFree
  <1>9. /\ Copy(store') /\ Consented(store', Approved)
        /\ \A e \in store : e.client # c => e \in store'
        /\ Entry(c, NextId(store, c), b) \in store'
    BY <1>4, <1>6, <1>7, Rotated
  <1>10. /\ operator' \in Tasks /\ operator'.attempt = b /\ operator'.step = "encode"
         /\ operator'.number = NextId(store, c)
         /\ operator'.previous = operator.previous /\ operator'.image = operator.image
    BY <1>2, <1>3, <1>6, <1>8 DEF Tasks
  <1>11. LinksOK' /\ ApprovedOK' /\ Approved' = Approved
    BY <1>0, <1>1, <1>3, <1>10, TalkKeeps DEF Approving, Unsaved
  <1>12. KeysOK'
    <2>1. Kept(store', Approved)
      BY <1>9 DEF Kept
    <2> QED
      BY <1>0, <1>2, <1>10, <2>1, KeysStill
  <1>13. ASSUME ~overlap' PROVE KeepsOK'
    <2>0. KeepsOK
      BY <1>0, <1>13
    <2>1. TameMap(link, link')
      BY <1>1 DEF Talk
    <2>2. Handed' \subseteq Handed
      BY <1>0, <1>1, <1>10, <2>1, HandedShrinks
    <2>3. Approval' \in store'
      BY <1>0, <1>5, <1>9, <1>10 DEF Approval
    <2>4. \A e \in Handed : e.client # c
      <3>1. TAKE e \in Handed
      <3>2. CASE e.client = Provisioned
        BY <1>5, <3>2, PairingAssumption
      <3>3. CASE e.key \in Approved /\ e.client = link[e.key].client /\ ~Superseded(e.key)
        <4>1. e.key # b
          BY <1>0, <1>3, <2>0 DEF KeepsOK, Unsaved
        <4>2. PICK i \in DOMAIN approved : approved[i] = e.key
          BY <3>3 DEF Approved
        <4>3. /\ approved \in Seq(Attempts) /\ Len(approved) \in DOMAIN approved
              /\ i \in 1 .. Len(approved) /\ i # Len(approved)
          BY <1>4, <4>1, <4>2 DEF ApprovedOK
        <4>4. i < Len(approved)
          BY <4>3
        <4>5. link[approved[Len(approved)]].client = c
          BY <1>4, <1>5
        <4>6. link[e.key].client # c
          BY <3>3, <4>2, <4>3, <4>4, <4>5 DEF Superseded
        <4> QED
          BY <3>3, <4>6
      <3> QED
        BY <3>2, <3>3, HandedIs
    <2>5. Handed \subseteq store'
      BY <1>9, <2>0, <2>4 DEF KeepsOK
    <2>6. /\ enroll' = enroll /\ decode_keyring(disk)' = decode_keyring(disk)
          /\ enroll.step \notin {"accept", "encode", "write"}
      BY <1>0, <2>0 DEF KeepsOK, Unsaved
    <2>7. \A e \in Handed : e.key # operator'.attempt
      BY <1>0, <1>3, <1>10, <2>0 DEF KeepsOK, Unsaved
    <2>8. Handed \subseteq operator'.previous /\ Handed \subseteq decode_keyring(disk)
      BY <1>0, <1>10, <2>0 DEF KeepsOK
    <2> QED
      BY <1>10, <2>2, <2>3, <2>5, <2>6, <2>7, <2>8 DEF KeepsOK
  <1> QED
    BY <1>11, <1>12, <1>13

\* What holds keys after a step that hands out none.
LEMMA KeysMoved ==
  ASSUME LinksOK, ApprovedOK, KeysOK, TameMap(link, link'), UNCHANGED config,
         Approved \subseteq Approved',
         disk' \in SUBSET Records, operator' \in Tasks, enroll' \in Tasks,
         Kept(store', Approved'), Kept(decode_keyring(disk'), Approved'),
         Kept(operator'.previous, Approved'), Kept(decode_keyring(operator'.image), Approved'),
         Kept(enroll'.previous, Approved'), Kept(decode_keyring(enroll'.image), Approved')
  PROVE  KeysOK'
  <1>1. /\ config' \in [Machines -> [id : Nat, key : Keys]]
        /\ \A a \in Attempts : \A n \in Nat : Accepted(link'[a], n) => a \in Approved'
        /\ \A c \in Students : \/ config'[c] = NoConfig
                               \/ config'[c].key \in Approved'
                                    /\ link'[config'[c].key].client = c
        /\ config'[Provisioned] \in {NoConfig, [id |-> TokenId, key |-> TokenKey]}
    BY ConfigsKept
  <1> QED
    BY <1>1 DEF KeysOK, Kept

\* approve_pairing(): one more approved attempt, of which nothing was handed out.
LEMMA ApproveBegins ==
  ASSUME PairingIInv, NEW a \in Attempts, approve_pairing(a)
  PROVE  PairingIInv'
  <1> USE DEF PairingIInv
  <1>0. /\ UNCHANGED <<link, window, store, disk, enroll, config, used>>
        /\ request[a] = "confirmed" /\ approved' = Append(approved, a)
        /\ request' = [request EXCEPT ![a] = "none"]
        /\ operator' = [Idle EXCEPT !.step = "snapshot", !.attempt = a]
        /\ ~overlap' => ~overlap /\ enroll.step \notin {"accept", "encode", "write"}
    BY DEF approve_pairing
  <1>1. /\ operator' \in Tasks /\ operator'.step = "snapshot" /\ operator'.attempt = a
        /\ operator'.previous = {} /\ operator'.image = {}
    <2>1. a \in Nat /\ Idle \in Tasks
      BY AtRest DEF Attempts
    <2>2. Idle.previous = {} /\ Idle.image = {}
      BY AtRest
    <2> QED
      BY <1>0, <2>1, <2>2 DEF Tasks
  <1>2. /\ approved \in Seq(Attempts) /\ approved' \in Seq(Attempts)
        /\ Len(approved') = Len(approved) + 1 /\ approved'[Len(approved')] = a
        /\ \A i \in DOMAIN approved : approved'[i] = approved[i]
        /\ DOMAIN approved' = DOMAIN approved \cup {Len(approved')}
    BY <1>0 DEF ApprovedOK
  <1>3. Approved' = Approved \cup {a}
    BY <1>2 DEF Approved
  <1>4. a \notin Approved /\ a <= used.attempts /\ link[a].yes
        /\ link[a].stage \notin {"initial", "deriving"}
    <2>1. used.attempts \in Nat
      BY DEF LinksOK
    <2> QED
      BY <1>0, <2>1 DEF ApprovedOK, LinksOK, Attempts
  <1>5. /\ request' \in [Attempts -> {"none", "requested", "confirmed"}]
        /\ request'[a] = "none" /\ \A b \in Attempts : b # a => request'[b] = request[b]
    BY <1>0 DEF LinksOK
  <1>6. LinksOK'
    BY <1>0, <1>5 DEF LinksOK
  <1>7. ApprovedOK'
    <2>1. \A b \in Approved' : b <= used'.attempts /\ link'[b].yes
      BY <1>0, <1>3, <1>4 DEF ApprovedOK
    <2>2. \A b \in Attempts : request'[b] = "confirmed" => link'[b].yes
      BY <1>0, <1>5 DEF ApprovedOK
    <2>3. \A b \in Attempts : request'[b] # "none" => b \notin Approved'
      BY <1>3, <1>5 DEF ApprovedOK
    <2>4. \A b \in Attempts : link'[b].stage \in {"initial", "deriving"} =>
                                 b \notin Approved' /\ request'[b] = "none"
      BY <1>0, <1>3, <1>4, <1>5 DEF ApprovedOK
    <2>5. a \in Approved'
      BY <1>3
    <2> QED
      BY <1>1, <1>2, <2>1, <2>2, <2>3, <2>4, <2>5 DEF ApprovedOK
  <1>8. TameMap(link, link')
    <2>1. TameMap(link, link)
      BY TameMapSame DEF LinksOK, GoodMap
    <2> QED
      BY <1>0, <2>1
  <1>9. /\ Kept(store, Approved) /\ Kept(decode_keyring(disk), Approved)
        /\ Kept(enroll.previous, Approved) /\ Kept(decode_keyring(enroll.image), Approved)
        /\ Kept({}, Approved) /\ Kept(decode_keyring({}), Approved)
        /\ disk \in SUBSET Records /\ enroll \in Tasks
    BY KeysBefore
  <1>10. \A s : Kept(s, Approved) => Kept(s, Approved')
    BY <1>3 DEF Kept, Consented
  <1>11. KeysOK'
    <2>1. Kept(operator'.previous, Approved') /\ Kept(decode_keyring(operator'.image), Approved')
      BY <1>1, <1>9, <1>10
    <2>2. Kept(store', Approved') /\ Kept(decode_keyring(disk'), Approved')
      BY <1>0, <1>9, <1>10
    <2>3. Kept(enroll'.previous, Approved') /\ Kept(decode_keyring(enroll'.image), Approved')
      BY <1>0, <1>9, <1>10
    <2>4. disk' \in SUBSET Records /\ enroll' \in Tasks
      BY <1>0, <1>9
    <2>5. Approved \subseteq Approved' /\ UNCHANGED config
      BY <1>0, <1>3
    <2> QED
      BY <1>1, <1>8, <2>1, <2>2, <2>3, <2>4, <2>5, KeysMoved
  <1>12. ASSUME ~overlap' PROVE KeepsOK'
    <2>0. KeepsOK /\ enroll.step \notin {"accept", "encode", "write"}
      BY <1>0, <1>12
    <2>1. \A k : Superseded(k) => Superseded(k)'
      <3>1. Len(approved) <= Len(approved') /\ ApprovedOK
        BY <1>2
      <3>2. \A b \in Approved : link'[b].client = link[b].client
        BY <1>0
      <3> QED
        BY <1>2, <3>1, <3>2, SupersededStays
    <2>2. Handed' \subseteq Handed
      BY <1>0, <1>1, <1>8, <2>1, HandedShrinks
    <2>3. TokenKey # a
      BY PairingAssumption DEF TokenKey, Attempts
    <2>4. \A e \in Handed : e.key # a
      BY <1>4, <2>3, HandedIs
    <2>5. /\ enroll' = enroll /\ store' = store
          /\ decode_keyring(disk)' = decode_keyring(disk)
      BY <1>0
    <2> QED
      BY <1>1, <2>0, <2>2, <2>4, <2>5 DEF KeepsOK
  <1> QED
    BY <1>6, <1>7, <1>11, <1>12

\* approve_write(): the file is replaced and the key is about to be handed out,
\* or the store goes back to its copy.
LEMMA ApproveWrites ==
  ASSUME PairingIInv, approve_write
  PROVE  PairingIInv'
  <1> USE DEF PairingIInv
  <1>0. /\ UNCHANGED <<link, request, window, enroll, config, approved, overlap>>
        /\ operator.step = "write" /\ (used' = used \/ Fault)
        /\ \/ /\ disk' = operator.image /\ store' = store
              /\ operator' = [operator EXCEPT !.step = "settle", !.previous = {}, !.image = {}]
           \/ disk' = disk /\ store' = operator.previous /\ operator' = Idle
    BY DEF approve_write, save_machine_secret
  <1>1. /\ Talk /\ \A k : Superseded(k) => Superseded(k)'
        /\ \A a \in Attempts : link'[a].client = link[a].client
    BY <1>0, Still
  <1>2. /\ Kept(store, Approved) /\ Kept(decode_keyring(disk), Approved)
        /\ Kept(operator.previous, Approved) /\ Kept(decode_keyring(operator.image), Approved)
        /\ Kept(enroll.previous, Approved) /\ Kept(decode_keyring(enroll.image), Approved)
        /\ Kept({}, Approved) /\ Kept(decode_keyring({}), Approved)
        /\ disk \in SUBSET Records /\ operator \in Tasks /\ enroll \in Tasks
        /\ operator.image \in SUBSET Records
    BY KeysBefore
  <1>3. /\ operator' \in Tasks /\ operator'.previous = {} /\ operator'.image = {}
        /\ \/ /\ disk' = operator.image /\ store' = store /\ operator'.step = "settle"
              /\ operator'.attempt = operator.attempt /\ operator'.number = operator.number
           \/ disk' = disk /\ store' = operator.previous /\ operator'.step = "idle"
    <2>1. CASE operator' = Idle /\ disk' = disk /\ store' = operator.previous
      BY <2>1, AtRest
    <2>2. CASE /\ disk' = operator.image /\ store' = store
               /\ operator' = [operator EXCEPT !.step = "settle", !.previous = {}, !.image = {}]
      <3>1. {} \in SUBSET Entries /\ {} \in SUBSET Records
        OBVIOUS
      <3> QED
        BY <1>2, <2>2, <3>1 DEF Tasks
    <2> QED
      BY <1>0, <2>1, <2>2
  <1>4. LinksOK' /\ ApprovedOK' /\ Approved' = Approved
    BY <1>0, <1>1, <1>3, TalkKeeps DEF Approving, Unsaved
  <1>5. KeysOK'
    <2>1. /\ Kept(store', Approved) /\ Kept(decode_keyring(disk'), Approved)
          /\ disk' \in SUBSET Records
      BY <1>2, <1>3
    <2>2. /\ Kept(operator'.previous, Approved) /\ Kept(decode_keyring(operator'.image), Approved)
      BY <1>2, <1>3
    <2> QED
      BY <1>0, <1>2, <1>3, <2>1, <2>2, KeysStill
  <1>6. ASSUME ~overlap' PROVE KeepsOK'
    <2>0. /\ KeepsOK /\ enroll' = enroll /\ enroll.step \notin {"accept", "encode", "write"}
      BY <1>0, <1>6 DEF KeepsOK, Unsaved
    <2>1. TokenClaimed' => TokenClaimed
      BY <1>0 DEF TokenClaimed
    <2>2. CASE operator'.step = "settle"
      <3>1. /\ disk' = operator.image /\ store' = store
            /\ operator'.attempt = operator.attempt /\ operator'.number = operator.number
        BY <1>3, <2>2
      <3>2. \A k \in Attempts, n \in Nat :
               Claimed(k, n)' => Claimed(k, n) \/ Entry(link[k].client, n, k) \in {Approval}
        BY <1>0, <3>1 DEF Claimed, Approval
      <3>3. Handed' \subseteq Handed \cup {Approval}
        BY <1>1, <2>1, <3>2, HandedWithin
      <3>4. Handed \cup {Approval} \subseteq store
        BY <1>0, <2>0 DEF KeepsOK
      <3>5. Handed \cup {Approval} \subseteq decode_keyring(disk')
        BY <1>0, <2>0, <3>1 DEF KeepsOK
      <3>6. Handed' \subseteq store' /\ Handed' \subseteq decode_keyring(disk')
        BY <3>1, <3>3, <3>4, <3>5
      <3> QED
        BY <2>0, <2>2, <3>6 DEF KeepsOK, Unsaved
    <2>3. CASE operator'.step = "idle"
      <3>1. disk' = disk /\ store' = operator.previous
        BY <1>3, <2>3
      <3>2. TameMap(link, link')
        BY <1>1 DEF Talk
      <3>3. Handed' \subseteq Handed
        BY <1>0, <1>1, <2>3, <3>2, HandedShrinks
      <3>4. Handed \subseteq operator.previous /\ Handed \subseteq decode_keyring(disk)
        BY <1>0, <2>0 DEF KeepsOK
      <3>5. Handed' \subseteq store' /\ Handed' \subseteq decode_keyring(disk')
        BY <3>1, <3>3, <3>4
      <3> QED
        BY <2>0, <2>3, <3>5 DEF KeepsOK, Unsaved
    <2> QED
      BY <1>3, <2>2, <2>3
  <1> QED
    BY <1>4, <1>5, <1>6

\* approve_settle(): the request is settled.
LEMMA ApproveSettles ==
  ASSUME PairingIInv, approve_settle
  PROVE  PairingIInv'
  <1> USE DEF PairingIInv
  <1>0. /\ UNCHANGED <<request, window, store, disk, enroll, config, used, approved, overlap>>
        /\ operator.step = "settle" /\ operator' = [operator EXCEPT !.step = "send"]
        /\ link' = settle_pairing_connection(link, operator.attempt)
    BY DEF approve_settle
  <1>1. operator.attempt \in Approved /\ operator.attempt \in Attempts
    BY <1>0 DEF ApprovedOK, Approving, Approved
  <1>2. TameMap(link, link')
    <2>1. GoodMap(link)
      BY DEF LinksOK, GoodMap
    <2> QED
      BY <1>0, <1>1, <2>1, TameSettle
  <1>3. /\ request' \in [Attempts -> {"none", "requested", "confirmed"}]
        /\ \A a \in Attempts : request'[a] \in {request[a], "none"}
    BY <1>0 DEF LinksOK
  <1>4. \A a \in Attempts : RequestStep(a)
    BY <1>2, <1>3, RequestsDropped
  <1>5. Talk
    BY <1>0, <1>2, <1>3, <1>4 DEF Talk, LinksOK
  <1>6. /\ Kept(store, Approved) /\ Kept(decode_keyring(disk), Approved)
        /\ Kept(operator.previous, Approved) /\ Kept(decode_keyring(operator.image), Approved)
        /\ Kept(enroll.previous, Approved) /\ Kept(decode_keyring(enroll.image), Approved)
        /\ disk \in SUBSET Records /\ operator \in Tasks /\ enroll \in Tasks
    BY KeysBefore
  <1>7. /\ operator' \in Tasks /\ operator'.previous = operator.previous
        /\ operator'.image = operator.image /\ operator'.step = "send"
        /\ operator'.attempt = operator.attempt /\ operator'.number = operator.number
    BY <1>0, <1>6 DEF Tasks
  <1>8. LinksOK' /\ ApprovedOK' /\ Approved' = Approved
    BY <1>0, <1>5, <1>7, TalkKeeps DEF Approving, Unsaved
  <1>9. KeysOK'
    <2>1. /\ Kept(store', Approved') /\ Kept(decode_keyring(disk'), Approved')
          /\ Kept(enroll'.previous, Approved') /\ Kept(decode_keyring(enroll'.image), Approved')
      BY <1>0, <1>6, <1>8
    <2>2. /\ Kept(operator'.previous, Approved') /\ Kept(decode_keyring(operator'.image), Approved')
      BY <1>6, <1>7, <1>8
    <2>3. Approved \subseteq Approved' /\ UNCHANGED config /\ disk' \in SUBSET Records
          /\ enroll' \in Tasks
      BY <1>0, <1>6, <1>8
    <2> QED
      BY <1>2, <1>7, <2>1, <2>2, <2>3, KeysMoved
  <1>10. ASSUME ~overlap' PROVE KeepsOK'
    <2>0. KeepsOK
      BY <1>0, <1>10
    <2>1. \A a \in Attempts : link'[a].client = link[a].client
      BY <1>2 DEF TameMap, Tame
    <2>2. Approved \subseteq Attempts
      BY DEF ApprovedOK, Approved
    <2>3. \A k : Superseded(k) => Superseded(k)'
      BY <1>0, <2>1, <2>2, SupersededStays DEF ApprovedOK
    <2>4. Handed' \subseteq Handed
      BY <1>0, <1>2, <1>7, <2>3, HandedShrinks
    <2>5. /\ Token' = Token /\ store' = store /\ decode_keyring(disk)' = decode_keyring(disk)
          /\ enroll' = enroll
      BY <1>0 DEF Token
    <2> QED
      BY <1>0, <1>7, <2>0, <2>4, <2>5 DEF KeepsOK, Unsaved
  <1> QED
    BY <1>8, <1>9, <1>10

\* The acceptance is the only frame approve_send() adds, on an open connection.
LEMMA AcceptanceSent ==
  ASSUME GoodMap(link), NEW b \in Attempts, NEW n \in Nat,
         link' = Send(link, b, [type |-> "accept", id |-> n])
  PROVE  /\ GoodMap(link')
         /\ \A a \in Attempts : /\ link'[a].client = link[a].client
                                /\ link'[a].yes = link[a].yes /\ link'[a].stage = link[a].stage
                                /\ a # b => link'[a] = link[a]
         /\ \A a \in Attempts : \A m \in Nat :
               Accepted(link'[a], m) => Accepted(link[a], m) \/ (a = b /\ m = n)
  <1>1. PICK f \in Frames : f = [type |-> "accept", id |-> n]
    BY DEF Frames
  <1>2. /\ link \in [Attempts -> Links] /\ link[b] \in Links /\ GoodLink(link[b])
    BY DEF GoodMap
  <1>3. CASE ~link[b].open
    <2>1. link' = link
      BY <1>3 DEF Send
    <2> QED
      BY <2>1
  <1>4. CASE link[b].open
    <2>1. PICK d : d = Append(link[b].down, f)
      OBVIOUS
    <2>2. link[b].down \in Seq(Frames)
      BY <1>2 DEF Links
    <2>3. /\ d \in Seq(Frames) /\ DOMAIN d = 1 .. Len(link[b].down) + 1
          /\ d[Len(link[b].down) + 1] = f
          /\ \A i \in DOMAIN link[b].down : d[i] = link[b].down[i]
          /\ \A i \in DOMAIN d : i \in DOMAIN link[b].down \/ i = Len(link[b].down) + 1
      <3>1. PICK s \in Seq(Frames) : s = link[b].down
        BY <2>2
      <3>2. d = Append(s, f) /\ Len(s) \in Nat /\ DOMAIN s = 1 .. Len(s)
        BY <2>1, <3>1
      <3>3. d \in Seq(Frames) /\ DOMAIN d = 1 .. Len(s) + 1
        BY <3>2
      <3>4. d[Len(s) + 1] = f
        BY <3>2
      <3>5. \A i \in DOMAIN s : d[i] = s[i]
        BY <3>2
      <3>6. \A i \in DOMAIN d : i \in DOMAIN s \/ i = Len(s) + 1
        BY <3>2, <3>3
      <3> QED
        BY <3>1, <3>3, <3>4, <3>5, <3>6
    <2>4. PICK l : l = [link[b] EXCEPT !.down = d]
      OBVIOUS
    <2>5. /\ l \in Links /\ l.client = link[b].client /\ l.yes = link[b].yes
          /\ l.stage = link[b].stage /\ l.up = link[b].up /\ l.down = d
      BY <1>2, <2>3, <2>4 DEF Links
    <2>6. GoodLink(l)
      BY <1>2, <2>5 DEF GoodLink, Confirms
    <2>7. link' = [link EXCEPT ![b] = l]
      BY <1>1, <1>2, <1>4, <2>1, <2>4 DEF Send
    <2>8. /\ link' \in [Attempts -> Links] /\ link'[b] = l
          /\ \A a \in Attempts : a # b => link'[a] = link[a]
      BY <1>2, <2>5, <2>7
    <2>9. GoodMap(link')
      BY <2>6, <2>8 DEF GoodMap
    <2>10. ASSUME NEW m \in Nat, Accepted(l, m) PROVE Accepted(link[b], m) \/ m = n
      <3>1. PICK i \in DOMAIN d : d[i] = [type |-> "accept", id |-> m]
        BY <2>5, <2>10 DEF Accepted
      <3>2. CASE i \in DOMAIN link[b].down
        BY <2>3, <3>1, <3>2 DEF Accepted
      <3>3. CASE i = Len(link[b].down) + 1
        BY <1>1, <2>3, <3>1, <3>3
      <3> QED
        BY <2>3, <3>2, <3>3
    <2> QED
      BY <2>5, <2>8, <2>9, <2>10
  <1> QED
    BY <1>3, <1>4

\* approve_send(): the acceptance carries a number that was due.
LEMMA ApproveSends ==
  ASSUME PairingIInv, approve_send
  PROVE  PairingIInv'
  <1> USE DEF PairingIInv
  <1>0. /\ UNCHANGED <<request, window, store, disk, enroll, config, used, approved, overlap>>
        /\ operator.step = "send" /\ operator' = Idle
    BY DEF approve_send
  <1>1. PICK b, n : b = operator.attempt /\ n = operator.number
    OBVIOUS
  <1>2. b \in Approved /\ b \in Attempts /\ n \in Nat
    BY <1>0, <1>1 DEF ApprovedOK, Approving, Approved, KeysOK, Tasks
  <1>3. link' = Send(link, b, [type |-> "accept", id |-> n])
    BY <1>1 DEF approve_send
  <1>4. GoodMap(link)
    BY DEF LinksOK, GoodMap
  <1>5. /\ GoodMap(link')
        /\ \A a \in Attempts : /\ link'[a].client = link[a].client
                               /\ link'[a].yes = link[a].yes /\ link'[a].stage = link[a].stage
                               /\ a # b => link'[a] = link[a]
        /\ \A a \in Attempts : \A m \in Nat :
              Accepted(link'[a], m) => Accepted(link[a], m) \/ (a = b /\ m = n)
    BY <1>2, <1>3, <1>4, AcceptanceSent
  <1>6. /\ operator'.step = "idle" /\ operator' \in Tasks /\ operator'.previous = {}
        /\ operator'.image = {}
    BY <1>0, AtRest
  <1>7. Approved' = Approved /\ Approved \subseteq Attempts
    BY <1>0 DEF Approved, ApprovedOK
  <1>8. b <= used.attempts /\ used.attempts \in Nat /\ b \in Nat
    BY <1>2 DEF ApprovedOK, LinksOK, Attempts
  <1>9. LinksOK'
    <2>1. \A a \in Attempts : a > used'.attempts => link'[a] = NoLink /\ request'[a] = "none"
      BY <1>0, <1>5, <1>8 DEF LinksOK
    <2>2. \A a \in Attempts : a <= used'.attempts => link'[a].client \in Students
      BY <1>0, <1>5 DEF LinksOK
    <2> QED
      BY <1>0, <1>5, <2>1, <2>2 DEF LinksOK, GoodMap
  <1>10. ApprovedOK'
    BY <1>0, <1>5, <1>6, <1>7 DEF ApprovedOK, Approving, Unsaved
  <1>11. /\ Kept(store, Approved) /\ Kept(decode_keyring(disk), Approved)
         /\ Kept(enroll.previous, Approved) /\ Kept(decode_keyring(enroll.image), Approved)
         /\ Kept({}, Approved) /\ Kept(decode_keyring({}), Approved)
         /\ disk \in SUBSET Records /\ enroll \in Tasks
    BY KeysBefore
  <1>12. KeysOK'
    <2>1. \A a \in Attempts : \A m \in Nat : Accepted(link'[a], m) => a \in Approved
      BY <1>2, <1>5 DEF KeysOK
    <2>2. \A c \in Students : \/ config'[c] = NoConfig
                              \/ config'[c].key \in Approved /\ link'[config'[c].key].client = c
      BY <1>0, <1>5, <1>7 DEF KeysOK
    <2>3. /\ config' \in [Machines -> [id : Nat, key : Keys]]
          /\ config'[Provisioned] \in {NoConfig, [id |-> TokenId, key |-> TokenKey]}
      BY <1>0 DEF KeysOK
    <2>4. Kept(operator'.previous, Approved) /\ Kept(decode_keyring(operator'.image), Approved)
      BY <1>6, <1>11
    <2> QED
      BY <1>0, <1>6, <1>7, <1>11, <2>1, <2>2, <2>3, <2>4 DEF KeysOK, Kept
  <1>13. ASSUME ~overlap' PROVE KeepsOK'
    <2>0. KeepsOK
      BY <1>0, <1>13
    <2>1. \A k : Superseded(k) => Superseded(k)'
      BY <1>0, <1>5, <1>7, SupersededStays DEF ApprovedOK
    <2>2. \A k \in Attempts, m \in Nat : Claimed(k, m)' => Claimed(k, m)
      <3>1. TAKE k \in Attempts, m \in Nat
      <3>2. HAVE Claimed(k, m)'
      <3>3. CASE config'[link'[k].client] = [id |-> m, key |-> k]
        BY <1>0, <1>5, <3>3 DEF Claimed
      <3>4. CASE Accepted(link'[k], m)
        BY <1>0, <1>1, <1>5, <3>4 DEF Claimed
      <3> QED
        BY <1>6, <3>2, <3>3, <3>4 DEF Claimed
    <2>3. TokenClaimed' => TokenClaimed
      BY <1>0 DEF TokenClaimed
    <2>4. Handed' \subseteq Handed \cup {}
      BY <1>5, <2>1, <2>2, <2>3, HandedWithin
    <2>5. /\ Token' = Token /\ store' = store /\ decode_keyring(disk)' = decode_keyring(disk)
          /\ enroll' = enroll
      BY <1>0 DEF Token
    <2> QED
      BY <1>0, <1>6, <2>0, <2>4, <2>5 DEF KeepsOK, Unsaved
  <1> QED
    BY <1>9, <1>10, <1>12, <1>13

\* ReceiveAccept(): the machine saves the key of its attempt under the number it
\* was sent, or nothing.
LEMMA AcceptanceTaken ==
  ASSUME PairingIInv, NEW a \in Attempts, ReceiveAccept(a)
  PROVE  PairingIInv'
  <1> USE DEF PairingIInv
  <1>0. /\ UNCHANGED <<request, window, store, disk, operator, enroll, approved, overlap>>
        /\ link[a].mine = "approval" /\ link' = Leave(link, a) /\ (used' = used \/ Fault)
        /\ link[a].down # <<>> /\ Head(link[a].down).type = "accept"
        /\ \/ config' = [config EXCEPT ![link[a].client] = [id |-> Head(link[a].down).id, key |-> a]]
           \/ config' = config
    BY DEF ReceiveAccept
  <1>1. GoodMap(link) /\ link[a] \in Links /\ link[a] # NoLink
    BY <1>0 DEF LinksOK, GoodMap, NoLink
  <1>2. TameMap(link, link')
    BY <1>0, <1>1, TameLeave
  <1>3. PICK n \in Nat : n = Head(link[a].down).id /\ Accepted(link[a], n)
    <2>1. link[a].down \in Seq(Frames)
      BY <1>1 DEF Links
    <2>2. PICK f \in Frames : f = Head(link[a].down) /\ f = link[a].down[1]
      BY <1>0, <2>1
    <2>3. f.id \in Nat /\ f = [type |-> "accept", id |-> f.id]
      BY <1>0, <2>2 DEF Frames
    <2>4. 1 \in DOMAIN link[a].down
      BY <1>0, <2>1
    <2> QED
      BY <2>2, <2>3, <2>4 DEF Accepted
  <1>4. a \in Approved /\ a <= used.attempts /\ a \in Nat
    BY <1>3 DEF KeysOK, ApprovedOK, Attempts
  <1>5. PICK c \in Students : c = link[a].client
    BY <1>4 DEF LinksOK
  <1>6. /\ config \in [Machines -> [id : Nat, key : Keys]] /\ c \in Machines
        /\ [id |-> n, key |-> a] \in [id : Nat, key : Keys] /\ c # Provisioned
    BY <1>5, PairingAssumption DEF KeysOK, Machines, Keys
  <1>7. /\ config' \in [Machines -> [id : Nat, key : Keys]]
        /\ \A d \in Machines : d # c => config'[d] = config[d]
        /\ config'[c] = config[c] \/ config'[c] = [id |-> n, key |-> a]
    BY <1>0, <1>3, <1>5, <1>6
  <1>8. /\ request' \in [Attempts -> {"none", "requested", "confirmed"}]
        /\ \A b \in Attempts : request'[b] \in {request[b], "none"}
    BY <1>0 DEF LinksOK
  <1>9. \A b \in Attempts : RequestStep(b)
    BY <1>2, <1>8, RequestsDropped
  <1>10. Talk
    BY <1>0, <1>2, <1>8, <1>9, Budget DEF Talk, LinksOK
  <1>11. LinksOK' /\ ApprovedOK' /\ Approved' = Approved
    BY <1>0, <1>10, TalkKeeps
  <1>12. /\ \A b \in Attempts : /\ link'[b].client = link[b].client
                                /\ \A m \in Nat : Accepted(link'[b], m) => Accepted(link[b], m)
         /\ Approved \subseteq Attempts
    BY <1>2 DEF TameMap, Tame, ApprovedOK, Approved
  <1>13. KeysOK'
    <2>1. \A b \in Attempts : \A m \in Nat : Accepted(link'[b], m) => b \in Approved
      BY <1>12 DEF KeysOK
    <2>2. \A d \in Students : \/ config'[d] = NoConfig
                              \/ config'[d].key \in Approved /\ link'[config'[d].key].client = d
      <3>1. TAKE d \in Students
      <3>2. d \in Machines
        BY DEF Machines
      <3>3. CASE config'[d] = config[d]
        BY <1>12, <3>3 DEF KeysOK
      <3>4. CASE d = c /\ config'[d] = [id |-> n, key |-> a]
        BY <1>4, <1>5, <1>12, <3>4
      <3> QED
        BY <1>7, <3>2, <3>3, <3>4
    <2>3. config'[Provisioned] \in {NoConfig, [id |-> TokenId, key |-> TokenKey]}
      BY <1>6, <1>7 DEF KeysOK, Machines
    <2>4. /\ Copy(store') /\ Consented(store', Approved)
          /\ Copy(decode_keyring(disk')) /\ Consented(decode_keyring(disk'), Approved)
          /\ Copy(operator'.previous) /\ Consented(operator'.previous, Approved)
          /\ Copy(decode_keyring(operator'.image))
          /\ Consented(decode_keyring(operator'.image), Approved)
          /\ Copy(enroll'.previous) /\ Consented(enroll'.previous, Approved)
          /\ Copy(decode_keyring(enroll'.image))
          /\ Consented(decode_keyring(enroll'.image), Approved)
          /\ disk' \in SUBSET Records /\ operator' \in Tasks /\ enroll' \in Tasks
      BY <1>0 DEF KeysOK
    <2> QED
      BY <1>7, <1>11, <2>1, <2>2, <2>3, <2>4 DEF KeysOK
  <1>14. ASSUME ~overlap' PROVE KeepsOK'
    <2>0. KeepsOK
      BY <1>0, <1>14
    <2>1. \A k : Superseded(k) => Superseded(k)'
      BY <1>0, <1>12, SupersededStays DEF ApprovedOK
    <2>2. \A k \in Attempts, m \in Nat : Claimed(k, m)' => Claimed(k, m)
      <3>1. TAKE k \in Attempts, m \in Nat
      <3>2. HAVE Claimed(k, m)'
      <3>3. CASE config'[link'[k].client] = [id |-> m, key |-> k]
        <4>1. link'[k].client = link[k].client /\ link[k].client \in Machines
          BY <1>1, <1>12 DEF GoodMap, Links
        <4>2. CASE config'[link[k].client] = config[link[k].client]
          BY <3>3, <4>1, <4>2 DEF Claimed
        <4>3. CASE config'[link[k].client] = [id |-> n, key |-> a]
          <5>1. k = a /\ m = n
            BY <3>3, <4>1, <4>3
          <5> QED
            BY <1>3, <5>1 DEF Claimed
        <4> QED
          BY <1>7, <4>1, <4>2, <4>3
      <3>4. CASE Accepted(link'[k], m)
        BY <1>12, <3>4 DEF Claimed
      <3> QED
        BY <1>0, <3>2, <3>3, <3>4 DEF Claimed
    <2>3. TokenClaimed' => TokenClaimed
      BY <1>0, <1>6, <1>7 DEF TokenClaimed, Machines
    <2>4. Handed' \subseteq Handed \cup {}
      BY <1>12, <2>1, <2>2, <2>3, HandedWithin
    <2>5. /\ Token' = Token /\ store' = store /\ decode_keyring(disk)' = decode_keyring(disk)
          /\ enroll' = enroll /\ operator' = operator
      BY <1>0 DEF Token
    <2>6. CASE operator.step \in Unsaved
      <3>1. operator.attempt \in Attempts
        BY <1>12, <2>6 DEF ApprovedOK, Approving
      <3>2. Approval' = Approval
        BY <1>0, <1>12, <3>1 DEF Approval
      <3> QED
        BY <2>0, <2>4, <2>5, <3>2 DEF KeepsOK
    <2>7. CASE operator.step \notin Unsaved
      BY <2>0, <2>4, <2>5, <2>7 DEF KeepsOK, Unsaved
    <2> QED
      BY <2>6, <2>7
  <1> QED
    BY <1>11, <1>13, <1>14

\* What follows of KeepsOK when only the enrollment, the store and the file change
\* and the teacher's approval is not in the way of the file.
LEMMA EnrollmentKeeps ==
  ASSUME KeepsOK, operator.step \in Unsaved => UNCHANGED <<store, disk>>,
         UNCHANGED <<link, operator>>, NEW H, Handed' \subseteq H,
         operator.step \in Unsaved => Handed' \subseteq Handed,
         H \subseteq store', H \subseteq decode_keyring(disk'),
         enroll'.step \in {"accept", "encode", "write"} =>
             operator.step \notin Unsaved /\ Handed' \subseteq enroll'.previous,
         enroll'.step \in {"encode", "write"} => Token \in store',
         enroll'.step = "write" => Handed' \cup {Token} \subseteq decode_keyring(enroll'.image)
  PROVE  KeepsOK'
  <1>1. Token' = Token /\ Approval' = Approval /\ decode_keyring(disk)' = decode_keyring(disk')
    BY DEF Token, Approval
  <1>2. Handed' \subseteq store' /\ Handed' \subseteq decode_keyring(disk')
    OBVIOUS
  <1>3. CASE operator.step \in Unsaved
    <2>1. UNCHANGED <<store, disk>> /\ Handed' \subseteq Handed
      BY <1>3
    <2> QED
      BY <1>1, <1>2, <1>3, <2>1 DEF KeepsOK
  <1>4. CASE operator.step \notin Unsaved
    BY <1>1, <1>2, <1>4 DEF KeepsOK, Unsaved
  <1> QED
    BY <1>3, <1>4

\* The steps of an enrollment before it touches the store: provision(),
\* enroll_snapshot().
LEMMA EnrollmentBegins ==
  ASSUME PairingIInv, provision \/ enroll_snapshot
  PROVE  PairingIInv'
  <1> USE DEF PairingIInv
  <1>0. /\ UNCHANGED <<link, request, window, store, disk, operator, config, used, approved>>
        /\ \/ enroll' = [Idle EXCEPT !.step = "requested"] /\ overlap' = overlap
           \/ /\ enroll' = [enroll EXCEPT !.step = "accept", !.previous = store]
              /\ ~overlap' => ~overlap /\ operator.step \notin Unsaved
    BY DEF provision, enroll_snapshot, Unsaved
  <1>1. /\ Talk /\ \A k : Superseded(k) => Superseded(k)'
        /\ \A a \in Attempts : link'[a].client = link[a].client
    BY <1>0, Still
  <1>2. /\ Kept(store, Approved) /\ Kept(decode_keyring(disk), Approved)
        /\ Kept(operator.previous, Approved) /\ Kept(decode_keyring(operator.image), Approved)
        /\ Kept(enroll.previous, Approved) /\ Kept(decode_keyring(enroll.image), Approved)
        /\ Kept({}, Approved) /\ Kept(decode_keyring({}), Approved)
        /\ disk \in SUBSET Records /\ operator \in Tasks /\ enroll \in Tasks
        /\ store \in SUBSET Entries
    BY KeysBefore
  <1>3. /\ enroll' \in Tasks
        /\ \/ /\ enroll'.step = "requested" /\ enroll'.previous = {} /\ enroll'.image = {}
              /\ overlap' = overlap
           \/ /\ enroll'.step = "accept" /\ enroll'.previous = store
              /\ enroll'.image = enroll.image
              /\ ~overlap' => ~overlap /\ operator.step \notin Unsaved
    <2>1. CASE enroll' = [Idle EXCEPT !.step = "requested"] /\ overlap' = overlap
      BY <2>1, AtRest
    <2>2. CASE /\ enroll' = [enroll EXCEPT !.step = "accept", !.previous = store]
               /\ ~overlap' => ~overlap /\ operator.step \notin Unsaved
      BY <1>2, <2>2 DEF Tasks
    <2> QED
      BY <1>0, <2>1, <2>2
  <1>4. LinksOK' /\ ApprovedOK' /\ Approved' = Approved
    BY <1>0, <1>1, TalkKeeps
  <1>5. KeysOK'
    <2>1. Kept(enroll'.previous, Approved) /\ Kept(decode_keyring(enroll'.image), Approved)
      BY <1>2, <1>3
    <2> QED
      BY <1>0, <1>2, <1>3, <2>1, KeysStill
  <1>6. ASSUME ~overlap' PROVE KeepsOK'
    <2>0. KeepsOK
      BY <1>3, <1>6
    <2>1. TameMap(link, link')
      BY <1>1 DEF Talk
    <2>2. Handed' \subseteq Handed
      BY <1>0, <1>1, <1>3, <2>1, HandedShrinks
    <2>3. Handed \subseteq store' /\ Handed \subseteq decode_keyring(disk')
      BY <1>0, <2>0 DEF KeepsOK
    <2>4. enroll'.step \in {"accept", "encode", "write"} =>
             operator.step \notin Unsaved /\ Handed' \subseteq enroll'.previous
      BY <1>0, <1>3, <1>6, <2>2, <2>3
    <2> QED
      BY <1>0, <1>3, <2>0, <2>2, <2>3, <2>4, EnrollmentKeeps
  <1> QED
    BY <1>4, <1>5, <1>6

\* enroll_accept() and enroll_encode(): the enrollment's key joins the store, and
\* the store is copied.
LEMMA EnrollmentAccepts ==
  ASSUME PairingIInv, enroll_accept \/ enroll_encode
  PROVE  PairingIInv'
  <1> USE DEF PairingIInv
  <1>0. /\ UNCHANGED <<link, request, window, disk, operator, config, used, approved, overlap>>
    BY DEF enroll_accept, enroll_encode
  <1>1. /\ Talk /\ \A k : Superseded(k) => Superseded(k)'
        /\ \A a \in Attempts : link'[a].client = link[a].client
    BY <1>0, Still
  <1>2. /\ Kept(store, Approved) /\ Kept(decode_keyring(disk), Approved)
        /\ Kept(operator.previous, Approved) /\ Kept(decode_keyring(operator.image), Approved)
        /\ Kept(enroll.previous, Approved) /\ Kept(decode_keyring(enroll.image), Approved)
        /\ Kept({}, Approved) /\ Kept(decode_keyring({}), Approved)
        /\ disk \in SUBSET Records /\ operator \in Tasks /\ enroll \in Tasks
        /\ store \in SUBSET Entries
    BY KeysBefore
  <1>3. PICK image : image = encode_keyring(store)
    OBVIOUS
  <1>4. /\ image \in SUBSET Records /\ Kept(decode_keyring(image), Approved)
        /\ \A e \in store : ~e.revoked => e \in decode_keyring(image)
    BY <1>2, <1>3, Saved DEF Kept
  <1>5. \/ /\ enroll.step = "accept" /\ CanEnroll(store, Provisioned, TokenId)
           /\ store' = store \cup {Token} /\ enroll' = [enroll EXCEPT !.step = "encode"]
        \/ /\ enroll.step = "accept" /\ store' = store
           /\ enroll' = [Idle EXCEPT !.step = "failed"]
        \/ /\ enroll.step = "encode" /\ store' = store
           /\ enroll' = [enroll EXCEPT !.step = "write", !.image = image]
    BY <1>3 DEF enroll_accept, enroll_encode, Token
  <1>6. /\ enroll' \in Tasks /\ Kept(store', Approved) /\ store \subseteq store'
        /\ \/ /\ enroll.step = "accept" /\ enroll'.step = "encode" /\ Token \in store'
              /\ enroll'.previous = enroll.previous /\ enroll'.image = enroll.image
           \/ /\ enroll.step = "accept" /\ enroll'.step = "failed"
              /\ enroll'.previous = {} /\ enroll'.image = {}
           \/ /\ enroll.step = "encode" /\ store' = store /\ enroll'.step = "write"
              /\ enroll'.previous = enroll.previous /\ enroll'.image = image
    <2>1. CASE /\ enroll.step = "accept" /\ CanEnroll(store, Provisioned, TokenId)
               /\ store' = store \cup {Token} /\ enroll' = [enroll EXCEPT !.step = "encode"]
      <3>1. Kept(store', Approved)
        BY <1>2, <2>1, Enrolled DEF Kept
      <3>2. /\ enroll' \in Tasks /\ enroll'.step = "encode"
            /\ enroll'.previous = enroll.previous /\ enroll'.image = enroll.image
        BY <1>2, <2>1 DEF Tasks
      <3> QED
        BY <2>1, <3>1, <3>2
    <2>2. CASE /\ enroll.step = "accept" /\ store' = store
               /\ enroll' = [Idle EXCEPT !.step = "failed"]
      BY <1>2, <2>2, AtRest
    <2>3. CASE /\ enroll.step = "encode" /\ store' = store
               /\ enroll' = [enroll EXCEPT !.step = "write", !.image = image]
      <3>1. /\ enroll' \in Tasks /\ enroll'.step = "write"
            /\ enroll'.previous = enroll.previous /\ enroll'.image = image
        BY <1>2, <1>4, <2>3 DEF Tasks
      <3> QED
        BY <1>2, <2>3, <3>1
    <2> QED
      BY <1>5, <2>1, <2>2, <2>3
  <1>7. LinksOK' /\ ApprovedOK' /\ Approved' = Approved
    BY <1>0, <1>1, TalkKeeps
  <1>8. KeysOK'
    <2>1. Kept(enroll'.previous, Approved) /\ Kept(decode_keyring(enroll'.image), Approved)
      BY <1>2, <1>4, <1>6
    <2> QED
      BY <1>0, <1>2, <1>6, <2>1, KeysStill
  <1>9. ASSUME ~overlap' PROVE KeepsOK'
    <2>0. KeepsOK /\ operator.step \notin Unsaved
      BY <1>0, <1>6, <1>9 DEF KeepsOK
    <2>1. TameMap(link, link')
      BY <1>1 DEF Talk
    <2>2. Handed' \subseteq Handed
      BY <1>0, <1>1, <1>6, <2>1, HandedShrinks
    <2>3. Handed \subseteq store' /\ Handed \subseteq decode_keyring(disk')
      BY <1>0, <1>6, <2>0 DEF KeepsOK
    <2>4. enroll'.step \in {"accept", "encode", "write"} => Handed' \subseteq enroll'.previous
      BY <1>6, <2>0, <2>2 DEF KeepsOK
    <2>5. enroll'.step \in {"encode", "write"} => Token \in store'
      BY <1>6, <2>0 DEF KeepsOK
    <2>6. enroll'.step = "write" => Handed' \cup {Token} \subseteq decode_keyring(enroll'.image)
      <3>1. SUFFICES ASSUME enroll'.step = "write"
                     PROVE  Handed' \cup {Token} \subseteq decode_keyring(enroll'.image)
        OBVIOUS
      <3>2. enroll'.image = image /\ store' = store
        BY <1>6, <3>1
      <3>3. ~Token.revoked /\ Token \in store
        BY <2>5, <3>1, <3>2 DEF Token, Entry
      <3>4. \A e \in Handed : ~e.revoked
        BY HandedIs
      <3> QED
        BY <1>4, <2>2, <2>3, <3>2, <3>3, <3>4
    <2> QED
      BY <1>0, <2>0, <2>2, <2>3, <2>4, <2>5, <2>6, EnrollmentKeeps
  <1> QED
    BY <1>7, <1>8, <1>9

\* enroll_write(): the file is replaced and the enrollment is accepted, or the
\* store goes back to its copy.
LEMMA EnrollmentWrites ==
  ASSUME PairingIInv, enroll_write
  PROVE  PairingIInv'
  <1> USE DEF PairingIInv
  <1>0. /\ UNCHANGED <<link, request, window, operator, config, approved, overlap>>
        /\ enroll.step = "write" /\ (used' = used \/ Fault)
        /\ \/ /\ disk' = enroll.image /\ store' = store
              /\ enroll' = [Idle EXCEPT !.step = "accepted"]
           \/ disk' = disk /\ store' = enroll.previous /\ enroll' = Idle
    BY DEF enroll_write, save_machine_secret
  <1>1. /\ Talk /\ \A k : Superseded(k) => Superseded(k)'
        /\ \A a \in Attempts : link'[a].client = link[a].client
    BY <1>0, Still
  <1>2. /\ Kept(store, Approved) /\ Kept(decode_keyring(disk), Approved)
        /\ Kept(operator.previous, Approved) /\ Kept(decode_keyring(operator.image), Approved)
        /\ Kept(enroll.previous, Approved) /\ Kept(decode_keyring(enroll.image), Approved)
        /\ Kept({}, Approved) /\ Kept(decode_keyring({}), Approved)
        /\ disk \in SUBSET Records /\ operator \in Tasks /\ enroll \in Tasks
        /\ enroll.image \in SUBSET Records
    BY KeysBefore
  <1>3. /\ enroll' \in Tasks /\ enroll'.previous = {} /\ enroll'.image = {}
        /\ \/ /\ disk' = enroll.image /\ store' = store /\ enroll'.step = "accepted"
           \/ disk' = disk /\ store' = enroll.previous /\ enroll'.step = "idle"
    BY <1>0, AtRest
  <1>4. LinksOK' /\ ApprovedOK' /\ Approved' = Approved
    BY <1>0, <1>1, TalkKeeps
  <1>5. KeysOK'
    <2>1. /\ Kept(store', Approved) /\ Kept(decode_keyring(disk'), Approved)
          /\ disk' \in SUBSET Records
      BY <1>2, <1>3
    <2>2. /\ Kept(enroll'.previous, Approved) /\ Kept(decode_keyring(enroll'.image), Approved)
      BY <1>2, <1>3
    <2> QED
      BY <1>0, <1>2, <1>3, <2>1, <2>2, KeysStill
  <1>6. ASSUME ~overlap' PROVE KeepsOK'
    <2>0. KeepsOK /\ operator.step \notin Unsaved
      BY <1>0, <1>6 DEF KeepsOK
    <2>1. CASE enroll'.step = "accepted"
      <3>1. disk' = enroll.image /\ store' = store
        BY <1>3, <2>1
      <3>2. \A k \in Attempts, n \in Nat : Claimed(k, n)' => Claimed(k, n)
        BY <1>0 DEF Claimed
      <3>3. Handed' \subseteq Handed \cup {Token}
        BY <1>1, <3>2, HandedWithin
      <3>4. Handed \cup {Token} \subseteq store'
        BY <1>0, <2>0, <3>1 DEF KeepsOK
      <3>5. Handed \cup {Token} \subseteq decode_keyring(disk')
        BY <1>0, <2>0, <3>1 DEF KeepsOK
      <3> QED
        BY <1>0, <2>0, <2>1, <3>3, <3>4, <3>5, EnrollmentKeeps
    <2>2. CASE enroll'.step = "idle"
      <3>1. disk' = disk /\ store' = enroll.previous
        BY <1>3, <2>2
      <3>2. TameMap(link, link')
        BY <1>1 DEF Talk
      <3>3. Handed' \subseteq Handed
        BY <1>0, <1>1, <2>2, <3>2, HandedShrinks
      <3>4. Handed \subseteq store' /\ Handed \subseteq decode_keyring(disk')
        BY <1>0, <2>0, <3>1 DEF KeepsOK
      <3> QED
        BY <1>0, <2>0, <2>2, <3>3, <3>4, EnrollmentKeeps
    <2> QED
      BY <1>3, <2>1, <2>2
  <1> QED
    BY <1>4, <1>5, <1>6

\* provision_saves(): the tool saves the enrollment's key, or not.
LEMMA EnrollmentSaved ==
  ASSUME PairingIInv, provision_saves
  PROVE  PairingIInv'
  <1> USE DEF PairingIInv
  <1>0. /\ UNCHANGED <<link, request, window, store, disk, operator, approved, overlap>>
        /\ enroll.step = "accepted" /\ (used' = used \/ Fault)
        /\ enroll' = [Idle EXCEPT !.step = "done"]
        /\ \/ config' = [config EXCEPT ![Provisioned] = [id |-> TokenId, key |-> TokenKey]]
           \/ config' = config
    BY DEF provision_saves
  <1>1. /\ Talk /\ \A k : Superseded(k) => Superseded(k)'
        /\ \A a \in Attempts : link'[a].client = link[a].client
    BY <1>0, Still
  <1>2. /\ enroll' \in Tasks /\ enroll'.step = "done" /\ enroll'.previous = {}
        /\ enroll'.image = {}
    BY <1>0, AtRest
  <1>3. LinksOK' /\ ApprovedOK' /\ Approved' = Approved
    BY <1>0, <1>1, TalkKeeps
  <1>4. /\ config \in [Machines -> [id : Nat, key : Keys]] /\ Provisioned \in Machines
        /\ [id |-> TokenId, key |-> TokenKey] \in [id : Nat, key : Keys]
        /\ TokenKey \notin Attempts /\ Provisioned \notin Students
    BY PairingAssumption DEF KeysOK, Machines, Keys, TokenId, TokenKey, Attempts
  <1>5. PICK t : t = [id |-> TokenId, key |-> TokenKey]
    OBVIOUS
  <1>6. /\ config' \in [Machines -> [id : Nat, key : Keys]]
        /\ \A c \in Machines : c # Provisioned => config'[c] = config[c]
        /\ config'[Provisioned] = config[Provisioned] \/ config'[Provisioned] = t
    BY <1>0, <1>4, <1>5
  <1>7. KeysOK'
    <2>1. \A c \in Students : config'[c] = config[c]
      BY <1>4, <1>6 DEF Machines
    <2>2. \A c \in Students : \/ config'[c] = NoConfig
                              \/ config'[c].key \in Approved /\ link'[config'[c].key].client = c
      BY <1>0, <2>1 DEF KeysOK
    <2>3. config'[Provisioned] \in {NoConfig, [id |-> TokenId, key |-> TokenKey]}
      BY <1>5, <1>6 DEF KeysOK
    <2>4. \A a \in Attempts : \A n \in Nat : Accepted(link'[a], n) => a \in Approved
      BY <1>0 DEF KeysOK
    <2>5. /\ Copy(store') /\ Consented(store', Approved)
          /\ Copy(decode_keyring(disk')) /\ Consented(decode_keyring(disk'), Approved)
          /\ Copy(operator'.previous) /\ Consented(operator'.previous, Approved)
          /\ Copy(decode_keyring(operator'.image))
          /\ Consented(decode_keyring(operator'.image), Approved)
          /\ disk' \in SUBSET Records /\ operator' \in Tasks
      BY <1>0 DEF KeysOK
    <2>6. /\ Copy(enroll'.previous) /\ Consented(enroll'.previous, Approved)
          /\ Copy(decode_keyring(enroll'.image))
          /\ Consented(decode_keyring(enroll'.image), Approved)
      BY <1>2, NothingKept
    <2> QED
      BY <1>2, <1>3, <1>6, <2>2, <2>3, <2>4, <2>5, <2>6 DEF KeysOK
  <1>8. ASSUME ~overlap' PROVE KeepsOK'
    <2>0. KeepsOK
      BY <1>0, <1>8
    <2>1. \A k \in Attempts, n \in Nat : Claimed(k, n)' => Claimed(k, n)
      <3>1. TAKE k \in Attempts, n \in Nat
      <3>2. HAVE Claimed(k, n)'
      <3>3. link[k].client \in Machines
        BY DEF LinksOK, Links
      <3>4. CASE config'[link[k].client] = config[link[k].client]
        BY <1>0, <3>2, <3>4 DEF Claimed
      <3>5. CASE config'[link[k].client] = t
        <4>1. config'[link[k].client] # [id |-> n, key |-> k]
          BY <1>4, <1>5, <3>5
        <4> QED
          BY <1>0, <3>2, <4>1 DEF Claimed
      <3> QED
        BY <1>6, <3>3, <3>4, <3>5
    <2>2. TokenClaimed
      BY <1>0 DEF TokenClaimed
    <2>3. Handed' \subseteq Handed \cup {}
      BY <1>1, <2>1, <2>2, HandedWithin
    <2>4. Handed \subseteq store' /\ Handed \subseteq decode_keyring(disk')
      BY <1>0, <2>0 DEF KeepsOK
    <2>5. Handed' \subseteq Handed
      BY <2>3
    <2> QED
      BY <1>0, <1>2, <2>0, <2>4, <2>5, EnrollmentKeeps
  <1> QED
    BY <1>3, <1>7, <1>8

\* What the end of the server process does to a connection.
LEMMA ConnectionLost ==
  ASSUME NEW l, GoodLink(l), l.mine # "none"
  PROVE  Tame(l, Rest([l EXCEPT !.open = FALSE, !.known = FALSE, !.up = <<>>,
                                !.stage = "failed"]))
  <1>1. PICK m : m = [l EXCEPT !.open = FALSE, !.known = FALSE, !.up = <<>>, !.stage = "failed"]
    OBVIOUS
  <1>2. l \in Links /\ <<>> \in Seq({"hello", "confirm", "heartbeat"})
    BY DEF GoodLink
  <1>3. /\ m \in Links /\ m.client = l.client /\ m.yes = l.yes /\ m.stage = "failed"
        /\ m.down = l.down /\ m.up = <<>> /\ m.mine = l.mine
    BY <1>1, <1>2 DEF Links
  <1>4. GoodLink(m) /\ m # NoLink /\ l # NoLink
    BY <1>3 DEF GoodLink, Confirms, NoLink
  <1>5. Tame(l, m)
    BY <1>3, <1>4 DEF Tame, Accepted
  <1>6. Tame(m, Rest(m))
    BY <1>4, TameRest
  <1>7. Tame(l, Rest(m))
    BY <1>5, <1>6, TameTrans
  <1> QED
    BY <1>1, <1>7

\* ServerRestarts(): the store is read back from the file.
LEMMA RestartKeeps ==
  ASSUME PairingIInv, ServerRestarts
  PROVE  PairingIInv'
  <1> USE DEF PairingIInv
  <1>0. /\ UNCHANGED <<disk, config, approved, overlap>> /\ Fault
        /\ request' = [a \in Attempts |-> "none"] /\ operator' = Idle
        /\ window' = [window EXCEPT !.open = FALSE, !.beacon = FALSE]
        /\ store' = decode_keyring(disk)
        /\ \/ enroll' = enroll /\ enroll.step \in {"accepted", "done"}
           \/ enroll' = Idle
    BY DEF ServerRestarts
  <1>1. TameMap(link, link')
    <2> DEFINE lost(l) == Rest([l EXCEPT !.open = FALSE, !.known = FALSE, !.up = <<>>,
                                         !.stage = "failed"])
    <2>1. link' = [a \in Attempts |-> IF link[a].mine = "none" THEN link[a] ELSE lost(link[a])]
      BY DEF ServerRestarts
    <2>2. \A a \in Attempts : GoodLink(link[a])
      BY DEF LinksOK
    <2>3. \A a \in Attempts : link[a].mine # "none" => Tame(link[a], lost(link[a]))
      BY <2>2, ConnectionLost
    <2>4. \A a \in Attempts : Tame(link[a], link[a])
      BY <2>2, TameSame
    <2> HIDE DEF lost
    <2>5. \A a \in Attempts : Tame(link[a], link'[a])
      BY <2>1, <2>3, <2>4
    <2>6. link' \in [Attempts -> Links]
      <3>1. \A a \in Attempts : link'[a] \in Links
        BY <2>5 DEF Tame, GoodLink
      <3> QED
        BY <2>1, <3>1
    <2> QED
      BY <2>5, <2>6 DEF TameMap
  <1>2. /\ request' \in [Attempts -> {"none", "requested", "confirmed"}]
        /\ \A a \in Attempts : request'[a] \in {request[a], "none"}
    BY <1>0
  <1>3. \A a \in Attempts : RequestStep(a)
    BY <1>1, <1>2, RequestsDropped
  <1>4. window' \in [open : BOOLEAN, beacon : BOOLEAN, count : Nat]
    BY <1>0 DEF LinksOK
  <1>5. Talk
    BY <1>0, <1>1, <1>2, <1>3, <1>4, Budget DEF Talk
  <1>6. /\ operator' \in Tasks /\ operator'.step = "idle" /\ operator'.previous = {}
        /\ operator'.image = {}
    BY <1>0, AtRest
  <1>7. LinksOK' /\ ApprovedOK' /\ Approved' = Approved
    BY <1>5, <1>6, TalkKeeps DEF Approving, Unsaved
  <1>8. /\ Kept(decode_keyring(disk), Approved) /\ disk \in SUBSET Records
        /\ Kept(enroll.previous, Approved) /\ Kept(decode_keyring(enroll.image), Approved)
        /\ Kept({}, Approved) /\ Kept(decode_keyring({}), Approved) /\ enroll \in Tasks
    BY KeysBefore
  <1>9. /\ enroll' \in Tasks /\ enroll'.step \in {"accepted", "done", "idle"}
        /\ Kept(enroll'.previous, Approved) /\ Kept(decode_keyring(enroll'.image), Approved)
        /\ enroll'.step = "accepted" => enroll.step = "accepted"
    BY <1>0, <1>8, AtRest
  <1>10. KeysOK'
    <2>1. /\ Kept(store', Approved') /\ Kept(decode_keyring(disk'), Approved')
          /\ disk' \in SUBSET Records /\ UNCHANGED config
      BY <1>0, <1>7, <1>8
    <2>2. Kept(operator'.previous, Approved') /\ Kept(decode_keyring(operator'.image), Approved')
      BY <1>6, <1>7, <1>8
    <2>3. Kept(enroll'.previous, Approved') /\ Kept(decode_keyring(enroll'.image), Approved')
      BY <1>7, <1>9
    <2>4. Approved \subseteq Approved'
      BY <1>7
    <2> QED
      BY <1>1, <1>6, <1>9, <2>1, <2>2, <2>3, <2>4, KeysMoved
  <1>11. ASSUME ~overlap' PROVE KeepsOK'
    <2>0. KeepsOK
      BY <1>0, <1>11
    <2>1. \A a \in Attempts : link'[a].client = link[a].client
      BY <1>1 DEF TameMap, Tame
    <2>2. Approved \subseteq Attempts
      BY DEF ApprovedOK, Approved
    <2>3. \A k : Superseded(k) => Superseded(k)'
      BY <1>0, <2>1, <2>2, SupersededStays DEF ApprovedOK
    <2>4. Handed' \subseteq Handed
      BY <1>0, <1>1, <1>6, <1>9, <2>3, HandedShrinks
    <2>5. decode_keyring(disk)' = decode_keyring(disk) /\ store' = decode_keyring(disk)
      BY <1>0
    <2>6. Handed' \subseteq decode_keyring(disk)
      BY <2>0, <2>4 DEF KeepsOK
    <2> QED
      BY <1>6, <1>9, <2>5, <2>6 DEF KeepsOK, Unsaved
  <1> QED
    BY <1>7, <1>10, <1>11

\* attempt_pairing(): a new attempt, of which nothing is known yet.
LEMMA AttemptBegins ==
  ASSUME PairingIInv, NEW c \in Students, attempt_pairing(c)
  PROVE  PairingIInv'
  <1> USE DEF PairingIInv
  <1>0. /\ UNCHANGED <<request, window, store, disk, operator, enroll, config, approved, overlap>>
        /\ config[c] = NoConfig /\ used.attempts < MaxAttempts
        /\ used' = [used EXCEPT !.attempts = @ + 1]
        /\ link' = [link EXCEPT ![used.attempts + 1] = pair_with_server(c)]
    BY DEF attempt_pairing
  <1>1. PICK b : b = used.attempts + 1
    OBVIOUS
  <1>2. /\ used \in [attempts : 0 .. MaxAttempts, faults : Nat] /\ MaxAttempts \in Nat
    BY PairingAssumption DEF LinksOK
  <1>3. /\ b \in Attempts /\ b \in Nat /\ used.attempts \in Nat /\ b > used.attempts
    BY <1>0, <1>1, <1>2 DEF Attempts
  <1>4. /\ used' \in [attempts : 0 .. MaxAttempts, faults : Nat] /\ used'.attempts = b
    BY <1>0, <1>1, <1>2, <1>3
  <1>5. PICK l : l = pair_with_server(c)
    OBVIOUS
  <1>6. /\ l \in Links /\ l.client = c /\ l.up = <<"hello">> /\ l.down = <<>>
        /\ l.stage = "initial"
    <2>1. NoLink \in Links /\ NoLink.down = <<>> /\ NoLink.stage = "initial"
      BY NoLinkGood DEF GoodLink, NoLink
    <2>2. c \in Machines /\ <<"hello">> \in Seq({"hello", "confirm", "heartbeat"})
      BY DEF Machines
    <2> QED
      BY <1>5, <2>1, <2>2 DEF Links, pair_with_server
  <1>7. /\ GoodLink(l) /\ \A n \in Nat : ~Accepted(l, n)
    BY <1>6 DEF GoodLink, Confirms, Accepted
  <1>8. /\ link' \in [Attempts -> Links] /\ link'[b] = l
        /\ \A a \in Attempts : a # b => link'[a] = link[a]
    BY <1>0, <1>1, <1>3, <1>5, <1>6 DEF LinksOK
  <1>9. /\ link[b] = NoLink /\ request[b] = "none" /\ b \notin Approved
    BY <1>3 DEF LinksOK, ApprovedOK
  <1>10. LinksOK'
    <2>1. \A a \in Attempts : a > used'.attempts => link'[a] = NoLink /\ request'[a] = "none"
      <3>1. \A a \in Attempts : a \in Nat
        BY DEF Attempts
      <3> QED
        BY <1>0, <1>3, <1>4, <1>8, <3>1 DEF LinksOK
    <2>2. \A a \in Attempts : a <= used'.attempts => link'[a].client \in Students
      <3>1. \A a \in Attempts : a \in Nat
        BY DEF Attempts
      <3>2. \A a \in Attempts : a <= used'.attempts => a = b \/ a <= used.attempts
        BY <1>1, <1>3, <1>4, <3>1
      <3> QED
        BY <1>6, <1>8, <3>2 DEF LinksOK
    <2>3. \A a \in Attempts : GoodLink(link'[a])
      BY <1>7, <1>8 DEF LinksOK
    <2> QED
      BY <1>0, <1>4, <1>8, <2>1, <2>2, <2>3 DEF LinksOK
  <1>11. Approved' = Approved /\ Approved \subseteq Attempts
    BY <1>0 DEF Approved, ApprovedOK
  <1>12. ApprovedOK'
    <2>1. \A a \in Approved : a <= used'.attempts /\ link'[a].yes
      <3>1. \A a \in Approved : a \in Nat /\ a <= used.attempts /\ link[a].yes /\ a # b
        BY <1>9, <1>11 DEF ApprovedOK, Attempts
      <3>2. \A a \in Approved : a <= used'.attempts
        BY <1>3, <1>4, <3>1
      <3> QED
        BY <1>8, <1>11, <3>1, <3>2
    <2>2. \A a \in Attempts : request'[a] = "confirmed" => link'[a].yes
      BY <1>0, <1>8, <1>9 DEF ApprovedOK
    <2>3. \A a \in Attempts : link'[a].stage \in {"initial", "deriving"} =>
                                 a \notin Approved /\ request'[a] = "none"
      BY <1>0, <1>8, <1>9 DEF ApprovedOK
    <2> QED
      BY <1>0, <1>11, <2>1, <2>2, <2>3 DEF ApprovedOK
  <1>13. KeysOK'
    <2>1. \A a \in Attempts : \A n \in Nat : Accepted(link'[a], n) => a \in Approved
      BY <1>7, <1>8 DEF KeysOK
    <2>2. \A d \in Students : \/ config'[d] = NoConfig
                              \/ config'[d].key \in Approved /\ link'[config'[d].key].client = d
      BY <1>0, <1>8, <1>9, <1>11 DEF KeysOK
    <2> QED
      BY <1>0, <1>11, <2>1, <2>2 DEF KeysOK
  <1>14. ASSUME ~overlap' PROVE KeepsOK'
    <2>0. KeepsOK
      BY <1>0, <1>14
    <2>1. \A k : Superseded(k) => Superseded(k)'
      BY <1>0, <1>8, <1>9, <1>11, SupersededStays DEF ApprovedOK
    <2>2. ASSUME NEW n \in Nat PROVE ~Claimed(b, n)'
      <3>1. config'[link'[b].client] # [id |-> n, key |-> b]
        <4>1. config'[link'[b].client] = NoConfig /\ b # NoKey
          BY <1>0, <1>3, <1>6, <1>8 DEF NoKey, Attempts
        <4> QED
          BY <4>1 DEF NoConfig
      <3>2. ~Accepted(link'[b], n)
        BY <1>7, <1>8
      <3>3. ~(operator'.step \in {"settle", "send"} /\ operator'.attempt = b)
        BY <1>0, <1>9 DEF ApprovedOK, Approving
      <3> QED
        BY <3>1, <3>2, <3>3 DEF Claimed
    <2>3. Handed' \subseteq Handed
      <3>1. SUFFICES ASSUME NEW e \in Handed' PROVE e \in Handed
        OBVIOUS
      <3>2. e \in Entries /\ ~e.revoked /\ e.id \in Nat
        BY <3>1 DEF Handed, Entries
      <3>3. CASE e = Token /\ TokenClaimed'
        BY <1>0, <3>2, <3>3 DEF Handed, TokenClaimed
      <3>4. CASE /\ e.key \in Attempts /\ e.client = link'[e.key].client
                 /\ Claimed(e.key, e.id)' /\ ~Superseded(e.key)'
        <4>1. e.key # b
          BY <2>2, <3>2, <3>4
        <4>2. link'[e.key] = link[e.key]
          BY <1>8, <3>4, <4>1
        <4>3. Claimed(e.key, e.id)
          BY <1>0, <3>4, <4>2 DEF Claimed
        <4> QED
          BY <2>1, <3>2, <3>4, <4>2, <4>3 DEF Handed
      <3> QED
        BY <3>1, <3>3, <3>4 DEF Handed
    <2>4. /\ Token' = Token /\ store' = store /\ decode_keyring(disk)' = decode_keyring(disk)
          /\ enroll' = enroll /\ operator' = operator
      BY <1>0 DEF Token
    <2>5. CASE operator.step \in Unsaved
      <3>1. operator.attempt \in Attempts /\ operator.attempt # b
        BY <1>9, <1>11, <2>5 DEF ApprovedOK, Approving
      <3>2. Approval' = Approval
        BY <1>0, <1>8, <3>1 DEF Approval
      <3> QED
        BY <2>0, <2>3, <2>4, <3>2 DEF KeepsOK
    <2>6. CASE operator.step \notin Unsaved
      BY <2>0, <2>3, <2>4, <2>6 DEF KeepsOK, Unsaved
    <2> QED
      BY <2>5, <2>6
  <1> QED
    BY <1>10, <1>12, <1>13, <1>14

-----------------------------------------------------------------------------
(* The invariant and what follows from it.                                  *)

\* Nothing is paired and nothing is stored.
LEMMA InitialPairing ==
  ASSUME Init
  PROVE  PairingIInv
  <1> USE DEF Init
  <1>1. NoLink \in Links /\ GoodLink(NoLink)
    BY NoLinkGood DEF GoodLink
  <1>2. /\ Idle \in Tasks /\ Idle.step = "idle" /\ Idle.previous = {} /\ Idle.image = {}
    BY AtRest
  <1>3. /\ NoLink.down = <<>> /\ NoLink.stage = "initial"
    BY DEF NoLink
  <1>4. LinksOK
    <2>1. \A a \in Attempts : ~(a <= used.attempts)
      BY DEF Attempts
    <2>2. used \in [attempts : 0 .. MaxAttempts, faults : Nat]
      BY PairingAssumption
    <2> QED
      BY <1>1, <2>1, <2>2 DEF LinksOK
  <1>5. Approved = {} /\ approved \in Seq(Attempts)
    BY DEF Approved
  <1>6. ApprovedOK
    BY <1>2, <1>5 DEF ApprovedOK, Approving, Unsaved
  <1>7. \A a \in Attempts : \A n \in Nat : ~Accepted(link[a], n)
    BY <1>3 DEF Accepted
  <1>8. \A c \in Machines : config[c] = NoConfig
    BY DEF Machines
  <1>9. KeysOK
    <2>1. NoConfig \in [id : Nat, key : Keys]
      BY DEF NoConfig, Keys
    <2>2. config \in [Machines -> [id : Nat, key : Keys]]
      BY <2>1 DEF Machines
    <2>3. /\ \A c \in Students : config[c] = NoConfig
          /\ config[Provisioned] = NoConfig
      BY <1>8 DEF Machines
    <2> QED
      BY <1>2, <1>7, <2>2, <2>3, NothingKept DEF KeysOK
  <1>10. Handed = {}
    <2>1. ~TokenClaimed
      BY <1>2, <1>8 DEF TokenClaimed, Machines
    <2>2. \A k \in Attempts, n \in Nat : ~Claimed(k, n)
      <3>1. TAKE k \in Attempts, n \in Nat
      <3>2. link[k].client \in Machines /\ k # NoKey
        BY <1>1 DEF Links, Attempts, NoKey
      <3>3. config[link[k].client] # [id |-> n, key |-> k]
        BY <1>8, <3>2 DEF NoConfig
      <3> QED
        BY <1>2, <1>7, <3>3 DEF Claimed
    <2> QED
      BY <2>1, <2>2 DEF Handed, Entries
  <1>11. KeepsOK
    BY <1>2, <1>10 DEF KeepsOK, Unsaved
  <1> QED
    BY <1>4, <1>6, <1>9, <1>11 DEF PairingIInv

\* The parts of the invariant depend on the variables only.
LEMMA PairingStutters ==
  ASSUME PairingIInv, UNCHANGED vars
  PROVE  PairingIInv'
  <1>1. LinksOK'
    BY DEF PairingIInv, LinksOK, vars
  <1>2. Approved' = Approved
    BY DEF Approved, vars
  <1>3. ApprovedOK'
    BY <1>2 DEF PairingIInv, ApprovedOK, vars
  <1>4. KeysOK'
    BY <1>2 DEF PairingIInv, KeysOK, vars
  <1>5. Handed' = Handed /\ Approval' = Approval /\ Token' = Token
    BY DEF Handed, Approval, Token, Claimed, TokenClaimed, Superseded, vars
  <1>6. KeepsOK => KeepsOK'
    BY <1>5 DEF KeepsOK, vars
  <1> QED
    BY <1>1, <1>3, <1>4, <1>6 DEF PairingIInv, vars

\* Every step of the pairing keeps the invariant.
LEMMA PairingInductive ==
  ASSUME PairingIInv, [Next]_vars
  PROVE  PairingIInv'
  <1>0. LinksOK /\ ApprovedOK
    BY DEF PairingIInv
  <1>1. CASE \E c \in Students : attempt_pairing(c)
    BY <1>1, AttemptBegins
  <1>2. CASE \E a \in Attempts : Client(a)
    <2>1. PICK a \in Attempts : Client(a)
      BY <1>2
    <2>2. CASE ReceiveAccept(a)
      BY <2>2, AcceptanceTaken
    <2>3. CASE \/ ShowCode(a) \/ StudentAnswers(a) \/ AttemptEnds(a) \/ approval_deadline(a)
               \/ Heartbeat(a)
      BY <1>0, <2>3, ClientTalks, QuietStep
    <2> QED
      BY <2>1, <2>2, <2>3 DEF Client
  <1>3. CASE \E a \in Attempts : Server(a)
    BY <1>0, <1>3, ServerTalks, QuietStep
  <1>4. CASE Teacher
    <2>1. CASE \/ \E open \in BOOLEAN : set_pairing_beacon(open)
               \/ set_pairing_window \/ expire_pending_pairings
               \/ \E a \in Attempts : reject_pairing(a)
      BY <1>0, <2>1, TeacherTalks, QuietStep
    <2>2. CASE \E a \in Attempts : approve_pairing(a)
      BY <2>2, ApproveBegins
    <2>3. CASE approve_snapshot \/ approve_encode
      BY <2>3, ApproveCopies
    <2>4. CASE approve_rotate
      BY <2>4, ApproveRotates
    <2>5. CASE approve_write
      BY <2>5, ApproveWrites
    <2>6. CASE approve_settle
      BY <2>6, ApproveSettles
    <2>7. CASE approve_send
      BY <2>7, ApproveSends
    <2>8. CASE approve_fails
      BY <1>0, <2>8, ApproveFails, QuietStep
    <2> QED
      BY <1>4, <2>1, <2>2, <2>3, <2>4, <2>5, <2>6, <2>7, <2>8 DEF Teacher
  <1>5. CASE Enrollment
    BY <1>5, EnrollmentBegins, EnrollmentAccepts, EnrollmentWrites, EnrollmentSaved DEF Enrollment
  <1>6. CASE ServerRestarts
    BY <1>6, RestartKeeps
  <1>7. CASE UNCHANGED vars
    BY <1>7, PairingStutters
  <1> QED
    BY <1>1, <1>2, <1>3, <1>4, <1>5, <1>6, <1>7 DEF Next

\* The invariant holds in every state of the pairing.
THEOREM PairingInvariant == Spec => []PairingIInv
  <1>1. Init => PairingIInv
    BY InitialPairing
  <1>2. PairingIInv /\ [Next]_vars => PairingIInv'
    BY PairingInductive
  <1> QED
    BY <1>1, <1>2, PTL DEF Spec

\* A key that is in a sound store is the one resolve() finds under its number.
LEMMA Resolved ==
  ASSUME NEW s, Copy(s), NEW e \in s, ~e.revoked
  PROVE  resolve(s, e.client, e.id) = {e.key}
  BY DEF Copy, Sound, resolve

\* Every saved identity that was not replaced is in the store and in the file
\* keyring.cpp writes, unless an enrollment overlapped an approval: the keys that
\* approve_pairing() and process_enrollment() handed out survive failed writes,
\* restarts and late answers.
THEOREM KeysNeverLost == Spec => []KeysSurvive
  <1>1. PairingIInv => KeysSurvive
    <2>1. SUFFICES ASSUME PairingIInv, NEW c \in Machines, config[c] # NoConfig, ~overlap
                   PROVE  \/ /\ resolve(store, c, config[c].id) = {config[c].key}
                             /\ resolve(decode_keyring(disk), c, config[c].id) = {config[c].key}
                          \/ c # Provisioned /\ Superseded(config[c].key)
      BY DEF KeysSurvive, Machines
    <2>2. /\ Copy(store) /\ Copy(decode_keyring(disk)) /\ Handed \subseteq store
          /\ Handed \subseteq decode_keyring(disk)
      BY <2>1 DEF PairingIInv, KeysOK, KeepsOK
    <2>3. config[c] \in [id : Nat, key : Keys]
      BY <2>1 DEF PairingIInv, KeysOK
    <2>4. PICK e : e = Entry(c, config[c].id, config[c].key)
      OBVIOUS
    <2>5. /\ e \in Entries /\ ~e.revoked /\ e.client = c /\ e.id = config[c].id
          /\ e.key = config[c].key
      BY <2>3, <2>4 DEF Entry, Entries
    <2>6. ASSUME e \in Handed
          PROVE  /\ resolve(store, c, config[c].id) = {config[c].key}
                 /\ resolve(decode_keyring(disk), c, config[c].id) = {config[c].key}
      <3>1. e \in store /\ e \in decode_keyring(disk)
        BY <2>2, <2>6
      <3>2. resolve(store, e.client, e.id) = {e.key}
        BY <2>2, <2>5, <3>1, Resolved
      <3>3. resolve(decode_keyring(disk), e.client, e.id) = {e.key}
        BY <2>2, <2>5, <3>1, Resolved
      <3> QED
        BY <2>5, <3>2, <3>3
    <2>7. CASE c = Provisioned
      <3>1. config[c] = [id |-> TokenId, key |-> TokenKey]
        BY <2>1, <2>7 DEF PairingIInv, KeysOK
      <3>2. e = Token /\ TokenClaimed
        BY <2>1, <2>4, <2>7, <3>1 DEF Token, TokenClaimed
      <3>3. e \in Handed
        BY <2>5, <3>2 DEF Handed
      <3> QED
        BY <2>6, <3>3
    <2>8. CASE c \in Students /\ ~Superseded(config[c].key)
      <3>1. config[c].key \in Approved /\ link[config[c].key].client = c
        BY <2>1, <2>8 DEF PairingIInv, KeysOK
      <3>2. config[c].key \in Attempts
        BY <2>1, <3>1 DEF PairingIInv, ApprovedOK, Approved
      <3>3. config[c] = [id |-> config[c].id, key |-> config[c].key]
        BY <2>3
      <3>4. Claimed(e.key, e.id)
        BY <2>5, <3>1, <3>3 DEF Claimed
      <3>5. e \in Handed
        BY <2>5, <2>8, <3>1, <3>2, <3>4 DEF Handed
      <3> QED
        BY <2>6, <3>5
    <2> QED
      BY <2>1, <2>7, <2>8, PairingAssumption DEF Machines
  <1> QED
    BY <1>1, PairingInvariant, PTL

\* No store, file or machine holds a pairing key whose code the student did not
\* confirm or which the teacher did not approve (process_pairing_confirm(),
\* approve_pairing()).
THEOREM KeysConsented == Spec => []KeysNeedConsent
  <1>1. PairingIInv => KeysNeedConsent
    <2>1. SUFFICES ASSUME PairingIInv, NEW a \in Attempts,
                          a \in {e.key : e \in store \cup decode_keyring(disk)}
                                  \cup {config[c].key : c \in Students}
                   PROVE  link[a].yes /\ a \in Approved
      BY DEF KeysNeedConsent, Approved
    <2>2. a \in Approved
      <3>1. CASE \E e \in store \cup decode_keyring(disk) : e.key = a
        BY <2>1, <3>1 DEF PairingIInv, KeysOK, Consented
      <3>2. CASE \E c \in Students : config[c].key = a
        <4>1. PICK c \in Students : config[c].key = a
          BY <3>2
        <4>2. config[c] # NoConfig
          BY <2>1, <4>1 DEF NoConfig, NoKey, Attempts
        <4> QED
          BY <2>1, <4>1, <4>2 DEF PairingIInv, KeysOK
      <3> QED
        BY <2>1, <3>1, <3>2
    <2> QED
      BY <2>1, <2>2 DEF PairingIInv, ApprovedOK
  <1> QED
    BY <1>1, PairingInvariant, PTL

=============================================================================
