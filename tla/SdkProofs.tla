----------------------------- MODULE SdkProofs -----------------------------
(***************************************************************************)
(* The client's numbers agree with the server's (NumbersAgree), for every  *)
(* number of texts and of reconnections.                                   *)
(*                                                                         *)
(* NumbersAgree looks only at refused texts and is not inductive.  SdkInv  *)
(* says why none is refused: on the connection in use the texts under way  *)
(* are numbered without a gap from the server's next ID up to the ID       *)
(* getClientID gives next (NumInv).  That needs three things more: a       *)
(* hang-up is the last packet of its connection (EofInv), so the server    *)
(* does not reset its count before a text; the requests name earlier       *)
(* connections (RequestInv), so that their log-out does not reset it       *)
(* either; and a Send belongs to the table in use only between two         *)
(* ReConns (GenInv).                                                       *)
(***************************************************************************)
EXTENDS Sdk, SequenceTheorems, TLAPS

\* What may be on its way on connection e: a login or reconnect names an earlier
\* connection, its answer names e.
UpPkts(e) ==
  {p \in [k : {"login", "reconn", "up", "ack", "eof"}, id : Nat, m : Nat] :
     p.k \in {"login", "reconn"} => p.id < e}
DnAny == [k : {"login", "reconn", "upack", "push"}, id : Nat, m : Nat]
DnPkts(e) == {p \in DnAny : p.k \in {"login", "reconn"} => p.id = e}
LoopSteps == {"top", "read", "handle", "hand", "done"}

ClientTypes ==
  /\ usr \in [pc : {"boot", "idle", "write"}, id : Nat, m : Nat, gen : Nat]
  /\ said \in Nat /\ table \in Nat /\ gen \in Nat
  /\ rec \in {"idle", "close", "dial", "send", "done"}
  /\ loop \in [pc : LoopSteps, e : 1..cur, p : DnAny]
  /\ loop.pc = "handle" => loop.p \in DnPkts(loop.e)
  /\ cur \in Dials /\ open \subseteq {cur} /\ connID \in 0..cur
NetTypes ==
  /\ DOMAIN upNet = Dials /\ \A e \in Dials : upNet[e] \in Seq(UpPkts(e))
  /\ DOMAIN dnNet = Dials /\ \A e \in Dials : dnNet[e] \in Seq(DnPkts(e))
ServerTypes ==
  /\ logged \subseteq 1..cur
  /\ maxID \in [Dials -> Nat] /\ last \in [Dials -> Nat]
  /\ reordered \in BOOLEAN /\ torn \in BOOLEAN
  /\ \A d \in dropped : d[2] \in 1..cur
\* A connection not dialled yet.
Undialled ==
  \A e \in Dials : e > cur => upNet[e] = <<>> /\ dnNet[e] = <<>> /\ maxID[e] = 0
STypes == ClientTypes /\ NetTypes /\ ServerTypes /\ Undialled

\* Until reConn has sent its request nobody can have answered it: connID is still
\* that of an earlier connection, and so is an answer that loop has in hand.
Plain(q) == \A i \in 1..Len(q) : q[i].k \notin {"login", "reconn"}
RequestInv ==
  /\ rec # "idle" => usr.pc # "boot"
  /\ rec \in {"close", "dial"} => cur < MaxDials
  /\ rec = "dial" => cur \notin open
  /\ rec = "send" =>
       /\ connID < cur
       /\ Plain(upNet[cur]) /\ Plain(dnNet[cur])
       /\ loop.pc = "handle" /\ loop.p.k \in {"login", "reconn"} => loop.e < cur
\* A Send that took its ID from the table in use.
Current == usr.pc = "write" /\ usr.gen = gen
GenInv ==
  /\ usr.gen <= gen
  /\ Current => rec \in {"idle", "done"} /\ table = usr.id + 1
  /\ rec \in {"close", "dial", "send"} => table = 0
\* A hang-up is the last thing a connection sends.
EofInv ==
  \A i \in 1..Len(upNet[cur]) : upNet[cur][i].k = "eof" => i = Len(upNet[cur]) /\ cur \notin open

\* The texts of q are numbered from lo up to hi, hi not included: n[i] is the number
\* due at the i-th packet.
Numbered(q, lo, hi) ==
  \E n \in [1..Len(q) + 1 -> Nat] :
    /\ n[1] = lo /\ n[Len(q) + 1] = hi
    /\ \A i \in 1..Len(q) : /\ n[i + 1] = IF q[i].k = "up" THEN n[i] + 1 ELSE n[i]
                            /\ q[i].k = "up" => q[i].id = n[i]
NextID == IF Current THEN usr.id ELSE table
NumInv ==
  /\ \E hi \in Nat : /\ Numbered(upNet[cur], maxID[cur], hi)
                     /\ cur \in open /\ rec \notin {"close", "dial"} => hi = NextID
  /\ \A d \in dropped : d[2] # cur
OrderInv == ~reordered => EofInv /\ (~torn => NumInv)

SdkInv == STypes /\ RequestInv /\ GenInv /\ OrderInv

-----------------------------------------------------------------------------
\* RemoveAt takes one element out and keeps the others in their order.
LEMMA RemoveAtIs ==
  ASSUME NEW S, NEW q \in Seq(S), NEW i \in 1..Len(q)
  PROVE  /\ RemoveAt(q, i) \in Seq(S)
         /\ Len(RemoveAt(q, i)) = Len(q) - 1
         /\ \A j \in 1..Len(q) - 1 : RemoveAt(q, i)[j] = IF j < i THEN q[j] ELSE q[j + 1]
<1>1. Len(q) \in Nat /\ i \in Nat /\ 1 <= i /\ i <= Len(q)
  OBVIOUS
<1>2. /\ SubSeq(q, 1, i - 1) \in Seq(S) /\ Len(SubSeq(q, 1, i - 1)) = i - 1
      /\ \A j \in 1..i - 1 : SubSeq(q, 1, i - 1)[j] = q[j]
  BY <1>1
<1>3. /\ SubSeq(q, i + 1, Len(q)) \in Seq(S) /\ Len(SubSeq(q, i + 1, Len(q))) = Len(q) - i
      /\ \A j \in 1..Len(q) - i : SubSeq(q, i + 1, Len(q))[j] = q[j + i]
  BY <1>1
<1> DEFINE s == SubSeq(q, 1, i - 1)
           t == SubSeq(q, i + 1, Len(q))
<1>4. RemoveAt(q, i) = s \o t
  BY DEF RemoveAt
<1> HIDE DEF s, t
<1>5. s \in Seq(S) /\ t \in Seq(S) /\ Len(s) = i - 1 /\ Len(t) = Len(q) - i
  BY <1>2, <1>3 DEF s, t
<1>6. /\ s \o t \in Seq(S) /\ Len(s \o t) = Len(q) - 1
      /\ \A j \in 1..Len(q) - 1 : (s \o t)[j] = IF j < i THEN s[j] ELSE t[j - (i - 1)]
  <2>1. /\ s \o t \in Seq(S) /\ Len(s \o t) = Len(s) + Len(t)
        /\ \A j \in 1..Len(s) + Len(t) : (s \o t)[j] = IF j <= Len(s) THEN s[j] ELSE t[j - Len(s)]
    BY <1>5, ConcatProperties
  <2>2. Len(s) + Len(t) = Len(q) - 1 /\ \A j \in 1..Len(q) - 1 : j <= Len(s) <=> j < i
    BY <1>1, <1>5
  <2> QED BY <1>5, <2>1, <2>2
<1>7. \A j \in 1..Len(q) - 1 : (s \o t)[j] = IF j < i THEN q[j] ELSE q[j + 1]
  <2> TAKE j \in 1..Len(q) - 1
  <2>1. CASE j < i
    <3>1. s[j] = q[j]
      BY <1>1, <1>2, <2>1 DEF s
    <3> QED BY <1>6, <2>1, <3>1
  <2>2. CASE ~(j < i)
    <3>1. j - (i - 1) \in 1..Len(q) - i /\ j - (i - 1) + i = j + 1
      BY <1>1, <2>2
    <3>2. t[j - (i - 1)] = q[j + 1]
      BY <1>3, <3>1 DEF t
    <3> QED BY <1>1, <1>6, <2>2, <3>2
  <2> QED BY <1>1, <2>1, <2>2
<1> QED BY <1>4, <1>6, <1>7

\* Lists of packets.
LEMMA AppendIs ==
  ASSUME NEW S, NEW q \in Seq(S), NEW p \in S
  PROVE  /\ Append(q, p) \in Seq(S) /\ Len(Append(q, p)) = Len(q) + 1 /\ Len(q) \in Nat
         /\ Append(q, p)[Len(q) + 1] = p
         /\ \A i \in 1..Len(q) : Append(q, p)[i] = q[i]
OBVIOUS

\* The numbering of an empty list, of a list with one more packet, and of a list
\* without its first.
LEMMA NumberedEmpty ==
  ASSUME NEW lo \in Nat
  PROVE  Numbered(<<>>, lo, lo)
<1>1. Len(<<>>) = 0
  OBVIOUS
<1> DEFINE n == [i \in 1..1 |-> lo]
<1>2. n \in [1..Len(<<>>) + 1 -> Nat] /\ n[1] = lo /\ n[Len(<<>>) + 1] = lo
  BY <1>1
<1>3. 1..Len(<<>>) = {}
  BY <1>1
<1> HIDE DEF n
<1> QED BY <1>2, <1>3 DEF Numbered

LEMMA NumberedAppend ==
  ASSUME NEW S, NEW q \in Seq(S), NEW p \in S, NEW lo \in Nat, NEW hi \in Nat,
         Numbered(q, lo, hi), p.k = "up" => p.id = hi
  PROVE  Numbered(Append(q, p), lo, IF p.k = "up" THEN hi + 1 ELSE hi)
<1> DEFINE L == Len(q)
           r == Append(q, p)
           new == IF p.k = "up" THEN hi + 1 ELSE hi
<1>1. PICK n \in [1..L + 1 -> Nat] :
        /\ n[1] = lo /\ n[L + 1] = hi
        /\ \A i \in 1..L : /\ n[i + 1] = IF q[i].k = "up" THEN n[i] + 1 ELSE n[i]
                           /\ q[i].k = "up" => q[i].id = n[i]
  BY DEF Numbered
<1>2. L \in Nat /\ Len(r) = L + 1 /\ r[L + 1] = p /\ \A i \in 1..L : r[i] = q[i]
  BY AppendIs
<1>3. new \in Nat
  OBVIOUS
<1> DEFINE m == [i \in 1..L + 2 |-> IF i = L + 2 THEN new ELSE n[i]]
<1> HIDE DEF L, r, new
<1>4. m \in [1..Len(r) + 1 -> Nat]
  BY <1>1, <1>2, <1>3
<1>5. \A i \in 1..L + 1 : m[i] = n[i]
  BY <1>2
<1>6. m[L + 2] = new
  BY <1>2
<1> HIDE DEF m
<1>7. m[1] = lo /\ m[Len(r) + 1] = new
  BY <1>1, <1>2, <1>5, <1>6
<1>8. ASSUME NEW i \in 1..Len(r)
      PROVE  /\ m[i + 1] = IF r[i].k = "up" THEN m[i] + 1 ELSE m[i]
             /\ r[i].k = "up" => r[i].id = m[i]
  <2>1. CASE i \in 1..L
    <3>1. m[i] = n[i] /\ m[i + 1] = n[i + 1] /\ r[i] = q[i]
      BY <1>2, <1>5, <2>1
    <3> QED BY <1>1, <2>1, <3>1
  <2>2. CASE i = L + 1
    <3>1. m[i] = hi /\ m[i + 1] = new /\ r[i] = p
      BY <1>1, <1>2, <1>5, <1>6, <2>2
    <3> QED BY <3>1 DEF new
  <2> QED BY <1>2, <2>1, <2>2
<1>9. Numbered(r, lo, new)
  BY <1>4, <1>7, <1>8 DEF Numbered
<1> QED BY <1>9 DEF r, new

LEMMA NumberedTail ==
  ASSUME NEW S, NEW q \in Seq(S), Len(q) > 0, NEW lo \in Nat, NEW hi \in Nat,
         Numbered(q, lo, hi)
  PROVE  /\ Numbered(RemoveAt(q, 1), IF q[1].k = "up" THEN lo + 1 ELSE lo, hi)
         /\ q[1].k = "up" => q[1].id = lo
<1> DEFINE L == Len(q)
           r == RemoveAt(q, 1)
<1>1. PICK n \in [1..L + 1 -> Nat] :
        /\ n[1] = lo /\ n[L + 1] = hi
        /\ \A i \in 1..L : /\ n[i + 1] = IF q[i].k = "up" THEN n[i] + 1 ELSE n[i]
                           /\ q[i].k = "up" => q[i].id = n[i]
  BY DEF Numbered
<1>2. L \in Nat /\ L >= 1 /\ 1 \in 1..L
  OBVIOUS
<1>3. Len(r) = L - 1 /\ \A j \in 1..L - 1 : r[j] = q[j + 1]
  <2>1. Len(r) = L - 1 /\ \A j \in 1..L - 1 : r[j] = IF j < 1 THEN q[j] ELSE q[j + 1]
    BY <1>2, RemoveAtIs
  <2>2. \A j \in 1..L - 1 : ~(j < 1)
    BY <1>2
  <2> QED BY <2>1, <2>2
<1> DEFINE m == [i \in 1..L |-> n[i + 1]]
<1> HIDE DEF L, r
<1>4. m \in [1..Len(r) + 1 -> Nat]
  BY <1>1, <1>2, <1>3
<1>5. \A i \in 1..L : m[i] = n[i + 1]
  OBVIOUS
<1> HIDE DEF m
<1>6. m[1] = (IF q[1].k = "up" THEN lo + 1 ELSE lo) /\ m[Len(r) + 1] = hi
  BY <1>1, <1>2, <1>3, <1>5
<1>7. ASSUME NEW i \in 1..Len(r)
      PROVE  /\ m[i + 1] = IF r[i].k = "up" THEN m[i] + 1 ELSE m[i]
             /\ r[i].k = "up" => r[i].id = m[i]
  <2>1. i + 1 \in 1..L /\ i \in 1..L - 1 /\ i \in 1..L
    BY <1>2, <1>3
  <2>2. m[i] = n[i + 1] /\ m[i + 1] = n[i + 1 + 1] /\ r[i] = q[i + 1]
    BY <1>3, <1>5, <2>1
  <2> QED BY <1>1, <2>1, <2>2
<1>8. Numbered(r, IF q[1].k = "up" THEN lo + 1 ELSE lo, hi)
  BY <1>4, <1>6, <1>7 DEF Numbered
<1> QED BY <1>1, <1>2, <1>8 DEF r

-----------------------------------------------------------------------------
LEMMA PktIs ==
  ASSUME NEW k, NEW id, NEW m
  PROVE  /\ Pkt(k, id, m).k = k /\ Pkt(k, id, m).id = id /\ Pkt(k, id, m).m = m
BY DEF Pkt

LEMMA UpPktIs ==
  ASSUME NEW e \in Dials, NEW id \in Nat, NEW m \in Nat
  PROVE  /\ Pkt("up", id, m) \in UpPkts(e)
         /\ Pkt("ack", id, m) \in UpPkts(e)
         /\ Pkt("eof", id, m) \in UpPkts(e)
         /\ id < e => Pkt("login", id, m) \in UpPkts(e) /\ Pkt("reconn", id, m) \in UpPkts(e)
BY DEF Pkt, UpPkts

LEMMA DnPktIs ==
  ASSUME NEW e \in Dials, NEW id \in Nat, NEW m \in Nat
  PROVE  /\ Pkt("upack", id, m) \in DnPkts(e) /\ Pkt("push", id, m) \in DnPkts(e)
         /\ id = e => Pkt("login", id, m) \in DnPkts(e) /\ Pkt("reconn", id, m) \in DnPkts(e)
BY DEF Pkt, DnPkts, DnAny

LEMMA DialsAreNat == Dials \subseteq Nat \ {0} /\ NoText \in Nat
BY BoundsAssumption DEF Dials, NoText

LEMMA PlainAppend ==
  ASSUME NEW S, NEW q \in Seq(S), NEW p \in S, Plain(q), p.k \notin {"login", "reconn"}
  PROVE  Plain(Append(q, p))
<1>1. \A i \in 1..Len(q) + 1 : i \in 1..Len(q) \/ i = Len(q) + 1
  BY LenProperties
<1> QED BY <1>1, AppendIs DEF Plain

\* A write reaches the connection in use while it is open, and no other.
LEMMA SendIs ==
  ASSUME STypes, NEW p \in UpPkts(cur), upNet' = send(cur, p)
  PROVE  /\ DOMAIN upNet' = Dials /\ \A e \in Dials : upNet'[e] \in Seq(UpPkts(e))
         /\ \A e \in Dials : e # cur => upNet'[e] = upNet[e]
         /\ upNet'[cur] = IF cur \in open THEN Append(upNet[cur], p) ELSE upNet[cur]
<1>1. cur \in Dials /\ DOMAIN upNet = Dials /\ \A e \in Dials : upNet[e] \in Seq(UpPkts(e))
  BY DEF STypes, ClientTypes, NetTypes
<1>2. DOMAIN upNet' = Dials
  BY <1>1 DEF send
<1>3. \A e \in Dials : upNet'[e] = IF e = cur /\ cur \in open THEN Append(upNet[cur], p) ELSE upNet[e]
  BY <1>1 DEF send
<1>4. Append(upNet[cur], p) \in Seq(UpPkts(cur))
  BY <1>1, AppendIs
<1> QED BY <1>1, <1>2, <1>3, <1>4

-----------------------------------------------------------------------------
\* The list of the connection in use stays as it is.
LEMMA StillKeeps ==
  ASSUME STypes, OrderInv, cur' = cur, upNet'[cur] = upNet[cur], maxID'[cur] = maxID[cur],
         open' \subseteq open, torn => torn', reordered => reordered',
         \A d \in dropped' : d \in dropped \/ d[2] # cur,
         cur \in open' /\ rec' \notin {"close", "dial"} =>
           rec \notin {"close", "dial"} /\ NextID' = NextID
  PROVE  OrderInv'
<1> SUFFICES ASSUME ~reordered' PROVE EofInv' /\ (~torn' => NumInv')
  BY DEF OrderInv
<1>1. EofInv
  BY DEF OrderInv
<1>2. EofInv'
  BY <1>1 DEF EofInv
<1>3. ASSUME ~torn' PROVE NumInv'
  <2>1. NumInv
    BY <1>3 DEF OrderInv
  <2>2. PICK hi \in Nat : /\ Numbered(upNet[cur], maxID[cur], hi)
                          /\ cur \in open /\ rec \notin {"close", "dial"} => hi = NextID
    BY <2>1 DEF NumInv
  <2>3. Numbered(upNet'[cur'], maxID'[cur'], hi)
    BY <2>2
  <2>4. Numbered(upNet[cur], maxID[cur], hi)'
    BY <2>3
  <2>5. cur' \in open' /\ rec' \notin {"close", "dial"} => hi = NextID'
    BY <2>2
  <2>6. \A d \in dropped' : d[2] # cur'
    BY <2>1 DEF NumInv
  <2> QED BY <2>4, <2>5, <2>6 DEF NumInv
<1> QED BY <1>2, <1>3

\* The client writes a packet: a text carries the next number.
LEMMA WriteKeeps ==
  ASSUME STypes, OrderInv, UNCHANGED <<cur, maxID, dropped, reordered>>,
         NEW p \in UpPkts(cur), upNet' = send(cur, p),
         open' \subseteq open, p.k = "eof" => cur \notin open', torn => torn',
         ~torn' /\ cur \in open /\ p.k = "up" => p.id = NextID /\ rec \notin {"close", "dial"},
         cur \in open' /\ rec' \notin {"close", "dial"} /\ ~torn' =>
           /\ rec \notin {"close", "dial"}
           /\ NextID' = IF p.k = "up" THEN NextID + 1 ELSE NextID
  PROVE  OrderInv'
<1>1. CASE cur \notin open
  BY <1>1, SendIs, StillKeeps DEF STypes
<1>2. CASE cur \in open
  <2> DEFINE q == upNet[cur]
  <2>1. q \in Seq(UpPkts(cur)) /\ upNet'[cur] = Append(q, p) /\ maxID[cur] \in Nat
    BY <1>2, SendIs DEF STypes, NetTypes, ClientTypes, ServerTypes
  <2>2. /\ Len(Append(q, p)) = Len(q) + 1 /\ Len(q) \in Nat /\ Append(q, p)[Len(q) + 1] = p
        /\ \A i \in 1..Len(q) : Append(q, p)[i] = q[i]
    BY <2>1, AppendIs
  <2> SUFFICES ASSUME ~reordered PROVE EofInv' /\ (~torn' => NumInv')
    BY DEF OrderInv
  <2>3. EofInv
    BY DEF OrderInv
  <2>4. EofInv'
    <3>1. \A i \in 1..Len(q) : q[i].k # "eof"
      BY <1>2, <2>3 DEF EofInv
    <3>2. \A i \in 1..Len(q) + 1 : i \in 1..Len(q) \/ i = Len(q) + 1
      BY <2>2
    <3>3. \A i \in 1..Len(q) + 1 : Append(q, p)[i].k = "eof" => i = Len(q) + 1 /\ cur \notin open'
      BY <2>2, <3>1, <3>2
    <3> HIDE DEF q
    <3> QED BY <2>1, <2>2, <3>3 DEF EofInv
  <2>5. ASSUME ~torn' PROVE NumInv'
    <3>1. NumInv
      BY <2>5 DEF OrderInv
    <3>2. PICK hi \in Nat : /\ Numbered(q, maxID[cur], hi)
                            /\ rec \notin {"close", "dial"} => hi = NextID
      BY <1>2, <3>1 DEF NumInv
    <3> DEFINE new == IF p.k = "up" THEN hi + 1 ELSE hi
    <3>3. p.k = "up" => p.id = hi
      BY <1>2, <2>5, <3>2
    <3> HIDE DEF q
    <3>4. Numbered(Append(q, p), maxID[cur], new) /\ new \in Nat
      BY <2>1, <3>2, <3>3, NumberedAppend
    <3>5. cur \in open' /\ rec' \notin {"close", "dial"} => new = NextID'
      BY <2>5, <3>2
    <3> HIDE DEF new
    <3>6. Numbered(upNet[cur], maxID[cur], new)'
      BY <2>1, <3>4
    <3>7. \A d \in dropped' : d[2] # cur'
      BY <3>1 DEF NumInv
    <3> QED BY <3>4, <3>5, <3>6, <3>7 DEF NumInv
  <2> QED BY <2>4, <2>5
<1> QED BY <1>1, <1>2

-----------------------------------------------------------------------------
\* A step of the client that writes p, or nothing.
LEMMA ClientFrame ==
  ASSUME STypes, UNCHANGED <<cur, dnNet, server>>, torn' \in BOOLEAN,
         upNet' = upNet \/ \E p \in UpPkts(cur) : upNet' = send(cur, p)
  PROVE  NetTypes' /\ ServerTypes' /\ Undialled'
<1>1. /\ DOMAIN upNet' = Dials /\ \A e \in Dials : upNet'[e] \in Seq(UpPkts(e))
      /\ \A e \in Dials : e # cur => upNet'[e] = upNet[e]
  BY SendIs DEF STypes, NetTypes
<1>2. cur \in Nat /\ cur \in Dials
  BY DialsAreNat DEF STypes, ClientTypes
<1>3. NetTypes'
  BY <1>1 DEF STypes, NetTypes
<1>4. ServerTypes'
  BY DEF STypes, ServerTypes, server
<1>5. Undialled'
  BY <1>1, <1>2 DEF STypes, Undialled, server
<1> QED BY <1>3, <1>4, <1>5

LEMMA LoginKeeps ==
  ASSUME SdkInv, login
  PROVE  SdkInv'
<1>1. STypes /\ ClientTypes /\ RequestInv /\ GenInv /\ OrderInv
  BY DEF SdkInv, STypes
<1>2. /\ usr.pc = "boot" /\ usr' = [usr EXCEPT !.pc = "idle"] /\ rec = "idle"
      /\ UNCHANGED <<said, rec, loop, cur, open, connID, table, gen, dnNet, server, torn>>
  BY <1>1 DEF login, RequestInv
<1>3. PICK p \in UpPkts(cur) : upNet' = send(cur, p) /\ p.k = "login"
  <2>1. cur \in Dials /\ 0 < cur /\ 0 \in Nat
    BY <1>1, DialsAreNat DEF ClientTypes
  <2>2. Pkt("login", 0, NoText) \in UpPkts(cur) /\ Pkt("login", 0, NoText).k = "login"
    BY <2>1, UpPktIs, PktIs, DialsAreNat
  <2> QED BY <2>2 DEF login
<1>4. ClientTypes'
  BY <1>1, <1>2 DEF ClientTypes
<1>5. NetTypes' /\ ServerTypes' /\ Undialled'
  <2>1. torn' \in BOOLEAN
    BY <1>1, <1>2 DEF STypes, ServerTypes
  <2> QED BY <1>1, <1>2, <1>3, <2>1, ClientFrame
<1>6. usr'.pc = "idle" /\ usr'.gen = usr.gen /\ ~Current /\ ~Current'
  BY <1>1, <1>2 DEF ClientTypes, Current
<1>7. RequestInv' /\ GenInv'
  BY <1>1, <1>2, <1>6 DEF RequestInv, GenInv
<1>8. OrderInv'
  <2>1. NextID' = NextID
    BY <1>2, <1>6 DEF NextID
  <2>2. UNCHANGED <<maxID, dropped, reordered>>
    BY <1>2 DEF server
  <2> QED BY <1>1, <1>2, <1>3, <2>1, <2>2, WriteKeeps
<1> QED BY <1>4, <1>5, <1>7, <1>8 DEF SdkInv, STypes

LEMMA GetClientIDKeeps ==
  ASSUME SdkInv, getClientID
  PROVE  SdkInv'
<1>1. STypes /\ ClientTypes /\ RequestInv /\ GenInv /\ OrderInv
  BY DEF SdkInv, STypes
<1>2. /\ usr.pc = "idle" /\ usr' = [pc |-> "write", id |-> table, m |-> said + 1, gen |-> gen]
      /\ rec \in {"idle", "done"} /\ said' = said + 1 /\ table' = table + 1
      /\ UNCHANGED <<rec, loop, cur, open, connID, gen, upNet, dnNet, server, torn>>
  BY DEF getClientID
<1>3. ClientTypes'
  BY <1>1, <1>2 DEF ClientTypes
<1>4. NetTypes' /\ ServerTypes' /\ Undialled'
  <2>1. torn' \in BOOLEAN
    BY <1>1, <1>2 DEF STypes, ServerTypes
  <2> QED BY <1>1, <1>2, <2>1, ClientFrame
<1>5. ~Current /\ Current' /\ usr'.id = table /\ usr'.gen = gen /\ usr'.pc = "write" /\ gen \in Nat
  BY <1>1, <1>2 DEF ClientTypes, Current
<1>6. RequestInv' /\ GenInv'
  BY <1>1, <1>2, <1>5 DEF RequestInv, GenInv
<1>7. OrderInv'
  <2>1. NextID' = NextID
    BY <1>5 DEF NextID
  <2>2. UNCHANGED <<maxID, dropped, reordered>>
    BY <1>2 DEF server
  <2> QED BY <1>1, <1>2, <2>1, <2>2, StillKeeps
<1> QED BY <1>3, <1>4, <1>6, <1>7 DEF SdkInv, STypes

LEMMA SendKeeps ==
  ASSUME SdkInv, Send
  PROVE  SdkInv'
<1>1. STypes /\ ClientTypes /\ RequestInv /\ GenInv /\ OrderInv
  BY DEF SdkInv, STypes
<1>2. /\ usr.pc = "write" /\ usr' = [usr EXCEPT !.pc = "idle"]
      /\ torn' = (torn \/ (usr.gen # gen /\ cur \in open))
      /\ UNCHANGED <<said, rec, loop, cur, open, connID, table, gen, dnNet, server>>
  BY DEF Send
<1>3. PICK p \in UpPkts(cur) : upNet' = send(cur, p) /\ p.k = "up" /\ p.id = usr.id
  <2>1. cur \in Dials /\ usr.id \in Nat /\ usr.m \in Nat
    BY <1>1 DEF ClientTypes
  <2>2. Pkt("up", usr.id, usr.m) \in UpPkts(cur)
    BY <2>1, UpPktIs
  <2>3. Pkt("up", usr.id, usr.m).k = "up" /\ Pkt("up", usr.id, usr.m).id = usr.id
    BY PktIs
  <2> QED BY <2>2, <2>3 DEF Send
<1>4. ClientTypes'
  BY <1>1, <1>2 DEF ClientTypes
<1>5. NetTypes' /\ ServerTypes' /\ Undialled'
  <2>1. torn' \in BOOLEAN
    BY <1>1, <1>2 DEF STypes, ServerTypes
  <2> QED BY <1>1, <1>2, <1>3, <2>1, ClientFrame
<1>6. usr'.pc = "idle" /\ usr'.gen = usr.gen /\ ~Current'
  BY <1>1, <1>2 DEF ClientTypes, Current
<1>7. RequestInv'
  <2>1. ASSUME rec = "send" PROVE Plain(upNet'[cur])
    <3>1. Plain(upNet[cur]) /\ upNet[cur] \in Seq(UpPkts(cur))
      BY <1>1, <2>1 DEF RequestInv, STypes, NetTypes, ClientTypes
    <3> QED BY <1>1, <1>3, <3>1, SendIs, PlainAppend
  <2> QED BY <1>1, <1>2, <1>6, <2>1 DEF RequestInv
<1>8. GenInv'
  BY <1>1, <1>2, <1>6 DEF GenInv
<1>9. OrderInv'
  <2>1. UNCHANGED <<maxID, dropped, reordered>>
    BY <1>2 DEF server
  <2>2. ASSUME ~torn', cur \in open
        PROVE  /\ p.id = NextID /\ rec \notin {"close", "dial"}
               /\ NextID' = NextID + 1
    <3>1. Current
      BY <1>2, <2>2 DEF Current
    <3>2. rec \in {"idle", "done"} /\ table = usr.id + 1
      BY <1>1, <3>1 DEF GenInv
    <3> QED BY <1>2, <1>3, <1>6, <3>1, <3>2 DEF NextID
  <2> QED BY <1>1, <1>2, <1>3, <2>1, <2>2, WriteKeeps
<1> QED BY <1>4, <1>5, <1>7, <1>8, <1>9 DEF SdkInv, STypes

\* A hang-up: quit's Close, and reConn's before it dials.
LEMMA HangupKeeps ==
  ASSUME SdkInv, UNCHANGED <<usr, said, loop, cur, connID, table, gen, dnNet, server, torn>>,
         \/ upNet' = Hangup(cur) /\ open' = open \ {cur}
         \/ UNCHANGED <<upNet, open>>,
         rec' = rec \/ (rec = "close" /\ rec' = "dial" /\ cur \notin open')
  PROVE  SdkInv'
<1>1. STypes /\ ClientTypes /\ RequestInv /\ GenInv /\ OrderInv
  BY DEF SdkInv, STypes
<1>2. PICK p \in UpPkts(cur) : p.k = "eof" /\ ((upNet' = send(cur, p) /\ cur \notin open') \/ UNCHANGED <<upNet, open>>)
  <2>1. cur \in Dials /\ 0 \in Nat
    BY <1>1 DEF ClientTypes
  <2>2. Pkt("eof", 0, NoText) \in UpPkts(cur) /\ Pkt("eof", 0, NoText).k = "eof"
    BY <2>1, UpPktIs, PktIs, DialsAreNat
  <2>3. Hangup(cur) = send(cur, Pkt("eof", 0, NoText))
    BY DEF Hangup, send
  <2> QED BY <2>2, <2>3
<1>3. ClientTypes'
  BY <1>1 DEF ClientTypes
<1>4. NetTypes' /\ ServerTypes' /\ Undialled'
  <2>1. torn' \in BOOLEAN
    BY <1>1 DEF STypes, ServerTypes
  <2> QED BY <1>1, <1>2, <2>1, ClientFrame
<1>5. RequestInv'
  <2>1. ASSUME rec = "send" PROVE Plain(upNet'[cur])
    <3>1. Plain(upNet[cur]) /\ upNet[cur] \in Seq(UpPkts(cur))
      BY <1>1, <2>1 DEF RequestInv, STypes, NetTypes, ClientTypes
    <3> QED BY <1>1, <1>2, <3>1, SendIs, PlainAppend
  <2> QED BY <1>1, <2>1 DEF RequestInv
<1>6. GenInv'
  BY <1>1 DEF GenInv, Current
<1>7. OrderInv'
  <2>1. NextID' = NextID
    BY DEF NextID, Current
  <2>2. UNCHANGED <<maxID, dropped, reordered>>
    BY DEF server
  <2>3. CASE UNCHANGED <<upNet, open>>
    BY <1>1, <2>1, <2>2, <2>3, StillKeeps
  <2>4. CASE upNet' = send(cur, p) /\ cur \notin open'
    <3>1. open' \subseteq open
      OBVIOUS
    <3> QED BY <1>1, <1>2, <2>1, <2>2, <2>4, <3>1, WriteKeeps
  <2> QED BY <1>2, <2>3, <2>4
<1> QED BY <1>3, <1>4, <1>5, <1>6, <1>7 DEF SdkInv, STypes

LEMMA ReConnKeeps ==
  ASSUME SdkInv, ReConn
  PROVE  SdkInv'
<1>1. STypes /\ ClientTypes /\ RequestInv /\ GenInv /\ OrderInv
  BY DEF SdkInv, STypes
<1>2. /\ usr.pc # "boot" /\ rec' = "close" /\ table' = 0 /\ gen' = gen + 1 /\ cur < MaxDials
      /\ UNCHANGED <<usr, said, loop, cur, open, connID, upNet, dnNet, server, torn>>
  BY DEF ReConn
<1>3. ClientTypes'
  BY <1>1, <1>2 DEF ClientTypes
<1>4. NetTypes' /\ ServerTypes' /\ Undialled'
  <2>1. torn' \in BOOLEAN
    BY <1>1, <1>2 DEF STypes, ServerTypes
  <2> QED BY <1>1, <1>2, <2>1, ClientFrame
<1>5. RequestInv'
  BY <1>2 DEF RequestInv
<1>6. GenInv'
  <2>1. usr.gen \in Nat /\ gen \in Nat /\ usr.gen <= gen
    BY <1>1 DEF ClientTypes, GenInv
  <2>2. usr'.gen < gen'
    BY <1>2, <2>1
  <2> QED BY <1>2, <2>1, <2>2 DEF GenInv, Current
<1>7. OrderInv'
  <2>1. UNCHANGED <<maxID, dropped, reordered>>
    BY <1>2 DEF server
  <2> QED BY <1>1, <1>2, <2>1, StillKeeps
<1> QED BY <1>3, <1>4, <1>5, <1>6, <1>7 DEF SdkInv, STypes

\* A new connection: nothing is on its way on it, and both sides count from zero.
LEMMA DialKeeps ==
  ASSUME SdkInv, rec = "dial", cur' = cur + 1, open' = open \cup {cur + 1}, rec' = "send",
         UNCHANGED <<usr, said, loop, connID, table, gen, upNet, dnNet, server, torn>>
  PROVE  SdkInv'
<1>1. STypes /\ ClientTypes /\ RequestInv /\ GenInv /\ OrderInv
  BY DEF SdkInv, STypes
<1>2. cur \in Nat /\ cur + 1 > cur /\ cur + 1 \in Dials /\ open = {}
  BY <1>1, BoundsAssumption DEF ClientTypes, RequestInv, Dials
<1>3. upNet[cur + 1] = <<>> /\ dnNet[cur + 1] = <<>> /\ maxID[cur + 1] = 0
  BY <1>1, <1>2 DEF STypes, Undialled
<1>4. ClientTypes'
  BY <1>1, <1>2 DEF ClientTypes
<1>5. NetTypes' /\ ServerTypes' /\ Undialled'
  <2>1. 1..cur \subseteq 1..cur + 1 /\ \A e \in Dials : e > cur + 1 => e > cur
    BY <1>2, DialsAreNat
  <2>2. NetTypes'
    BY <1>1 DEF STypes, NetTypes
  <2>3. ServerTypes'
    BY <1>1, <2>1 DEF STypes, ServerTypes, server
  <2>4. Undialled'
    BY <1>1, <2>1 DEF STypes, Undialled, server
  <2> QED BY <2>2, <2>3, <2>4
<1>6. RequestInv'
  <2>1. connID < cur + 1 /\ loop.e < cur + 1
    BY <1>1, <1>2 DEF ClientTypes
  <2>2. Plain(<<>>)
    BY DEF Plain
  <2> QED BY <1>1, <1>3, <2>1, <2>2 DEF RequestInv
<1>7. GenInv'
  BY <1>1 DEF GenInv, Current
<1>8. OrderInv'
  <2>1. EofInv'
    BY <1>3 DEF EofInv
  <2>2. NumInv'
    <3>1. ~Current /\ table = 0
      BY <1>1 DEF GenInv
    <3>2. NextID' = 0
      BY <3>1 DEF NextID, Current
    <3>3. Numbered(upNet[cur], maxID[cur], 0)'
      <4>1. Numbered(<<>>, 0, 0)
        BY NumberedEmpty
      <4> QED BY <1>3, <4>1 DEF server
    <3>4. \A d \in dropped' : d[2] # cur'
      BY <1>1, <1>2 DEF STypes, ServerTypes, server
    <3>5. 0 \in Nat
      OBVIOUS
    <3> QED BY <3>2, <3>3, <3>4, <3>5 DEF NumInv
  <2> QED BY <2>1, <2>2 DEF OrderInv
<1> QED BY <1>4, <1>5, <1>6, <1>7, <1>8 DEF SdkInv, STypes

\* The request to reconnect names an earlier connection.
LEMMA RequestKeeps ==
  ASSUME SdkInv, reConn
  PROVE  SdkInv'
<1>1. STypes /\ ClientTypes /\ RequestInv /\ GenInv /\ OrderInv
  BY DEF SdkInv, STypes
<1>2. /\ rec = "send" /\ rec' = "done"
      /\ UNCHANGED <<usr, said, loop, cur, open, connID, table, gen, dnNet, server, torn>>
  BY DEF reConn
<1>3. PICK p \in UpPkts(cur) : upNet' = send(cur, p) /\ p.k = "reconn"
  <2>1. cur \in Dials /\ connID \in Nat /\ connID < cur
    BY <1>1, <1>2 DEF ClientTypes, RequestInv
  <2>2. Pkt("reconn", connID, NoText) \in UpPkts(cur) /\ Pkt("reconn", connID, NoText).k = "reconn"
    BY <2>1, UpPktIs, PktIs, DialsAreNat
  <2> QED BY <2>2 DEF reConn
<1>4. ClientTypes'
  BY <1>1, <1>2 DEF ClientTypes
<1>5. NetTypes' /\ ServerTypes' /\ Undialled'
  <2>1. torn' \in BOOLEAN
    BY <1>1, <1>2 DEF STypes, ServerTypes
  <2> QED BY <1>1, <1>2, <1>3, <2>1, ClientFrame
<1>6. RequestInv' /\ GenInv'
  BY <1>1, <1>2 DEF RequestInv, GenInv, Current
<1>7. OrderInv'
  <2>1. NextID' = NextID
    BY <1>2 DEF NextID, Current
  <2>2. UNCHANGED <<maxID, dropped, reordered>>
    BY <1>2 DEF server
  <2> QED BY <1>1, <1>2, <1>3, <2>1, <2>2, WriteKeeps
<1> QED BY <1>4, <1>5, <1>6, <1>7 DEF SdkInv, STypes

\* Steps that only move loop or end the process.
LEMMA IdleKeeps ==
  ASSUME SdkInv, loop' \in [pc : LoopSteps, e : 1..cur, p : DnAny],
         loop' = loop \/ loop'.pc # "handle",
         UNCHANGED <<usr, said, rec, cur, open, connID, table, gen, upNet, dnNet, server, torn>>
  PROVE  SdkInv'
<1>1. STypes /\ ClientTypes /\ RequestInv /\ GenInv /\ OrderInv
  BY DEF SdkInv, STypes
<1>2. ClientTypes'
  BY <1>1 DEF ClientTypes
<1>3. NetTypes' /\ ServerTypes' /\ Undialled'
  <2>1. torn' \in BOOLEAN
    BY <1>1 DEF STypes, ServerTypes
  <2> QED BY <1>1, <2>1, ClientFrame
<1>4. RequestInv' /\ GenInv'
  BY <1>1 DEF RequestInv, GenInv, Current
<1>5. OrderInv'
  <2>1. NextID' = NextID
    BY DEF NextID, Current
  <2>2. UNCHANGED <<maxID, dropped, reordered>>
    BY DEF server
  <2> QED BY <1>1, <2>1, <2>2, StillKeeps
<1> QED BY <1>2, <1>3, <1>4, <1>5 DEF SdkInv, STypes

\* loop reads a packet.
LEMMA LoopReadKeeps ==
  ASSUME SdkInv, LoopRead
  PROVE  SdkInv'
<1>1. STypes /\ ClientTypes /\ NetTypes /\ RequestInv /\ GenInv /\ OrderInv
  BY DEF SdkInv, STypes
<1>2. /\ loop.e = cur /\ cur \in open /\ dnNet[cur] # <<>> /\ cur \in Dials
      /\ dnNet[cur] \in Seq(DnPkts(cur))
      /\ UNCHANGED <<usr, said, rec, cur, open, connID, table, gen, upNet, server, torn>>
  BY <1>1 DEF LoopRead, ClientTypes, NetTypes
<1>3. PICK p \in DnPkts(cur) : p = Head(dnNet[cur])
  BY <1>2
<1>4. /\ dnNet' = [dnNet EXCEPT ![cur] = Tail(@)]
      /\ loop' = [loop EXCEPT !.pc = "handle", !.p = p]
  BY <1>2, <1>3 DEF LoopRead
<1>5. /\ loop' \in [pc : LoopSteps, e : 1..cur, p : DnAny]
      /\ loop'.pc = "handle" /\ loop'.p = p /\ loop'.e = cur
  BY <1>1, <1>2, <1>4 DEF ClientTypes, LoopSteps, DnPkts
<1>6. ClientTypes'
  BY <1>1, <1>2, <1>5 DEF ClientTypes
<1>7. /\ Tail(dnNet[cur]) \in Seq(DnPkts(cur))
      /\ Len(Tail(dnNet[cur])) = Len(dnNet[cur]) - 1
      /\ \A i \in 1..Len(Tail(dnNet[cur])) : Tail(dnNet[cur])[i] = dnNet[cur][i + 1]
      /\ Head(dnNet[cur]) = dnNet[cur][1] /\ Len(dnNet[cur]) \in Nat /\ Len(dnNet[cur]) >= 1
  BY <1>2, HeadTailProperties, EmptySeq
<1>8. NetTypes'
  BY <1>1, <1>2, <1>4, <1>7 DEF NetTypes
<1>9. ServerTypes' /\ Undialled'
  <2>1. cur \in Nat /\ \A e \in Dials : e > cur => e # cur /\ dnNet'[e] = dnNet[e]
    BY <1>1, <1>2, <1>4, DialsAreNat DEF NetTypes
  <2>2. ServerTypes'
    BY <1>1, <1>2 DEF STypes, ServerTypes, server
  <2>3. Undialled'
    BY <1>1, <1>2, <2>1 DEF STypes, Undialled, server
  <2> QED BY <2>2, <2>3
<1>10. RequestInv'
  <2>1. ASSUME rec = "send" PROVE Plain(dnNet'[cur]) /\ p.k \notin {"login", "reconn"}
    <3>1. Plain(dnNet[cur])
      BY <1>1, <2>1 DEF RequestInv
    <3>2. p.k \notin {"login", "reconn"}
      BY <1>3, <1>7, <3>1 DEF Plain
    <3>3. dnNet'[cur] = Tail(dnNet[cur])
      BY <1>1, <1>2, <1>4 DEF NetTypes
    <3>4. \A i \in 1..Len(Tail(dnNet[cur])) : i + 1 \in 1..Len(dnNet[cur])
      BY <1>7
    <3>5. Plain(Tail(dnNet[cur]))
      BY <1>7, <3>1, <3>4 DEF Plain
    <3> QED BY <3>2, <3>3, <3>5
  <2> QED BY <1>1, <1>2, <1>5, <2>1 DEF RequestInv
<1>11. GenInv'
  BY <1>1, <1>2 DEF GenInv, Current
<1>12. OrderInv'
  <2>1. NextID' = NextID
    BY <1>2 DEF NextID, Current
  <2>2. UNCHANGED <<maxID, dropped, reordered>>
    BY <1>2 DEF server
  <2> QED BY <1>1, <1>2, <2>1, <2>2, StillKeeps
<1> QED BY <1>6, <1>8, <1>9, <1>10, <1>11, <1>12 DEF SdkInv, STypes

\* loop handles it: an ACK of a push goes out, or connID becomes that of the
\* connection the answer was read from, which may be gone by now.
LEMMA LoopHandleKeeps ==
  ASSUME SdkInv, LoopHandle
  PROVE  SdkInv'
<1>1. STypes /\ ClientTypes /\ NetTypes /\ RequestInv /\ GenInv /\ OrderInv
  BY DEF SdkInv, STypes
<1>2. /\ loop.pc = "handle" /\ cur \in Dials /\ connID \in 0..cur /\ loop.e \in 1..cur
      /\ UNCHANGED <<usr, said, rec, cur, open, table, gen, dnNet, server, torn>>
      /\ loop' = [loop EXCEPT !.pc = "hand"]
  BY <1>1 DEF LoopHandle, ClientTypes
<1>3. PICK p \in DnPkts(loop.e) : p = loop.p
  BY <1>1, <1>2 DEF ClientTypes
<1>4. \/ upNet' = send(cur, Pkt("ack", connID, NoText)) /\ connID' = connID
      \/ upNet' = upNet /\ connID' = IF p.k \in {"login", "reconn"} THEN p.id ELSE connID
  BY <1>3 DEF LoopHandle, handPushMsg, handAckMsg
<1>5. p.k \in {"login", "reconn"} => p.id = loop.e
  BY DEF DnPkts
<1>6. connID' \in 0..cur
  BY <1>2, <1>4, <1>5, DialsAreNat
<1>7. ClientTypes'
  <2>1. loop' \in [pc : LoopSteps, e : 1..cur, p : DnAny] /\ loop'.pc # "handle"
    BY <1>1, <1>2 DEF ClientTypes, LoopSteps
  <2> QED BY <1>1, <1>2, <1>6, <2>1 DEF ClientTypes
<1>8. PICK a \in UpPkts(cur) : a.k = "ack" /\ (upNet' = upNet \/ upNet' = send(cur, a))
  <2>1. Pkt("ack", connID, NoText) \in UpPkts(cur) /\ Pkt("ack", connID, NoText).k = "ack"
    BY <1>2, UpPktIs, PktIs, DialsAreNat
  <2> QED BY <1>4, <2>1
<1>9. /\ DOMAIN upNet' = Dials /\ \A e \in Dials : upNet'[e] \in Seq(UpPkts(e))
      /\ \A e \in Dials : e # cur => upNet'[e] = upNet[e]
  BY <1>1, <1>2, <1>8, SendIs DEF NetTypes
<1>10. NetTypes'
  BY <1>1, <1>2, <1>9 DEF NetTypes
<1>11. ServerTypes' /\ Undialled'
  <2>1. cur \in Nat /\ \A e \in Dials : e > cur => e # cur
    BY <1>2, DialsAreNat
  <2>2. ServerTypes'
    BY <1>1, <1>2 DEF STypes, ServerTypes, server
  <2>3. Undialled'
    BY <1>1, <1>2, <1>9, <2>1 DEF STypes, Undialled, server
  <2> QED BY <2>2, <2>3
<1>12. RequestInv'
  <2>1. loop'.pc # "handle"
    BY <1>1, <1>2 DEF ClientTypes
  <2>2. ASSUME rec = "send" PROVE connID' < cur /\ Plain(upNet'[cur])
    <3>1. /\ Plain(upNet[cur]) /\ connID < cur
          /\ p.k \in {"login", "reconn"} => loop.e < cur
      BY <1>1, <1>2, <1>3, <2>2 DEF RequestInv
    <3>2. connID' < cur
      BY <1>4, <1>5, <3>1
    <3>3. upNet[cur] \in Seq(UpPkts(cur))
      BY <1>1, <1>2 DEF NetTypes
    <3>4. Plain(upNet'[cur])
      BY <1>1, <1>2, <1>8, <3>1, <3>3, SendIs, PlainAppend
    <3> QED BY <3>2, <3>4
  <2> QED BY <1>1, <1>2, <2>1, <2>2 DEF RequestInv
<1>13. GenInv'
  BY <1>1, <1>2 DEF GenInv, Current
<1>14. OrderInv'
  <2>1. NextID' = NextID
    BY <1>2 DEF NextID, Current
  <2>2. UNCHANGED <<maxID, dropped, reordered>>
    BY <1>2 DEF server
  <2>3. CASE upNet' = upNet
    BY <1>1, <1>2, <2>1, <2>2, <2>3, StillKeeps
  <2>4. CASE upNet' = send(cur, a)
    BY <1>1, <1>2, <1>8, <2>1, <2>2, <2>4, WriteKeeps
  <2> QED BY <1>8, <2>3, <2>4
<1> QED BY <1>7, <1>10, <1>11, <1>12, <1>13, <1>14 DEF SdkInv, STypes

-----------------------------------------------------------------------------
\* What the answer to packet p of connection e changes.
Answer(e, p) == ServeLogin(e, p) \/ ServeUp(e, p) \/ ServeAck(e, p) \/ ServeEof(e, p)

\* The server's own state.
LEMMA AnswerCounts ==
  ASSUME STypes, NEW e \in 1..cur, NEW p \in UpPkts(e), Answer(e, p)
  PROVE  /\ maxID' \in [Dials -> Nat] /\ last' \in [Dials -> Nat]
         /\ logged' \subseteq 1..cur
         /\ \A d \in dropped' : d \in dropped \/ d[2] = e
         /\ e # cur => maxID'[cur] = maxID[cur]
         /\ e = cur /\ p.k = "up" /\ p.id = maxID[cur] =>
              maxID'[cur] = maxID[cur] + 1 /\ dropped' = dropped
         /\ e = cur /\ p.k \in {"login", "reconn", "ack"} =>
              maxID'[cur] = maxID[cur] /\ dropped' = dropped
         /\ p.k = "eof" => dropped' = dropped
<1>1. /\ maxID \in [Dials -> Nat] /\ last \in [Dials -> Nat] /\ logged \subseteq 1..cur
      /\ cur \in Dials /\ cur \in Nat /\ e \in Dials /\ e <= cur
      /\ p.id \in Nat /\ p.m \in Nat /\ 0 \in Nat /\ NoText \in Nat
      /\ p.k \in {"login", "reconn"} => p.id < e
  <2>1. cur \in 1..MaxDials /\ MaxDials \in Nat
    BY BoundsAssumption DEF STypes, ClientTypes, Dials
  <2>2. cur \in Nat /\ e \in Dials /\ e <= cur
    BY <2>1 DEF Dials
  <2>3. p.id \in Nat /\ p.m \in Nat /\ (p.k \in {"login", "reconn"} => p.id < e)
    BY DEF UpPkts
  <2> QED BY <2>1, <2>2, <2>3, DialsAreNat DEF STypes, ServerTypes, Dials
<1>2. CASE ServeLogin(e, p)
  <2>1. /\ p.k \in {"login", "reconn"} /\ dropped' = dropped
        /\ logged' = (logged \ {p.id}) \cup {e}
        /\ maxID' = [f \in Dials |-> IF f \in ({p.id} \cap Dials) \cap logged THEN 0 ELSE maxID[f]]
        /\ last' = [f \in Dials |-> IF f \in {p.id} \cap Dials THEN NoText ELSE last[f]]
    BY <1>2 DEF ServeLogin, LogOut
  <2>2. maxID'[cur] = maxID[cur]
    <3>1. cur # p.id
      BY <1>1, <2>1
    <3> QED BY <1>1, <2>1, <3>1
  <2>3. maxID' \in [Dials -> Nat] /\ last' \in [Dials -> Nat] /\ logged' \subseteq 1..cur
    BY <1>1, <2>1
  <2> QED BY <2>1, <2>2, <2>3
<1>3. CASE ServeUp(e, p)
  <2>1. p.k = "up" /\ logged' = logged
    BY <1>3 DEF ServeUp
  <2>2. CASE p.id = maxID[e]
    <3>1. /\ dropped' = dropped /\ maxID' = [maxID EXCEPT ![e] = @ + 1]
          /\ last' = [last EXCEPT ![e] = IF e \in logged THEN p.m ELSE @]
      BY <1>3, <2>2 DEF ServeUp
    <3>2. maxID' \in [Dials -> Nat] /\ last' \in [Dials -> Nat]
      BY <1>1, <3>1
    <3>3. maxID'[cur] = IF e = cur THEN maxID[cur] + 1 ELSE maxID[cur]
      BY <1>1, <3>1
    <3> QED BY <1>1, <2>1, <3>1, <3>2, <3>3
  <2>3. CASE p.id # maxID[e]
    <3>1. dropped' = dropped \cup {<<p.m, e>>} /\ maxID' = maxID /\ last' = last
      BY <1>3, <2>3 DEF ServeUp
    <3> QED BY <1>1, <2>1, <2>3, <3>1
  <2> QED BY <2>2, <2>3
<1>4. CASE ServeAck(e, p)
  <2>1. /\ p.k = "ack" /\ UNCHANGED <<logged, maxID, dropped>>
        /\ last' = [f \in Dials |-> IF f = p.id /\ f \in logged THEN NoText ELSE last[f]]
    BY <1>4 DEF ServeAck
  <2>2. last' \in [Dials -> Nat]
    BY <1>1, <2>1
  <2> QED BY <1>1, <2>1, <2>2
<1>5. CASE ServeEof(e, p)
  <2>1. /\ p.k = "eof" /\ dropped' = dropped /\ logged' = logged \ {e}
        /\ maxID' = [f \in Dials |-> IF f \in {e} \cap logged THEN 0 ELSE maxID[f]]
        /\ last' = [f \in Dials |-> IF f \in {e} THEN NoText ELSE last[f]]
    BY <1>5 DEF ServeEof, LogOut
  <2>2. maxID' \in [Dials -> Nat] /\ last' \in [Dials -> Nat] /\ logged' \subseteq 1..cur
    BY <1>1, <2>1
  <2>3. e # cur => maxID'[cur] = maxID[cur]
    BY <1>1, <2>1
  <2> QED BY <2>1, <2>2, <2>3
<1> QED BY <1>2, <1>3, <1>4, <1>5 DEF Answer

\* The packets to the client: only a login or a reconnect is answered by one that
\* sets connID.
LEMMA AnswerSends ==
  ASSUME STypes, NEW e \in 1..cur, NEW p \in UpPkts(e), Answer(e, p)
  PROVE  /\ DOMAIN dnNet' = Dials /\ \A f \in Dials : dnNet'[f] \in Seq(DnPkts(f))
         /\ \A f \in Dials : f # e => dnNet'[f] = dnNet[f]
         /\ Plain(dnNet[e]) /\ p.k \notin {"login", "reconn"} => Plain(dnNet'[e])
<1>1. /\ DOMAIN dnNet = Dials /\ \A f \in Dials : dnNet[f] \in Seq(DnPkts(f))
      /\ e \in Dials /\ e \in Nat /\ p.m \in Nat /\ 0 \in Nat /\ NoText \in Nat
  <2>1. cur \in 1..MaxDials /\ MaxDials \in Nat
    BY BoundsAssumption DEF STypes, ClientTypes, Dials
  <2>2. p.m \in Nat
    BY DEF UpPkts
  <2> QED BY <2>1, <2>2, DialsAreNat DEF STypes, NetTypes, Dials
<1>2. CASE ServeLogin(e, p)
  <2>1. /\ p.k \in {"login", "reconn"}
        /\ dnNet' = [dnNet EXCEPT ![e] = Append(@, Pkt(p.k, e, NoText))]
    BY <1>2 DEF ServeLogin, Push
  <2>2. Pkt(p.k, e, NoText) \in DnPkts(e)
    BY <1>1, <2>1, DnPktIs
  <2>3. Append(dnNet[e], Pkt(p.k, e, NoText)) \in Seq(DnPkts(e))
    BY <1>1, <2>2, AppendIs
  <2> QED BY <1>1, <2>1, <2>3
<1>3. CASE ServeUp(e, p) /\ p.id = maxID[e]
  <2> DEFINE a == Pkt("upack", e, NoText)
             b == Pkt("push", 0, p.m)
             q == dnNet[e]
  <2>1. dnNet' = [dnNet EXCEPT ![e] = @ \o <<a, b>>]
    BY <1>3 DEF ServeUp
  <2>2. a \in DnPkts(e) /\ b \in DnPkts(e) /\ a.k = "upack" /\ b.k = "push"
    BY <1>1, DnPktIs, PktIs
  <2> HIDE DEF a, b
  <2>3. q \in Seq(DnPkts(e))
    BY <1>1
  <2>4. q \o <<a, b>> = Append(Append(q, a), b)
    BY <2>2, <2>3
  <2>5. Append(q, a) \in Seq(DnPkts(e)) /\ Append(Append(q, a), b) \in Seq(DnPkts(e))
    BY <2>2, <2>3, AppendIs
  <2>6. Plain(q) => Plain(Append(Append(q, a), b))
    BY <2>2, <2>3, <2>5, PlainAppend
  <2>7. dnNet'[e] = Append(Append(q, a), b)
    BY <1>1, <2>1, <2>4
  <2>8. DOMAIN dnNet' = Dials /\ \A f \in Dials : f # e => dnNet'[f] = dnNet[f]
    BY <1>1, <2>1
  <2> HIDE DEF q
  <2>9. \A f \in Dials : dnNet'[f] \in Seq(DnPkts(f))
    BY <1>1, <2>5, <2>7, <2>8
  <2> QED BY <2>6, <2>7, <2>8, <2>9 DEF q
<1>4. CASE ServeUp(e, p) /\ p.id # maxID[e]
  <2>1. dnNet' = dnNet
    BY <1>4 DEF ServeUp
  <2> QED BY <1>1, <2>1
<1>5. CASE ServeAck(e, p) \/ ServeEof(e, p)
  <2>1. dnNet' = dnNet
    BY <1>5 DEF ServeAck, ServeEof
  <2> QED BY <1>1, <2>1
<1> QED BY <1>2, <1>3, <1>4, <1>5 DEF Answer

\* The first packet of the connection in use is answered, in order and with no text
\* torn: its number is the one due.
LEMMA InOrderKeeps ==
  ASSUME STypes, EofInv, ~torn => NumInv, NEW p \in UpPkts(cur), Len(upNet[cur]) > 0,
         p = upNet[cur][1], upNet'[cur] = RemoveAt(upNet[cur], 1), Answer(cur, p),
         UNCHANGED <<client, torn>>
  PROVE  EofInv' /\ (~torn' => NumInv')
<1> DEFINE q == upNet[cur]
           r == RemoveAt(q, 1)
<1>1. /\ q \in Seq(UpPkts(cur)) /\ cur \in 1..cur /\ maxID[cur] \in Nat /\ maxID'[cur] \in Nat
      /\ cur' = cur /\ open' = open /\ rec' = rec /\ torn' = torn /\ NextID' = NextID
  <2>1. cur \in Dials /\ cur \in 1..cur
    BY DialsAreNat DEF STypes, ClientTypes
  <2>2. maxID' \in [Dials -> Nat]
    BY <2>1, AnswerCounts
  <2> QED BY <2>1, <2>2 DEF STypes, NetTypes, ServerTypes, client, NextID, Current
<1>2. Len(q) \in Nat /\ 1 \in 1..Len(q)
  BY <1>1
<1>3. r \in Seq(UpPkts(cur)) /\ Len(r) = Len(q) - 1 /\ \A j \in 1..Len(q) - 1 : r[j] = q[j + 1]
  <2>1. /\ r \in Seq(UpPkts(cur)) /\ Len(r) = Len(q) - 1
        /\ \A j \in 1..Len(q) - 1 : r[j] = IF j < 1 THEN q[j] ELSE q[j + 1]
    BY <1>1, <1>2, RemoveAtIs
  <2>2. \A j \in 1..Len(q) - 1 : ~(j < 1)
    BY <1>2
  <2> QED BY <2>1, <2>2
<1>4. \A j \in 1..Len(q) : q[j].k = "eof" => j = Len(q) /\ cur \notin open
  BY DEF EofInv
<1>5. p = q[1] /\ upNet'[cur'] = r
  BY <1>1
<1>6. EofInv'
  <2>1. \A j \in 1..Len(q) - 1 : j + 1 \in 1..Len(q)
    BY <1>2
  <2> HIDE DEF q, r
  <2>2. \A j \in 1..Len(r) : r[j].k = "eof" => j = Len(r) /\ cur \notin open
    BY <1>2, <1>3, <1>4, <2>1
  <2> QED BY <1>1, <1>5, <2>2 DEF EofInv
<1>7. ASSUME ~torn PROVE NumInv'
  <2>1. NumInv
    BY <1>7
  <2>2. PICK hi \in Nat : /\ Numbered(q, maxID[cur], hi)
                          /\ cur \in open /\ rec \notin {"close", "dial"} => hi = NextID
    BY <2>1 DEF NumInv
  <2>3. /\ Numbered(r, IF p.k = "up" THEN maxID[cur] + 1 ELSE maxID[cur], hi)
        /\ p.k = "up" => p.id = maxID[cur]
    BY <1>1, <1>5, <2>2, NumberedTail
  <2>4. /\ p.k = "up" => maxID'[cur] = maxID[cur] + 1
        /\ p.k \in {"login", "reconn", "ack"} => maxID'[cur] = maxID[cur]
        /\ dropped' = dropped
        /\ p.k \in {"login", "reconn", "up", "ack", "eof"}
    <3>1. p.k \in {"login", "reconn", "up", "ack", "eof"}
      BY DEF UpPkts
    <3>2. /\ p.k = "up" /\ p.id = maxID[cur] => maxID'[cur] = maxID[cur] + 1 /\ dropped' = dropped
          /\ p.k \in {"login", "reconn", "ack"} => maxID'[cur] = maxID[cur] /\ dropped' = dropped
          /\ p.k = "eof" => dropped' = dropped
      BY <1>1, AnswerCounts
    <3> QED BY <2>3, <3>1, <3>2
  <2>5. \A d \in dropped' : d[2] # cur'
    BY <1>1, <2>1, <2>4 DEF NumInv
  <2>6. CASE p.k = "eof"
    <3>1. Len(q) = 1 /\ cur \notin open
      BY <1>2, <1>4, <1>5, <2>6
    <3>2. r = <<>>
      <4>1. r \in Seq(UpPkts(cur)) /\ Len(r) = 0
        BY <1>3, <3>1
      <4> HIDE DEF r
      <4> QED BY <4>1, EmptySeq
    <3>3. Numbered(r, maxID'[cur], maxID'[cur])
      BY <1>1, <3>2, NumberedEmpty
    <3> HIDE DEF r
    <3>4. PICK b \in Nat : b = maxID'[cur]
      BY <1>1
    <3>5. Numbered(upNet[cur], maxID[cur], b)'
      BY <1>1, <1>5, <3>3, <3>4
    <3>6. cur' \notin open'
      BY <1>1, <3>1
    <3> QED BY <2>5, <3>4, <3>5, <3>6 DEF NumInv
  <2>7. CASE p.k # "eof"
    <3> HIDE DEF r
    <3>1. Numbered(r, maxID'[cur], hi)
      BY <2>3, <2>4, <2>7
    <3>2. Numbered(upNet[cur], maxID[cur], hi)'
      BY <1>1, <1>5, <3>1
    <3>3. cur' \in open' /\ rec' \notin {"close", "dial"} => hi = NextID'
      BY <1>1, <2>2
    <3> QED BY <2>5, <3>2, <3>3 DEF NumInv
  <2> QED BY <2>6, <2>7
<1> QED BY <1>1, <1>6, <1>7

LEMMA ServeKeeps ==
  ASSUME SdkInv, NEW e \in Dials, Serve(e)
  PROVE  SdkInv'
<1>1. STypes /\ ClientTypes /\ NetTypes /\ ServerTypes /\ Undialled /\ RequestInv /\ GenInv /\ OrderInv
  BY DEF SdkInv, STypes
<1>2. PICK i \in (1..Len(upNet[e])) \cap {1, 2} :
        /\ upNet' = [upNet EXCEPT ![e] = RemoveAt(@, i)]
        /\ reordered' = (reordered \/ i = 2)
        /\ Answer(e, upNet[e][i])
  BY DEF Serve, Answer
<1> DEFINE p == upNet[e][i]
<1>3. /\ UNCHANGED <<client, torn>>
      /\ UNCHANGED <<usr, said, rec, loop, cur, open, connID, table, gen, torn>>
  BY DEF Serve, client
<1>4. upNet[e] \in Seq(UpPkts(e)) /\ p \in UpPkts(e) /\ i \in 1..Len(upNet[e]) /\ Len(upNet[e]) > 0
  <2>1. upNet[e] \in Seq(UpPkts(e))
    BY <1>1 DEF NetTypes
  <2> QED BY <2>1
<1>5. e \in 1..cur /\ cur \in Dials /\ cur \in Nat
  <2>1. upNet[e] # <<>>
    BY <1>4
  <2>2. ~(e > cur)
    BY <1>1, <2>1 DEF Undialled
  <2> QED BY <1>1, <2>2, DialsAreNat DEF ClientTypes
<1>6. /\ RemoveAt(upNet[e], i) \in Seq(UpPkts(e))
      /\ Len(RemoveAt(upNet[e], i)) = Len(upNet[e]) - 1
      /\ \A j \in 1..Len(upNet[e]) - 1 :
           RemoveAt(upNet[e], i)[j] = IF j < i THEN upNet[e][j] ELSE upNet[e][j + 1]
  BY <1>4, RemoveAtIs
<1>7. /\ DOMAIN upNet' = Dials /\ upNet'[e] = RemoveAt(upNet[e], i)
      /\ \A f \in Dials : f # e => upNet'[f] = upNet[f]
  BY <1>1, <1>2 DEF NetTypes
<1> HIDE DEF p
<1>8. Answer(e, p)
  BY <1>2 DEF p
<1>9. /\ maxID' \in [Dials -> Nat] /\ last' \in [Dials -> Nat] /\ logged' \subseteq 1..cur
      /\ \A d \in dropped' : d \in dropped \/ d[2] = e
      /\ e # cur => maxID'[cur] = maxID[cur]
  BY <1>1, <1>4, <1>5, <1>8, AnswerCounts
<1>10. /\ DOMAIN dnNet' = Dials /\ \A f \in Dials : dnNet'[f] \in Seq(DnPkts(f))
       /\ \A f \in Dials : f # e => dnNet'[f] = dnNet[f]
       /\ Plain(dnNet[e]) /\ p.k \notin {"login", "reconn"} => Plain(dnNet'[e])
  BY <1>1, <1>4, <1>5, <1>8, AnswerSends
<1>11. NetTypes'
  <2>1. \A f \in Dials : upNet'[f] \in Seq(UpPkts(f))
    BY <1>1, <1>6, <1>7 DEF NetTypes
  <2> QED BY <1>7, <1>10, <2>1 DEF NetTypes
<1>12. ServerTypes'
  <2>1. reordered' \in BOOLEAN /\ torn' \in BOOLEAN
    BY <1>1, <1>2, <1>3 DEF ServerTypes
  <2>2. \A d \in dropped' : d[2] \in 1..cur
    BY <1>1, <1>5, <1>9 DEF ServerTypes
  <2> QED BY <1>3, <1>9, <2>1, <2>2 DEF ServerTypes
<1>13. Undialled'
  <2>1. ASSUME NEW f \in Dials, f > cur
        PROVE  upNet'[f] = <<>> /\ dnNet'[f] = <<>> /\ maxID'[f] = 0
    <3>1. f # e /\ upNet[f] = <<>> /\ dnNet[f] = <<>> /\ maxID[f] = 0
      BY <1>1, <1>5, <2>1, DialsAreNat DEF Undialled
    <3>2. maxID'[f] = maxID[f] \/ maxID'[f] = 0
      BY <1>1, <1>8, <3>1
      DEF Answer, ServeLogin, ServeUp, ServeAck, ServeEof, LogOut, ServerTypes
    <3> QED BY <1>7, <1>10, <3>1, <3>2
  <2> QED BY <1>3, <2>1 DEF Undialled
<1>14. ClientTypes'
  BY <1>1, <1>3 DEF ClientTypes
<1>15. RequestInv'
  <2>1. ASSUME rec = "send" PROVE Plain(upNet'[cur]) /\ Plain(dnNet'[cur])
    <3>1. Plain(upNet[cur]) /\ Plain(dnNet[cur])
      BY <1>1, <2>1 DEF RequestInv
    <3>2. CASE e # cur
      BY <1>5, <1>7, <1>10, <3>1, <3>2
    <3>3. CASE e = cur
      <4>1. p.k \notin {"login", "reconn"}
        BY <1>4, <3>1, <3>3 DEF Plain, p
      <4>2. Plain(dnNet'[cur])
        BY <1>10, <3>1, <3>3, <4>1
      <4>3. Len(upNet[e]) \in Nat /\ \A j \in 1..Len(upNet[e]) - 1 : j \in 1..Len(upNet[e]) /\ j + 1 \in 1..Len(upNet[e])
        BY <1>4
      <4>4. Plain(RemoveAt(upNet[e], i))
        BY <1>6, <3>1, <3>3, <4>3 DEF Plain
      <4> QED BY <1>7, <3>3, <4>2, <4>4
    <3> QED BY <3>2, <3>3
  <2> QED BY <1>1, <1>3, <2>1 DEF RequestInv
<1>16. GenInv'
  BY <1>1, <1>3 DEF GenInv, Current
<1>17. OrderInv'
  <2>1. NextID' = NextID
    BY <1>3 DEF NextID, Current
  <2>2. CASE e # cur
    <3>1. upNet'[cur] = upNet[cur] /\ maxID'[cur] = maxID[cur]
      BY <1>5, <1>7, <1>9, <2>2
    <3>2. \A d \in dropped' : d \in dropped \/ d[2] # cur
      BY <1>9, <2>2
    <3>3. reordered => reordered'
      BY <1>2, Zenon
    <3>4. (torn => torn') /\ open' \subseteq open /\ cur' = cur /\ rec' = rec
      BY <1>3
    <3> QED BY <1>1, <2>1, <3>1, <3>2, <3>3, <3>4, StillKeeps
  <2>3. CASE e = cur
    <3> SUFFICES ASSUME ~reordered' PROVE EofInv' /\ (~torn' => NumInv')
      BY DEF OrderInv
    <3>1. i = 1 /\ ~reordered
      BY <1>2
    <3>2. EofInv /\ (~torn => NumInv)
      BY <1>1, <3>1 DEF OrderInv
    <3>3. /\ p \in UpPkts(cur) /\ Len(upNet[cur]) > 0 /\ p = upNet[cur][1]
          /\ upNet'[cur] = RemoveAt(upNet[cur], 1) /\ Answer(cur, p)
      BY <1>4, <1>7, <1>8, <2>3, <3>1 DEF p
    <3> QED BY <1>1, <1>3, <3>2, <3>3, InOrderKeeps
  <2> QED BY <2>2, <2>3
<1> QED BY <1>11, <1>12, <1>13, <1>14, <1>15, <1>16, <1>17 DEF SdkInv, STypes

LEMMA RePushKeeps ==
  ASSUME SdkInv, NEW e \in Dials, RePush(e)
  PROVE  SdkInv'
<1>1. STypes /\ ClientTypes /\ NetTypes /\ ServerTypes /\ Undialled /\ RequestInv /\ GenInv /\ OrderInv
  BY DEF SdkInv, STypes
<1>2. /\ e \in logged
      /\ dnNet' = [dnNet EXCEPT ![e] = Append(@, Pkt("push", 0, last[e]))]
      /\ UNCHANGED <<usr, said, rec, loop, cur, open, connID, table, gen, upNet, server, torn>>
  BY DEF RePush, Push, client
<1>3. UNCHANGED <<logged, maxID, last, dropped, reordered>>
  BY <1>2 DEF server
<1>4. PICK p \in DnPkts(e) : p.k = "push" /\ p = Pkt("push", 0, last[e])
  BY <1>1, DnPktIs, PktIs DEF ServerTypes
<1>5. /\ DOMAIN dnNet' = Dials /\ dnNet'[e] = Append(dnNet[e], p)
      /\ \A f \in Dials : f # e => dnNet'[f] = dnNet[f]
      /\ dnNet[e] \in Seq(DnPkts(e))
  BY <1>1, <1>2, <1>4 DEF NetTypes
<1>6. Append(dnNet[e], p) \in Seq(DnPkts(e))
  BY <1>5, AppendIs
<1>7. NetTypes'
  BY <1>1, <1>2, <1>5, <1>6 DEF NetTypes
<1>8. ServerTypes' /\ ClientTypes'
  BY <1>1, <1>2, <1>3 DEF ServerTypes, ClientTypes
<1>9. Undialled'
  <2>1. \A f \in Dials : f > cur => f # e
    BY <1>1, <1>2, DialsAreNat DEF ServerTypes, ClientTypes
  <2> QED BY <1>1, <1>2, <1>3, <1>5, <2>1 DEF Undialled
<1>10. RequestInv'
  <2>1. cur \in Dials
    BY <1>1 DEF ClientTypes
  <2>2. Plain(dnNet[cur]) => Plain(dnNet'[cur])
    <3>1. Plain(dnNet[e]) => Plain(Append(dnNet[e], p))
      BY <1>4, <1>5, PlainAppend
    <3> QED BY <1>5, <2>1, <3>1
  <2> QED BY <1>1, <1>2, <2>2 DEF RequestInv
<1>11. GenInv'
  BY <1>1, <1>2 DEF GenInv, Current
<1>12. OrderInv'
  <2>1. NextID' = NextID
    BY <1>2 DEF NextID, Current
  <2> QED BY <1>1, <1>2, <1>3, <2>1, StillKeeps
<1> QED BY <1>7, <1>8, <1>9, <1>10, <1>11, <1>12 DEF SdkInv, STypes

-----------------------------------------------------------------------------
LEMMA SdkInitially == Init => SdkInv
<1> SUFFICES ASSUME Init PROVE SdkInv
  OBVIOUS
<1>1. 1 \in Dials /\ Dials \subseteq Nat \ {0} /\ NoText \in Nat /\ 1 \in 1..1
  BY BoundsAssumption, DialsAreNat DEF Dials
<1>2. ClientTypes
  <2>1. NoPkt \in DnAny
    BY <1>1 DEF NoPkt, Pkt, DnAny
  <2> QED BY <1>1, <2>1 DEF Init, ClientTypes, LoopSteps
<1>3. \A e \in Dials : upNet[e] = <<>> /\ dnNet[e] = <<>> /\ maxID[e] = 0
  BY DEF Init
<1>4. NetTypes
  <2>1. DOMAIN upNet = Dials /\ DOMAIN dnNet = Dials
    BY DEF Init
  <2>2. \A S : <<>> \in Seq(S)
    OBVIOUS
  <2> QED BY <1>3, <2>1, <2>2 DEF NetTypes
<1>5. ServerTypes /\ Undialled
  BY <1>1, <1>3 DEF Init, ServerTypes, Undialled
<1>6. RequestInv /\ GenInv
  BY DEF Init, RequestInv, GenInv, Current
<1>7. cur \in Dials /\ upNet[cur] = <<>> /\ maxID[cur] = 0 /\ NextID = 0 /\ dropped = {}
  BY <1>1, <1>3 DEF Init, NextID, Current
<1>8. OrderInv
  <2>1. EofInv
    BY <1>7 DEF EofInv
  <2>2. Numbered(upNet[cur], maxID[cur], 0) /\ 0 \in Nat
    BY <1>7, NumberedEmpty
  <2>3. NumInv
    BY <1>7, <2>2 DEF NumInv
  <2> QED BY <2>1, <2>3 DEF OrderInv
<1> QED BY <1>2, <1>4, <1>5, <1>6, <1>8 DEF SdkInv, STypes

LEMMA SdkStep == SdkInv /\ [Next]_vars => SdkInv'
<1> SUFFICES ASSUME SdkInv, [Next]_vars PROVE SdkInv'
  OBVIOUS
<1>1. ClientTypes /\ cur \in Dials /\ cur \in 1..cur /\ NoText \in Nat
  BY DialsAreNat DEF SdkInv, STypes, ClientTypes
<1>2. CASE login
  BY <1>2, LoginKeeps
<1>3. CASE getClientID
  BY <1>3, GetClientIDKeeps
<1>4. CASE Send
  BY <1>4, SendKeeps
<1>5. CASE Close
  <2>1. /\ UNCHANGED <<usr, said, rec, loop, cur, connID, table, gen, dnNet, server, torn>>
        /\ \/ upNet' = Hangup(cur) /\ open' = open \ {cur}
           \/ UNCHANGED <<upNet, open>>
    BY <1>5 DEF Close
  <2> QED BY <2>1, HangupKeeps
<1>6. CASE ReConn
  BY <1>6, ReConnKeeps
<1>7. CASE ReConnClose
  <2>1. /\ UNCHANGED <<usr, said, loop, cur, connID, table, gen, dnNet, server, torn>>
        /\ upNet' = Hangup(cur) /\ open' = open \ {cur} /\ rec = "close" /\ rec' = "dial"
    BY <1>7 DEF ReConnClose
  <2> QED BY <2>1, HangupKeeps
<1>8. CASE ReConnDial
  <2>1. /\ rec = "dial"
        /\ UNCHANGED <<usr, said, loop, connID, table, gen, upNet, dnNet, server, torn>>
        /\ \/ cur' = cur + 1 /\ open' = open \cup {cur + 1} /\ rec' = "send"
           \/ UNCHANGED <<cur, open, rec>>
    BY <1>8 DEF ReConnDial
  <2>2. loop' \in [pc : LoopSteps, e : 1..cur, p : DnAny]
    BY <1>1, <2>1 DEF ClientTypes
  <2> QED BY <2>1, <2>2, DialKeeps, IdleKeeps
<1>9. CASE reConn
  BY <1>9, RequestKeeps
<1>10. CASE LoopRead \/ LoopHandle
  BY <1>10, LoopReadKeeps, LoopHandleKeeps
<1>11. CASE LoopTop \/ LoopError \/ doRecv \/ heartbeat \/ UNCHANGED vars
  <2>1. UNCHANGED <<usr, said, rec, cur, open, connID, table, gen, upNet, dnNet, server, torn>>
    BY <1>11 DEF LoopTop, LoopError, doRecv, heartbeat, vars, client
  <2>2. NoPkt \in DnAny
    BY <1>1 DEF NoPkt, Pkt, DnAny
  <2>3. /\ loop' \in [pc : LoopSteps, e : 1..cur, p : DnAny]
        /\ loop' = loop \/ loop'.pc # "handle"
    BY <1>1, <1>11, <2>2 DEF LoopTop, LoopError, doRecv, heartbeat, vars, client, ClientTypes, LoopSteps
  <2> QED BY <2>1, <2>3, IdleKeeps
<1>12. ASSUME NEW e \in Dials, Serve(e) \/ RePush(e)
       PROVE  SdkInv'
  BY <1>12, ServeKeeps, RePushKeeps
<1> QED BY <1>2, <1>3, <1>4, <1>5, <1>6, <1>7, <1>8, <1>9, <1>10, <1>11, <1>12
        DEF Next, Looping, ReConnecting

\* In every run of the client and the server, whatever the number of texts and of
\* reconnections: a text written on the connection in use is refused (upMsgHandler's
\* comparison of its client ID with the next one) only after a Send took its ID
\* before a ReConn replaced the table and wrote it after, or after the gateway's
\* worker pool changed the order of two packets.
THEOREM TextsAreNumbered == Spec => []NumbersAgree
<1>1. SdkInv => NumbersAgree
  BY DEF SdkInv, OrderInv, NumInv, NumbersAgree
<1> QED BY <1>1, SdkInitially, SdkStep, PTL DEF Spec

=============================================================================
