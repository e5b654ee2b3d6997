---------------------------- MODULE CastProofs -----------------------------
(***************************************************************************)
(* Proofs about Cast, for any peers, any number of clients, any picture    *)
(* and sound, and any ring that the receive timeout leaves enough of.      *)
(***************************************************************************)
EXTENDS Cast, SequenceTheorems, FiniteSetTheorems, TLAPS

-----------------------------------------------------------------------------
(* Arithmetic on the ring *)

\* A number is a quotient and a remainder in one way.
LEMMA OneQuotient ==
  ASSUME NEW N \in Nat \ {0}, NEW q \in Int, NEW p \in Int,
         NEW r \in 0 .. N - 1, NEW s \in 0 .. N - 1, N * q + r = N * p + s
  PROVE  q = p /\ r = s
<1>1. ASSUME NEW a \in Int, NEW b \in Int, a < b PROVE N * b >= N * a + N
  <2>1. b - a - 1 \in Nat BY <1>1
  <2>2. N * (b - a - 1) >= 0 BY <2>1
  <2>3. N * (b - a - 1) = N * b - N * a - N OBVIOUS
  <2> QED BY <2>2, <2>3
<1>2. ~(q < p) BY <1>1
<1>3. ~(p < q) BY <1>1
<1> QED BY <1>2, <1>3

\* A remainder is what is left.
LEMMA Remainder ==
  ASSUME NEW N \in Nat \ {0}, NEW x \in Int
  PROVE  /\ x % N \in 0 .. N - 1 /\ x \div N \in Int
         /\ x = N * (x \div N) + (x % N)
OBVIOUS

Mod(x, N) == x % N

\* A remainder is below the divisor.
LEMMA ModType == ASSUME NEW N \in Nat \ {0}, NEW x \in Int PROVE Mod(x, N) \in 0 .. N - 1
BY Remainder DEF Mod

\* What it is, from any quotient.
LEMMA RemainderIs ==
  ASSUME NEW N \in Nat \ {0}, NEW x \in Int, NEW q \in Int, NEW r \in 0 .. N - 1, x = N * q + r
  PROVE  Mod(x, N) = r
<1> DEFINE t == Mod(x, N)
           p == x \div N
<1>1. t \in 0 .. N - 1 /\ p \in Int /\ x = N * p + t BY Remainder DEF Mod
<1> HIDE DEF t, p
<1>2. N * q + r = N * p + t BY <1>1
<1>3. r = t BY <1>1, <1>2, OneQuotient
<1> QED BY <1>3 DEF t

\* The remainder of a sum with at most one lap.
LEMMA RemainderAdd ==
  ASSUME NEW N \in Nat \ {0}, NEW x \in Int, NEW y \in Int, NEW d \in 0 .. N, y = x + d
  PROVE  Mod(y, N) = IF Mod(x, N) + d < N THEN Mod(x, N) + d ELSE Mod(x, N) + d - N
<1> DEFINE r == Mod(x, N)
           q == x \div N
<1>1. r \in 0 .. N - 1 /\ q \in Int /\ x = N * q + r BY Remainder DEF Mod
<1> HIDE DEF r, q
<1>2. N * q \in Int BY <1>1
<1>3. CASE r + d < N
  <2>1. y = N * q + (r + d) /\ r + d \in 0 .. N - 1 BY <1>1, <1>2, <1>3
  <2>2. Mod(y, N) = r + d BY <1>1, <1>2, <2>1, RemainderIs
  <2> QED BY <1>3, <2>2 DEF r
<1>4. CASE r + d >= N
  <2>1. N * (q + 1) = N * q + N BY <1>1
  <2>2. y = N * (q + 1) + (r + d - N) /\ r + d - N \in 0 .. N - 1 /\ q + 1 \in Int
    BY <1>1, <1>2, <1>4, <2>1
  <2>3. Mod(y, N) = r + d - N BY <1>2, <2>2, RemainderIs
  <2> QED BY <1>1, <1>4, <2>3 DEF r
<1> QED BY <1>1, <1>3, <1>4

\* Laps do not matter.
LEMMA RemainderLap ==
  ASSUME NEW N \in Nat \ {0}, NEW x \in Int, NEW y \in Int, NEW k \in Int, y = x + N * k
  PROVE  Mod(y, N) = Mod(x, N)
<1> DEFINE r == Mod(x, N)
           q == x \div N
<1>1. r \in 0 .. N - 1 /\ q \in Int /\ x = N * q + r BY Remainder DEF Mod
<1> HIDE DEF r, q
<1>2. N * k \in Int /\ N * q \in Int BY <1>1
<1>3. N * (q + k) = N * q + N * k BY <1>1
<1>4. y = N * (q + k) + r BY <1>1, <1>2, <1>3
<1>5. q + k \in Int BY <1>1
<1>6. Mod(y, N) = r BY <1>1, <1>4, <1>5, RemainderIs
<1> QED BY <1>6 DEF r

\* A number below the divisor is its own remainder.
LEMMA RemainderSmall ==
  ASSUME NEW N \in Nat \ {0}, NEW r \in 0 .. N - 1
  PROVE  Mod(r, N) = r
BY DEF Mod

\* The divisor leaves nothing.
LEMMA RemainderSelf == ASSUME NEW N \in Nat \ {0} PROVE Mod(N, N) = 0
<1>1. N = N * 1 + 0 /\ 0 \in 0 .. N - 1 OBVIOUS
<1> QED BY <1>1, RemainderIs

-----------------------------------------------------------------------------
(* The inductive invariant *)

\* Each socket is in one place of one table or is the one whose request is
\* served, and it is open exactly then.
Serving == thr.pc \in {"recv", "send"}
OwnerInv ==
  /\ \A i, j \in DOMAIN server.clients : server.clients[i] = server.clients[j] => i = j
  /\ \A i, j \in DOMAIN server.audio : server.audio[i].fd = server.audio[j].fd => i = j
  /\ \A p \in Peer :
       /\ ~(p \in Streams /\ p \in Listeners)
       /\ Serving /\ thr.fd = p => p \notin Streams /\ p \notin Listeners
       /\ peer[p].sock = "open" <=> p \in Streams \/ p \in Listeners \/ (Serving /\ thr.fd = p)
  /\ Serving => thr.fd \in Peer

\* The loops of the server thread are inside the tables, which it leaves empty.
LoopInv ==
  /\ ThreadAt("frames") => thr.i <= Len(server.clients)
  /\ ThreadAt("chunk") => thr.i <= Len(server.audio)
  /\ ThreadAt("done") => server.clients = <<>> /\ server.audio = <<>>

\* The server's mutexes outlive its thread.
LifeInv ==
  /\ ~server.alive => ThreadAt("done")
  /\ ~server.alive <=> at = "gone"
  /\ server.active <=> server.alive

\* While the heartbeat runs the connection is up, and its flag is only
\* cleared by the thread that then waits for it.
Beating == beat \notin {"none", "exit"}
BeatInv ==
  /\ Beating => client.ssl /\ client.has /\ at \in {"run", "disconnect", "reap"}
  /\ Beating /\ at # "reap" => client.hb
  /\ at \in {"tls", "launch", "await", "transport", "url", "start"} => beat = "none"
  /\ at \in {"launch", "await", "transport", "url", "start"} => client.ssl

\* A listener that keeps up is behind by less than the ring: by what one
\* iteration of the thread and one receive timeout produce.
Heard(k) ==
  LET n == peer[server.audio[k].fd].next
  IN  /\ n \in Nat /\ n <= server.w
      /\ server.audio[k].rd = n % Ring
      /\ server.w - n <= 1 + thr.spent + thr.waited
      /\ ThreadAt("chunk") => n <= thr.w
      /\ ThreadAt("chunk") /\ k > thr.i => n = thr.w
HearInv ==
  /\ thr.waited <= RecvTimeout /\ thr.spent <= 1
  /\ ThreadAt("select") => thr.waited = 0
  /\ ThreadAt("chunk") => thr.w <= server.w /\ server.w - thr.w <= thr.spent
  /\ AudioIsExact
  /\ \A k \in DOMAIN server.audio : server.audio[k].fd \notin Late => Heard(k)

CastInv == CastTypeOK /\ OwnerInv /\ LoopInv /\ LifeInv /\ BeatInv /\ HearInv

\* The tables have a size, and the ring is longer than the receive timeout and
\* the two blocks that an iteration of the thread may last besides: two
\* seconds against one (CAST_AUDIO_RING_SECS, SO_RCVTIMEO).
Sizes ==
  /\ MaxClients \in Nat /\ MaxAudio \in Nat /\ Played \in Nat
  /\ Ring \in Nat /\ RecvTimeout \in Nat /\ RecvTimeout + 2 < Ring

-----------------------------------------------------------------------------
(* Tables *)

\* What removing an entry of a table leaves.
LEMMA RemoveAtIs ==
  ASSUME NEW S, NEW s \in Seq(S), NEW i \in 1 .. Len(s)
  PROVE  /\ RemoveAt(s, i) \in Seq(S) /\ Len(RemoveAt(s, i)) = Len(s) - 1
         /\ \A k \in 1 .. Len(s) - 1 : RemoveAt(s, i)[k] = IF k < i THEN s[k] ELSE s[k + 1]
<1> DEFINE a == SubSeq(s, 1, i - 1)
           b == SubSeq(s, i + 1, Len(s))
<1>0. Len(s) \in Nat /\ i \in Int /\ \A k \in 1 .. Len(s) : s[k] \in S OBVIOUS
<1>1. /\ a \in Seq(S) /\ Len(a) = i - 1
      /\ \A k \in 1 .. i - 1 : a[k] = s[k]
  <2>1. \A k \in 1 .. i - 1 : s[k] \in S BY <1>0
  <2>2. i - 1 \in Int BY <1>0
  <2>3. /\ a \in Seq(S)
        /\ Len(a) = IF 1 <= i - 1 THEN (i - 1) - 1 + 1 ELSE 0
        /\ \A k \in 1 .. (i - 1) - 1 + 1 : a[k] = s[1 + k - 1]
    BY <2>1, <2>2, SubSeqProperties
  <2> HIDE DEF a
  <2> QED BY <2>3, <1>0
<1>2. /\ b \in Seq(S) /\ Len(b) = Len(s) - i
      /\ \A k \in 1 .. Len(s) - i : b[k] = s[k + i]
  <2>1. \A k \in i + 1 .. Len(s) : s[k] \in S BY <1>0
  <2>2. i + 1 \in Int /\ Len(s) \in Int BY <1>0
  <2>3. /\ b \in Seq(S)
        /\ Len(b) = IF i + 1 <= Len(s) THEN Len(s) - (i + 1) + 1 ELSE 0
        /\ \A k \in 1 .. Len(s) - (i + 1) + 1 : b[k] = s[(i + 1) + k - 1]
    BY <2>1, <2>2, SubSeqProperties
  <2> HIDE DEF b
  <2> QED BY <2>3, <1>0
<1> HIDE DEF a, b
<1>3. RemoveAt(s, i) = a \o b BY DEF RemoveAt, a, b
<1>4. /\ a \o b \in Seq(S) /\ Len(a \o b) = Len(a) + Len(b)
      /\ \A k \in 1 .. Len(a) + Len(b) : (a \o b)[k] = IF k <= Len(a) THEN a[k] ELSE b[k - Len(a)]
  BY <1>1, <1>2, ConcatProperties
<1>5. Len(a) + Len(b) = Len(s) - 1 BY <1>0, <1>1, <1>2
<1>6. ASSUME NEW k \in 1 .. Len(s) - 1 PROVE (a \o b)[k] = IF k < i THEN s[k] ELSE s[k + 1]
  <2>1. CASE k < i
    <3>1. k \in 1 .. i - 1 /\ k <= Len(a) BY <1>0, <1>1, <2>1
    <3> QED BY <1>1, <1>4, <1>5, <2>1, <3>1
  <2>2. CASE ~(k < i)
    <3>1. k - (i - 1) \in 1 .. Len(s) - i /\ ~(k <= Len(a)) BY <1>0, <1>1, <2>2
    <3>2. b[k - (i - 1)] = s[k - (i - 1) + i] BY <1>2, <3>1
    <3>3. k - (i - 1) + i = k + 1 BY <1>0
    <3>4. (a \o b)[k] = b[k - Len(a)] BY <1>4, <1>5, <3>1
    <3> QED BY <1>1, <2>2, <3>2, <3>3, <3>4
  <2> QED BY <2>1, <2>2
<1> QED BY <1>3, <1>4, <1>5, <1>6

\* Removing an entry of a table of distinct sockets removes that socket.
LEMMA RemoveClient ==
  ASSUME NEW s \in Seq(Peer), NEW i \in 1 .. Len(s),
         \A j, k \in DOMAIN s : s[j] = s[k] => j = k
  PROVE  LET t == RemoveAt(s, i)
         IN  /\ \A j, k \in DOMAIN t : t[j] = t[k] => j = k
             /\ \A p : (\E j \in DOMAIN t : t[j] = p) <=> (\E j \in DOMAIN s : s[j] = p) /\ p # s[i]
<1> DEFINE t == RemoveAt(s, i)
           n == Len(s)
<1>1. n \in Nat /\ Len(t) = n - 1 /\ DOMAIN s = 1 .. n /\ DOMAIN t = 1 .. n - 1 /\ i \in 1 .. n
      /\ \A k \in 1 .. n - 1 : t[k] = IF k < i THEN s[k] ELSE s[k + 1]
  <2>1. t \in Seq(Peer) /\ Len(t) = n - 1
        /\ \A k \in 1 .. n - 1 : t[k] = IF k < i THEN s[k] ELSE s[k + 1]
    BY RemoveAtIs
  <2> HIDE DEF t
  <2> QED BY <2>1
<1> HIDE DEF t, n
<1>2. \A j, k \in 1 .. n : s[j] = s[k] => j = k BY <1>1
<1>3. \A j, k \in 1 .. n - 1 : t[j] = t[k] => j = k BY <1>1, <1>2
<1>4. ASSUME NEW p PROVE (\E j \in 1 .. n - 1 : t[j] = p) <=> (\E j \in 1 .. n : s[j] = p) /\ p # s[i]
  <2>1. ASSUME NEW j \in 1 .. n - 1, t[j] = p PROVE (\E k \in 1 .. n : s[k] = p) /\ p # s[i]
    BY <1>1, <1>2, <2>1
  <2>2. ASSUME NEW j \in 1 .. n, s[j] = p, p # s[i] PROVE \E k \in 1 .. n - 1 : t[k] = p
    <3>1. CASE j < i BY <1>1, <2>2, <3>1
    <3>2. CASE j > i
      <4>1. j - 1 \in 1 .. n - 1 /\ t[j - 1] = s[j] BY <1>1, <3>2
      <4> QED BY <2>2, <4>1
    <3> QED BY <1>1, <2>2, <3>1, <3>2
  <2> QED BY <2>1, <2>2
<1> QED BY <1>1, <1>3, <1>4 DEF t

\* The same for the table of the sound streams.
LEMMA RemoveListener ==
  ASSUME NEW s \in Seq(Listener), NEW i \in 1 .. Len(s),
         \A j, k \in DOMAIN s : s[j].fd = s[k].fd => j = k
  PROVE  LET t == RemoveAt(s, i)
         IN  /\ \A j, k \in DOMAIN t : t[j].fd = t[k].fd => j = k
             /\ \A p : (\E j \in DOMAIN t : t[j].fd = p) <=> (\E j \in DOMAIN s : s[j].fd = p) /\ p # s[i].fd
<1> DEFINE t == RemoveAt(s, i)
           n == Len(s)
<1>1. n \in Nat /\ Len(t) = n - 1 /\ DOMAIN s = 1 .. n /\ DOMAIN t = 1 .. n - 1 /\ i \in 1 .. n
      /\ \A k \in 1 .. n - 1 : t[k] = IF k < i THEN s[k] ELSE s[k + 1]
  <2>1. t \in Seq(Listener) /\ Len(t) = n - 1
        /\ \A k \in 1 .. n - 1 : t[k] = IF k < i THEN s[k] ELSE s[k + 1]
    BY RemoveAtIs
  <2> HIDE DEF t
  <2> QED BY <2>1
<1> HIDE DEF t, n
<1>2. \A j, k \in 1 .. n : s[j].fd = s[k].fd => j = k BY <1>1
<1>3. \A j, k \in 1 .. n - 1 : t[j].fd = t[k].fd => j = k BY <1>1, <1>2
<1>4. ASSUME NEW p
      PROVE (\E j \in 1 .. n - 1 : t[j].fd = p) <=> (\E j \in 1 .. n : s[j].fd = p) /\ p # s[i].fd
  <2>1. ASSUME NEW j \in 1 .. n - 1, t[j].fd = p PROVE (\E k \in 1 .. n : s[k].fd = p) /\ p # s[i].fd
    BY <1>1, <1>2, <2>1
  <2>2. ASSUME NEW j \in 1 .. n, s[j].fd = p, p # s[i].fd PROVE \E k \in 1 .. n - 1 : t[k].fd = p
    <3>1. CASE j < i BY <1>1, <2>2, <3>1
    <3>2. CASE j > i
      <4>1. j - 1 \in 1 .. n - 1 /\ t[j - 1] = s[j] BY <1>1, <3>2
      <4> QED BY <2>2, <4>1
    <3> QED BY <1>1, <2>2, <3>1, <3>2
  <2> QED BY <2>1, <2>2
<1> QED BY <1>1, <1>3, <1>4 DEF t

-----------------------------------------------------------------------------
(* What a listener hears *)

\* The slots of one send are a sequence.
LEMMA SlotsAre ==
  ASSUME Sizes, CastTypeOK, NEW from \in 0 .. Ring - 1, NEW to \in from + 1 .. Ring
  PROVE  /\ RingSlots(from, to) # <<>>
         /\ DOMAIN RingSlots(from, to) = 1 .. to - from
         /\ \A j \in 1 .. to - from : RingSlots(from, to)[j] = Latest(from + j - 1)
         /\ Last(RingSlots(from, to)) = Latest(to - 1) /\ Latest(to - 1) \in Int
<1> DEFINE n == to - from
           s == RingSlots(from, to)
<1>1. Ring \in Nat \ {0} /\ server.w \in Nat BY DEF Sizes, CastTypeOK, ServerStates
<1>2. n \in Nat \ {0} /\ from \in Int /\ to \in Int BY <1>1
<1>3. \A k \in Int : Latest(k) \in Int
  <2> SUFFICES ASSUME NEW k \in Int PROVE Latest(k) \in Int OBVIOUS
  <2>1. server.w - 1 - k \in Int BY <1>1
  <2>2. (server.w - 1 - k) % Ring \in Int BY <1>1, <2>1, Remainder
  <2> QED BY <1>1, <2>2 DEF Latest
<1>4. s = [j \in 1 .. n |-> Latest(from + j - 1)] BY DEF RingSlots
<1>5. \A j \in 1 .. n : Latest(from + j - 1) \in Int BY <1>2, <1>3
<1> HIDE DEF n, s
<1>6. DOMAIN s = 1 .. n /\ \A j \in 1 .. n : s[j] = Latest(from + j - 1) BY <1>4
<1>7. s \in Seq(Int) BY <1>2, <1>4, <1>5
<1>8. Len(s) = n BY <1>2, <1>6, <1>7, LenProperties
<1>9. from + n - 1 = to - 1 /\ n \in 1 .. n BY <1>2 DEF n
<1>10. Last(s) = Latest(to - 1) BY <1>6, <1>8, <1>9 DEF Last
<1>11. s # <<>> BY <1>2, <1>8
<1>12. Latest(to - 1) \in Int BY <1>2, <1>3
<1> QED BY <1>6, <1>10, <1>11, <1>12 DEF n, s

\* A block that is still in the ring is the one in its slot.
LEMMA LatestIs ==
  ASSUME Sizes, CastTypeOK, NEW n \in Nat, NEW j \in Nat, n + j < server.w, server.w - n <= Ring
  PROVE  Latest((n % Ring) + j) = n + j
<1> DEFINE from == n % Ring
           q == n \div Ring
           d == server.w - 1 - (n + j)
           lap == Ring * q
<1>1. Ring \in Nat \ {0} /\ server.w \in Nat BY DEF Sizes, CastTypeOK, ServerStates
<1>2. from \in 0 .. Ring - 1 /\ q \in Int /\ n = lap + from BY <1>1, Remainder
<1>3. d \in 0 .. Ring - 1 BY <1>1
<1> HIDE DEF from, q
<1>4. lap \in Int BY <1>1, <1>2
<1>5. Mod(d + lap, Ring) = Mod(d, Ring)
  <2> HIDE DEF d
  <2> DEFINE y == d + lap
  <2>1. y \in Int /\ y = d + Ring * q BY <1>3, <1>4
  <2> HIDE DEF y, lap
  <2>2. Mod(y, Ring) = Mod(d, Ring) BY <1>1, <1>2, <1>3, <2>1, RemainderLap
  <2> QED BY <2>2 DEF y
<1> HIDE DEF lap
<1>6. server.w - 1 - (from + j) = d + lap BY <1>1, <1>2, <1>4
<1> HIDE DEF d
<1>7. Mod(d, Ring) = d BY <1>1, <1>3, RemainderSmall
<1>8. Latest(from + j) = server.w - 1 - Mod(d + lap, Ring) BY <1>6 DEF Latest, Mod
<1>9. server.w - 1 - d = n + j BY <1>1 DEF d
<1> QED BY <1>5, <1>7, <1>8, <1>9 DEF from

\* One send takes a listener that is behind by less than the ring forward,
\* and to the write position when it does not end at the end of the ring.
LEMMA Forward ==
  ASSUME Ring \in Nat \ {0}, NEW n \in Nat, NEW t \in Nat, n <= t, t - n < Ring
  PROVE  LET rd == Mod(n, Ring)
             wr == Mod(t, Ring)
             end == IF wr >= rd THEN wr ELSE Ring
             m == n + end - rd
         IN  /\ rd \in 0 .. Ring - 1 /\ wr \in 0 .. Ring - 1
             /\ wr = rd => n = t
             /\ wr # rd => /\ end \in rd + 1 .. Ring /\ m \in Nat /\ n < m /\ m <= t
                           /\ Mod(end, Ring) = Mod(m, Ring)
                           /\ Mod(end, Ring) = wr <=> m = t
<1> DEFINE rd == Mod(n, Ring)
           wr == Mod(t, Ring)
           end == IF wr >= rd THEN wr ELSE Ring
           m == n + end - rd
           d == t - n
<1>1. rd \in 0 .. Ring - 1 /\ wr \in 0 .. Ring - 1 BY Remainder DEF Mod
<1>2. d \in 0 .. Ring /\ t = n + d /\ d < Ring OBVIOUS
<1> HIDE DEF d
<1>3. wr = IF rd + d < Ring THEN rd + d ELSE rd + d - Ring
  <2>1. n \in Int /\ t \in Int OBVIOUS
  <2>2. ASSUME NEW x \in Int, NEW y \in Int, y = x + d
        PROVE  Mod(y, Ring) = IF Mod(x, Ring) + d < Ring THEN Mod(x, Ring) + d ELSE Mod(x, Ring) + d - Ring
    BY <1>2, <2>2, RemainderAdd
  <2> QED BY <1>2, <2>1, <2>2
<1>5. Mod(wr, Ring) = wr BY <1>1, RemainderSmall
<1>6. Mod(Ring, Ring) = 0 BY RemainderSelf
<1> HIDE DEF rd, wr
<1>7. wr = rd => n = t BY <1>1, <1>2, <1>3
<1>8. ASSUME wr # rd
      PROVE  /\ end \in rd + 1 .. Ring /\ m \in Nat /\ n < m /\ m <= t
             /\ Mod(end, Ring) = Mod(m, Ring)
             /\ Mod(end, Ring) = wr <=> m = t
  <2>1. CASE wr > rd
    <3>1. end = wr /\ wr = rd + d /\ m = t BY <1>1, <1>2, <1>3, <2>1
    <3>2. end \in rd + 1 .. Ring /\ n < m BY <1>1, <1>2, <2>1, <3>1
    <3>3. Mod(m, Ring) = wr BY <3>1 DEF wr
    <3> QED BY <1>5, <3>1, <3>2, <3>3
  <2>2. CASE wr < rd
    <3>1. end = Ring /\ wr = rd + d - Ring BY <1>1, <1>2, <1>3, <2>2
    <3>2. end \in rd + 1 .. Ring /\ m \in Nat /\ n < m /\ m <= t /\ (m = t <=> wr = 0)
      BY <1>1, <1>2, <2>2, <3>1
    <3>3. Ring - rd \in 0 .. Ring /\ m = n + (Ring - rd) BY <1>1, <3>1
    <3> HIDE DEF m, end
    <3>4. Mod(m, Ring) = rd + (Ring - rd) - Ring
      <4> DEFINE e == Ring - rd
      <4>1. e \in 0 .. Ring /\ m = n + e /\ n \in Int /\ m \in Int BY <3>2, <3>3
      <4> HIDE DEF e
      <4>2. ASSUME NEW x \in Int, NEW y \in Int, y = x + e
            PROVE  Mod(y, Ring) = IF Mod(x, Ring) + e < Ring THEN Mod(x, Ring) + e ELSE Mod(x, Ring) + e - Ring
        BY <4>1, <4>2, RemainderAdd
      <4>3. Mod(m, Ring) = IF rd + e < Ring THEN rd + e ELSE rd + e - Ring BY <4>1, <4>2 DEF rd
      <4> QED BY <1>1, <4>3 DEF e
    <3>5. Mod(m, Ring) = 0 BY <1>1, <3>4
    <3> QED BY <1>6, <3>1, <3>2, <3>5
  <2> QED BY <1>1, <1>8, <2>1, <2>2
<1> QED BY <1>1, <1>7, <1>8 DEF rd, wr

-----------------------------------------------------------------------------
(* Types *)

\* Closing sockets keeps the rest of the peers as it is.
LEMMA CloseIs ==
  ASSUME NEW f \in PeerStates, NEW ps
  PROVE  /\ Close(f, ps) \in PeerStates
         /\ \A p \in Peer : /\ Close(f, ps)[p].sock = IF p \in ps THEN "closed" ELSE f[p].sock
                            /\ Close(f, ps)[p].next = f[p].next
                            /\ Close(f, ps)[p].exact = f[p].exact
BY DEF Close, PeerStates

\* Hearing blocks keeps the sockets as they are.
LEMMA HearIs ==
  ASSUME CastTypeOK, NEW p \in Peer, NEW s, s # <<>>, Last(s) \in Int
  PROVE  /\ Hear(p, s) \in PeerStates
         /\ \A q \in Peer : /\ Hear(p, s)[q].sock = peer[q].sock
                            /\ q # p => Hear(p, s)[q] = peer[q]
         /\ Hear(p, s)[p].next = Last(s) + 1
         /\ Hear(p, s)[p].exact = (peer[p].exact /\ Follows(s, peer[p].next))
<1>1. peer \in PeerStates BY DEF CastTypeOK
<1>2. Follows(s, peer[p].next) \in BOOLEAN BY DEF Follows
<1> DEFINE e == peer[p].exact /\ Follows(s, peer[p].next)
           n == Last(s) + 1
<1>3. e \in BOOLEAN /\ n \in Int BY <1>2
<1>4. Hear(p, s) = [q \in Peer |-> IF q = p THEN [peer[p] EXCEPT !.next = n, !.exact = e] ELSE peer[q]]
  BY <1>1 DEF Hear, PeerStates
<1> HIDE DEF e, n
<1> DEFINE r == [peer[p] EXCEPT !.next = n]
           t == [r EXCEPT !.exact = e]
<1>5. /\ r \in [sock : {"none", "knock", "open", "closed"}, ask : Asks \cup {"page"},
                shown : Nat, next : Int, exact : BOOLEAN, visits : Nat]
      /\ r.next = n /\ r.sock = peer[p].sock
  BY <1>1, <1>3 DEF PeerStates
<1>6. [peer[p] EXCEPT !.next = n, !.exact = e] = t OBVIOUS
<1> HIDE DEF r
<1>7. /\ t \in [sock : {"none", "knock", "open", "closed"}, ask : Asks \cup {"page"},
                shown : Nat, next : Int, exact : BOOLEAN, visits : Nat]
      /\ t.next = n /\ t.sock = peer[p].sock /\ t.exact = e
  BY <1>3, <1>5
<1> HIDE DEF t
<1>8. Hear(p, s) = [q \in Peer |-> IF q = p THEN t ELSE peer[q]] BY <1>4, <1>6
<1>9. /\ Hear(p, s) \in PeerStates
      /\ \A q \in Peer : Hear(p, s)[q] = IF q = p THEN t ELSE peer[q]
  BY <1>1, <1>7, <1>8 DEF PeerStates
<1> QED BY <1>7, <1>9 DEF e, n

\* The emulator starts with a server and a client of their type.
LEMMA TypeInit == Sizes /\ CastInit => CastTypeOK
<1> SUFFICES ASSUME Sizes, CastInit PROVE CastTypeOK OBVIOUS
<1> USE DEF Sizes, CastInit, cast_server_init, ClientInit, CastTypeOK
<1>1. server.clients \in Seq(Peer) /\ server.audio \in Seq(Listener)
      /\ Len(server.clients) = 0 /\ Len(server.audio) = 0 OBVIOUS
<1>2. server \in ServerStates BY <1>1 DEF ServerStates
<1>3. peer \in PeerStates BY DEF Away, PeerStates
<1>4. thr \in ThreadStates BY DEF Fresh, ThreadStates
<1>5. client \in ClientStates BY DEF Idle, ClientStates
<1> QED BY <1>1, <1>2, <1>3, <1>4, <1>5

Fits(s) == s \in ServerStates /\ Len(s.clients) <= MaxClients /\ Len(s.audio) <= MaxAudio

\* What the fields of a server are, and changing one.
LEMMA ServerFields ==
  ASSUME NEW s \in ServerStates
  PROVE  /\ s.frame \in Nat /\ s.w \in Nat /\ s.clients \in Seq(Peer) /\ s.audio \in Seq(Listener)
         /\ Len(s.clients) \in Nat /\ Len(s.audio) \in Nat
         /\ \A c \in Seq(Peer) : LET t == [s EXCEPT !.clients = c]
                                 IN  t \in ServerStates /\ t.clients = c /\ t.audio = s.audio
         /\ \A a \in Seq(Listener) : LET t == [s EXCEPT !.audio = a]
                                     IN  t \in ServerStates /\ t.audio = a /\ t.clients = s.clients
<1>1. /\ s.frame \in Nat /\ s.w \in Nat /\ s.clients \in Seq(Peer) /\ s.audio \in Seq(Listener)
  BY DEF ServerStates
<1>2. Len(s.clients) \in Nat /\ Len(s.audio) \in Nat BY <1>1
<1>3. ASSUME NEW c \in Seq(Peer)
      PROVE  LET t == [s EXCEPT !.clients = c]
             IN  t \in ServerStates /\ t.clients = c /\ t.audio = s.audio
  BY DEF ServerStates
<1>4. ASSUME NEW a \in Seq(Listener)
      PROVE  LET t == [s EXCEPT !.audio = a]
             IN  t \in ServerStates /\ t.audio = a /\ t.clients = s.clients
  BY DEF ServerStates
<1> QED BY <1>1, <1>2, <1>3, <1>4

\* The server's tables keep their type and fit.
LEMMA TablesType ==
  ASSUME Sizes, CastTypeOK, CastNext, OwnerInv, LoopInv
  PROVE  Fits(server')
<1> DEFINE s == server
           t == server'
<1>0. /\ Fits(s) /\ s \in ServerStates /\ s.frame \in Nat /\ s.w \in Nat
      /\ s.clients \in Seq(Peer) /\ s.audio \in Seq(Listener)
      /\ Len(s.clients) \in Nat /\ Len(s.audio) \in Nat
      /\ MaxClients \in Nat /\ MaxAudio \in Nat /\ Ring \in Nat \ {0}
  BY ServerFields DEF Sizes, CastTypeOK, Fits
<1>1. CASE UNCHANGED server BY <1>0, <1>1
<1>2. CASE t = [s EXCEPT !.frame = s.frame + 1, !.ready = TRUE]
  <2> DEFINE n == s.frame + 1
  <2>0. n \in Nat /\ t = [s EXCEPT !.frame = n, !.ready = TRUE] BY <1>0, <1>2
  <2> HIDE DEF n
  <2>1. t \in ServerStates /\ t.clients = s.clients /\ t.audio = s.audio BY <1>0, <2>0 DEF ServerStates
  <2> QED BY <1>0, <2>1 DEF Fits
<1>3. CASE t = [s EXCEPT !.w = s.w + 1]
  <2>1. t \in ServerStates /\ t.clients = s.clients /\ t.audio = s.audio BY <1>0, <1>3 DEF ServerStates
  <2> QED BY <1>0, <2>1 DEF Fits
<1>4. CASE t = [s EXCEPT !.running = FALSE] \/ t = [s EXCEPT !.alive = FALSE, !.active = FALSE]
           \/ t = [s EXCEPT !.ready = FALSE]
  <2>1. t \in ServerStates /\ t.clients = s.clients /\ t.audio = s.audio BY <1>0, <1>4 DEF ServerStates
  <2> QED BY <1>0, <2>1 DEF Fits
<1>5. CASE t = [s EXCEPT !.clients = <<>>, !.audio = <<>>]
  <2>1. <<>> \in Seq(Peer) /\ <<>> \in Seq(Listener) /\ Len(<<>>) = 0 OBVIOUS
  <2>2. t \in ServerStates /\ t.clients = <<>> /\ t.audio = <<>> BY <1>0, <1>5, <2>1 DEF ServerStates
  <2> QED BY <1>0, <2>1, <2>2 DEF Fits
<1>6. CASE route_http_request
  <2>1. thr.fd \in Peer BY <1>6 DEF route_http_request, OwnerInv, Serving, ThreadAt
  <2>2. server.w % Ring \in 0 .. Ring - 1
    <3>1. Mod(server.w, Ring) \in 0 .. Ring - 1 BY <1>0, ModType
    <3> QED BY <3>1 DEF Mod
  <2>3. CASE UNCHANGED server BY <1>1, <2>3
  <2>4. CASE Len(server.clients) < MaxClients /\ server' = add_client(server, thr.fd)
    <3>1. /\ Append(server.clients, thr.fd) \in Seq(Peer)
          /\ Len(Append(server.clients, thr.fd)) = Len(server.clients) + 1
      BY <1>0, <2>1
    <3> DEFINE c == Append(server.clients, thr.fd)
    <3>2. t = [s EXCEPT !.clients = c] BY <2>4 DEF add_client
    <3> HIDE DEF c
    <3>3. t \in ServerStates /\ t.clients = c /\ t.audio = s.audio BY ZenonT(30), <1>0, <3>1, <3>2, ServerFields DEF c
    <3> QED BY <1>0, <2>4, <3>1, <3>3 DEF Fits, c
  <2>5. CASE Len(server.audio) < MaxAudio /\ server' = add_audio_client(server, thr.fd)
    <3> DEFINE a == [fd |-> thr.fd, rd |-> server.w % Ring]
    <3>1. a \in Listener BY <2>1, <2>2 DEF Listener
    <3> HIDE DEF a
    <3>2. /\ Append(server.audio, a) \in Seq(Listener)
          /\ Len(Append(server.audio, a)) = Len(server.audio) + 1
      BY <1>0, <3>1
    <3> DEFINE c == Append(server.audio, a)
    <3>3. t = [s EXCEPT !.audio = c] BY <2>5 DEF add_audio_client, a
    <3> HIDE DEF c
    <3>4. t \in ServerStates /\ t.audio = c /\ t.clients = s.clients BY <1>0, <3>2, <3>3, ServerFields DEF c
    <3> QED BY <1>0, <2>5, <3>2, <3>4 DEF Fits, c
  <2> QED BY <1>6, <2>3, <2>4, <2>5 DEF route_http_request
<1>8. CASE SendFrame
  <2>1. CASE UNCHANGED server BY <1>1, <2>1
  <2>2. CASE thr.i # 0 /\ ThreadAt("frames") /\ server' = remove_client(server, thr.i)
    <3>1. thr.i \in 1 .. Len(server.clients) BY <1>0, <2>2 DEF CastTypeOK, LoopInv, ThreadStates
    <3>2. /\ RemoveAt(server.clients, thr.i) \in Seq(Peer)
          /\ Len(RemoveAt(server.clients, thr.i)) = Len(server.clients) - 1
      BY <1>0, <3>1, RemoveAtIs
    <3> DEFINE c == RemoveAt(server.clients, thr.i)
    <3>3. t = [s EXCEPT !.clients = c] BY <2>2 DEF remove_client
    <3> HIDE DEF c
    <3>4. t \in ServerStates /\ t.clients = c /\ t.audio = s.audio BY <1>0, <3>2, <3>3, ServerFields DEF c
    <3> QED BY <1>0, <3>2, <3>4 DEF Fits, c
  <2> QED BY <1>8, <2>1, <2>2 DEF SendFrame
<1>9. CASE SendAudio
  <2>1. CASE UNCHANGED server BY <1>1, <2>1
  <2>2. CASE thr.i # 0 /\ ThreadAt("chunk") /\ server' # server
    <3>1. thr.i \in 1 .. Len(server.audio) BY <1>0, <2>2 DEF CastTypeOK, LoopInv, ThreadStates
    <3>2. CASE server' = remove_audio_client(server, thr.i)
      <4>1. /\ RemoveAt(server.audio, thr.i) \in Seq(Listener)
            /\ Len(RemoveAt(server.audio, thr.i)) = Len(server.audio) - 1
        BY <1>0, <3>1, RemoveAtIs
      <4> DEFINE c == RemoveAt(server.audio, thr.i)
      <4>2. t = [s EXCEPT !.audio = c] BY <3>2 DEF remove_audio_client
      <4> HIDE DEF c
      <4>3. t \in ServerStates /\ t.audio = c /\ t.clients = s.clients BY <1>0, <4>1, <4>2, ServerFields DEF c
      <4> QED BY <1>0, <4>1, <4>3 DEF Fits, c
    <3>3. ASSUME NEW end \in Int, server' = [server EXCEPT !.audio[thr.i].rd = end % Ring]
          PROVE  Fits(t)
      <4> DEFINE r == end % Ring
                 a == [server.audio EXCEPT ![thr.i].rd = r]
      <4>1. r \in 0 .. Ring - 1 BY <1>0, Remainder
      <4> HIDE DEF r
      <4>2. server.audio[thr.i] \in Listener BY <1>0, <3>1
      <4>3. [server.audio[thr.i] EXCEPT !.rd = r] \in Listener BY <4>1, <4>2 DEF Listener
      <4>4. a = [server.audio EXCEPT ![thr.i] = [server.audio[thr.i] EXCEPT !.rd = r]] OBVIOUS
      <4>5. a \in Seq(Listener) /\ Len(a) = Len(server.audio) BY <1>0, <3>1, <4>3, <4>4
      <4>6. t = [s EXCEPT !.audio = a] BY <3>3 DEF r
      <4> HIDE DEF a
      <4>7. t \in ServerStates /\ t.audio = a /\ t.clients = s.clients BY <1>0, <4>5, <4>6, ServerFields
      <4> QED BY <1>0, <4>5, <4>7 DEF Fits
    <3>4. thr.w % Ring \in Int /\ server.audio[thr.i].rd \in Int /\ Ring \in Int
      <4>1. server.audio[thr.i] \in Listener BY <1>0, <3>1
      <4>2. thr.w \in Int BY DEF CastTypeOK, ThreadStates
      <4>3. Mod(thr.w, Ring) \in 0 .. Ring - 1 BY <1>0, <4>2, ModType
      <4>4. thr.w % Ring \in Int BY <1>0, <4>3 DEF Mod
      <4> QED BY <1>0, <4>1, <4>4 DEF Listener
    <3> QED BY <1>9, <2>2, <3>2, <3>3, <3>4 DEF SendAudio
  <2> QED BY <1>9, <2>1, <2>2 DEF SendAudio
<1>10. CASE Serve
  BY <1>1, <1>4, <1>5, <1>6, <1>8, <1>9, <1>10
  DEF Serve, server_thread_func, Select, SendAnswer, TestReady, CopyFrame, TestAudio
<1>11. CASE Frame \/ Sound BY <1>2, <1>3, <1>11 DEF Frame, Sound, cast_server_push_frame, cast_server_push_audio
<1>12. CASE cast_server_stop BY <1>4, <1>12 DEF cast_server_stop, AskStop, Release
<1> QED BY <1>1, <1>10, <1>11, <1>12
  DEF CastNext, AudioCleanup, Handshake, Disconnect, Heartbeat, Peers, Knock, serverVars

\* One send, for the listener in the entry that the loop has reached.
LEMMA SendAudioIs ==
  ASSUME Sizes, CastTypeOK, LoopInv, SendAudio, thr.i # 0
  PROVE  LET i == thr.i
             c == server.audio[i]
             wr == Mod(thr.w, Ring)
             end == IF wr >= c.rd THEN wr ELSE Ring
         IN  /\ i \in 1 .. Len(server.audio) /\ c \in Listener
             /\ \/ /\ wr = c.rd /\ thr' = [thr EXCEPT !.i = i - 1] /\ UNCHANGED <<server, peer>>
                \/ /\ c.fd \in Slow /\ thr' = [thr EXCEPT !.i = i - 1]
                   /\ server' = remove_audio_client(server, i) /\ peer' = Close(peer, {c.fd})
                \/ /\ wr # c.rd /\ end \in c.rd + 1 .. Ring
                   /\ server' = [server EXCEPT !.audio[i].rd = Mod(end, Ring)]
                   /\ thr' = IF Mod(end, Ring) = wr THEN [thr EXCEPT !.i = i - 1] ELSE thr
                   /\ \/ c.fd \in Slow /\ UNCHANGED peer
                      \/ peer' = Hear(c.fd, RingSlots(c.rd, end))
<1>1. /\ thr.i \in Nat /\ thr.w \in Int /\ server.audio \in Seq(Listener)
      /\ Ring \in Nat \ {0}
  BY DEF CastTypeOK, ThreadStates, ServerStates, Sizes
<1>2. thr.i \in 1 .. Len(server.audio) BY <1>1 DEF SendAudio, ThreadAt, LoopInv
<1> DEFINE c == server.audio[thr.i]
           wr == Mod(thr.w, Ring)
           end == IF wr >= c.rd THEN wr ELSE Ring
<1>3. c \in Listener /\ c.fd \in Peer /\ c.rd \in 0 .. Ring - 1
  <2>1. c \in Listener BY <1>1, <1>2
  <2> HIDE DEF c
  <2> QED BY <2>1 DEF Listener
<1>4. wr \in 0 .. Ring - 1 BY <1>1, ModType
<1>5. wr # c.rd => end \in c.rd + 1 .. Ring BY SMTT(20), <1>1, <1>3, <1>4
<1>6. \/ /\ wr = c.rd /\ thr' = [thr EXCEPT !.i = thr.i - 1] /\ UNCHANGED <<server, peer>>
      \/ /\ wr # c.rd
         /\ \E r \in Sent(c.fd) :
              IF r = "fail"
              THEN /\ server' = remove_audio_client(server, thr.i)
                   /\ peer' = Close(peer, {c.fd})
                   /\ thr' = [thr EXCEPT !.i = thr.i - 1]
              ELSE /\ server' = [server EXCEPT !.audio[thr.i].rd = Mod(end, Ring)]
                   /\ thr' = IF Mod(end, Ring) = wr THEN [thr EXCEPT !.i = thr.i - 1] ELSE thr
                   /\ peer' = IF r = "whole" THEN Hear(c.fd, RingSlots(c.rd, end)) ELSE peer
  BY DEF SendAudio, Mod
<1>7. \A p : \A r \in Sent(p) : r # "whole" => p \in Slow BY DEF Sent
<1> HIDE DEF c, wr, end
<1>8. CASE wr # c.rd
  <2>1. PICK r \in Sent(c.fd) :
              IF r = "fail"
              THEN /\ server' = remove_audio_client(server, thr.i)
                   /\ peer' = Close(peer, {c.fd})
                   /\ thr' = [thr EXCEPT !.i = thr.i - 1]
              ELSE /\ server' = [server EXCEPT !.audio[thr.i].rd = Mod(end, Ring)]
                   /\ thr' = IF Mod(end, Ring) = wr THEN [thr EXCEPT !.i = thr.i - 1] ELSE thr
                   /\ peer' = IF r = "whole" THEN Hear(c.fd, RingSlots(c.rd, end)) ELSE peer
    BY <1>6, <1>8
  <2>2. CASE r = "fail"
    <3>1. c.fd \in Slow BY <1>7, <2>2
    <3> QED BY <1>2, <1>3, <2>1, <2>2, <3>1 DEF c, wr, end
  <2>3. CASE r # "fail"
    <3>1. (c.fd \in Slow /\ UNCHANGED peer) \/ peer' = Hear(c.fd, RingSlots(c.rd, end)) BY <1>7, <2>1, <2>3
    <3>2. /\ server' = [server EXCEPT !.audio[thr.i].rd = Mod(end, Ring)]
          /\ thr' = IF Mod(end, Ring) = wr THEN [thr EXCEPT !.i = thr.i - 1] ELSE thr
      BY <2>1, <2>3
    <3> QED BY <1>2, <1>3, <1>5, <1>8, <3>1, <3>2 DEF c, wr, end
  <2> QED BY <2>2, <2>3
<1>9. CASE wr = c.rd
  BY <1>2, <1>3, <1>6, <1>9 DEF c, wr, end
<1> QED BY <1>8, <1>9

\* The server thread keeps its type.
LEMMA ThreadType ==
  ASSUME Sizes, CastTypeOK, CastNext
  PROVE  thr' \in ThreadStates
<1>0. /\ thr \in ThreadStates /\ thr.waited \in Nat /\ thr.spent \in Nat /\ thr.i \in Nat
      /\ server.frame \in Nat /\ server.w \in Nat
      /\ Len(server.clients) \in Nat /\ Len(server.audio) \in Nat
  BY ServerFields DEF CastTypeOK, ThreadStates
<1> DEFINE pcs == {"select", "recv", "send", "ready", "copy", "frames", "audio", "chunk", "done"}
<1>1. CASE UNCHANGED thr BY <1>0, <1>1
<1>2. CASE thr' = Fresh BY <1>2 DEF Fresh, ThreadStates
<1>3. ASSUME NEW pc \in pcs, thr' = [thr EXCEPT !.pc = pc] PROVE thr' \in ThreadStates
  BY <1>0, <1>3 DEF ThreadStates
<1>4. ASSUME NEW p \in Peer, thr' = [thr EXCEPT !.pc = "recv", !.fd = p] PROVE thr' \in ThreadStates
  BY <1>0, <1>4 DEF ThreadStates
<1>5. CASE thr' = [thr EXCEPT !.pc = "ready", !.fd = "none"] BY <1>0, <1>5 DEF ThreadStates
<1>6. ASSUME NEW n \in Nat, NEW i \in Nat, thr' = [thr EXCEPT !.pc = "frames", !.pic = n, !.i = i]
      PROVE  thr' \in ThreadStates
  BY <1>0, <1>6 DEF ThreadStates
<1>7. CASE thr' = [thr EXCEPT !.pc = "audio", !.pic = 0] BY <1>0, <1>7 DEF ThreadStates
<1>8. ASSUME NEW i \in Nat, thr' = [thr EXCEPT !.i = i] PROVE thr' \in ThreadStates
  BY <1>0, <1>8 DEF ThreadStates
<1>9. ASSUME NEW i \in Nat, NEW w \in Nat, thr' = [thr EXCEPT !.pc = "chunk", !.i = i, !.w = w]
      PROVE  thr' \in ThreadStates
  BY <1>0, <1>9 DEF ThreadStates
<1>10. ASSUME NEW n \in Nat, thr' = [thr EXCEPT !.waited = n] \/ thr' = [thr EXCEPT !.spent = n]
       PROVE  thr' \in ThreadStates
  BY <1>0, <1>10 DEF ThreadStates
<1>11. thr.i # 0 => thr.i - 1 \in Nat BY <1>0
<1>12. CASE Select BY <1>3, <1>4, <1>12 DEF Select
<1>13. CASE route_http_request
  <2>1. ASSUME NEW n \in Nat, thr' = [thr EXCEPT !.pc = "send", !.pic = n] PROVE thr' \in ThreadStates
    BY <1>0, <2>1 DEF ThreadStates
  <2>2. CASE thr' = [thr EXCEPT !.pc = "send", !.pic = IF peer[thr.fd].ask = "page" THEN 0 ELSE server.frame]
    BY <1>0, <2>1, <2>2
  <2> QED BY <1>5, <1>13, <2>2 DEF route_http_request
<1>20. CASE SendAnswer
  <2>1. thr' = [thr EXCEPT !.pc = "ready", !.fd = "none", !.pic = 0] BY <1>20 DEF SendAnswer
  <2> QED BY <1>0, <2>1 DEF ThreadStates
<1>14. CASE TestReady BY <1>3, <1>14 DEF TestReady
<1>15. CASE CopyFrame BY <1>0, <1>3, <1>6, <1>15 DEF CopyFrame
<1>16. CASE SendFrame BY <1>7, <1>8, <1>11, <1>16 DEF SendFrame
<1>17. CASE TestAudio BY <1>0, <1>9, <1>17 DEF TestAudio
<1>18. CASE SendAudio BY <1>1, <1>2, <1>8, <1>11, <1>18 DEF SendAudio
<1>19. CASE Sound
  <2>1. thr.waited + 1 \in Nat /\ thr.spent + 1 \in Nat BY <1>0
  <2>2. \/ thr' = thr
        \/ thr' = [thr EXCEPT !.waited = thr.waited + 1] \/ thr' = [thr EXCEPT !.spent = thr.spent + 1]
    BY <1>19 DEF Sound, cast_server_push_audio
  <2> QED BY <1>1, <1>10, <2>1, <2>2
<1> QED BY <1>1, <1>12, <1>13, <1>14, <1>15, <1>16, <1>17, <1>18, <1>19, <1>20
  DEF CastNext, Serve, server_thread_func, Frame, cast_server_push_frame, AudioCleanup,
      cast_server_stop, AskStop, Release, Handshake, Disconnect, Heartbeat, Peers, Knock, serverVars

\* The peers keep their type.
LEMMA PeersType ==
  ASSUME Sizes, CastTypeOK, CastNext, OwnerInv, LoopInv
  PROVE  peer' \in PeerStates
<1>0. /\ peer \in PeerStates /\ thr \in ThreadStates /\ thr.pic \in Nat
      /\ server \in ServerStates /\ server.frame \in Nat /\ server.w \in Int
  BY ServerFields DEF CastTypeOK, ThreadStates
<1>1. CASE UNCHANGED peer BY <1>0, <1>1
<1>2. ASSUME NEW ps, peer' = Close(peer, ps) PROVE peer' \in PeerStates
  BY <1>0, <1>2, CloseIs
<1>3. ASSUME NEW p \in Peer, peer' = [peer EXCEPT ![p].sock = "open"] PROVE peer' \in PeerStates
  BY <1>0, <1>3 DEF PeerStates
<1>4. ASSUME NEW p \in Peer, NEW n \in Int, peer' = [peer EXCEPT ![p].next = n] PROVE peer' \in PeerStates
  BY <1>0, <1>4 DEF PeerStates
<1>5. ASSUME NEW p \in Peer, NEW n \in Nat PROVE [peer EXCEPT ![p].shown = n] \in PeerStates
  BY <1>0, <1>5 DEF PeerStates
<1>6. ASSUME NEW p \in Peer, Knock(p) PROVE peer' \in PeerStates
  <2>1. PICK ask \in Asks : peer' = [peer EXCEPT ![p] = [Away EXCEPT !.sock = "knock", !.ask = ask,
                                                         !.visits = peer[p].visits + 1]]
    BY <1>6 DEF Knock
  <2> DEFINE v == peer[p].visits + 1
             r == [Away EXCEPT !.sock = "knock", !.ask = ask, !.visits = v]
  <2>2. v \in Nat BY <1>0 DEF PeerStates
  <2> HIDE DEF v
  <2>3. r \in [sock : {"none", "knock", "open", "closed"}, ask : Asks \cup {"page"},
               shown : Nat, next : Int, exact : BOOLEAN, visits : Nat]
    <3> DEFINE S == [sock : {"none", "knock", "open", "closed"}, ask : Asks \cup {"page"},
                     shown : Nat, next : Int, exact : BOOLEAN, visits : Nat]
               a == [Away EXCEPT !.sock = "knock"]
               b == [a EXCEPT !.ask = ask]
    <3>1. Away \in S BY DEF Away
    <3>2. a \in S BY <3>1
    <3>3. r = [b EXCEPT !.visits = v] OBVIOUS
    <3> HIDE DEF a
    <3>4. b \in S BY <3>2
    <3> HIDE DEF b, r
    <3> QED BY <2>2, <3>3, <3>4
  <2>4. peer' = [peer EXCEPT ![p] = r] BY <2>1 DEF v
  <2> HIDE DEF r
  <2> QED BY <1>0, <2>3, <2>4 DEF PeerStates
<1>7. CASE Select BY <1>1, <1>2, <1>3, <1>7 DEF Select
<1>8. CASE route_http_request
  <2>1. thr.fd \in Peer BY <1>8 DEF route_http_request, OwnerInv, Serving, ThreadAt
  <2> QED BY <1>0, <1>1, <1>2, <1>4, <1>8, <2>1 DEF route_http_request
<1>11. CASE SendAnswer
  <2>1. thr.fd \in Peer BY <1>11 DEF SendAnswer, OwnerInv, Serving, ThreadAt
  <2>2. [peer EXCEPT ![thr.fd].shown = thr.pic] \in PeerStates BY <1>0, <1>5, <2>1
  <2>3. Close([peer EXCEPT ![thr.fd].shown = thr.pic], {thr.fd}) \in PeerStates BY <2>2, CloseIs
  <2> QED BY <1>11, <2>3 DEF SendAnswer
<1>9. CASE SendFrame
  <2>1. CASE thr.i # 0 /\ ThreadAt("frames")
    <3>1. server.clients[thr.i] \in Peer
      BY <1>0, <2>1, ServerFields DEF LoopInv, CastTypeOK, ThreadStates
    <3>2. [peer EXCEPT ![server.clients[thr.i]].shown = thr.pic] \in PeerStates BY <1>0, <1>5, <3>1
    <3> QED BY <1>1, <1>2, <1>9, <2>1, <3>2 DEF SendFrame
  <2> QED BY <1>1, <1>9, <2>1 DEF SendFrame
<1>10. CASE SendAudio
  <2>1. CASE thr.i = 0 BY <1>1, <1>10, <2>1 DEF SendAudio
  <2>2. CASE thr.i # 0
    <3> DEFINE c == server.audio[thr.i]
               wr == Mod(thr.w, Ring)
               end == IF wr >= c.rd THEN wr ELSE Ring
    <3>1. /\ c \in Listener
          /\ \/ UNCHANGED peer \/ peer' = Close(peer, {c.fd})
             \/ end \in c.rd + 1 .. Ring /\ peer' = Hear(c.fd, RingSlots(c.rd, end))
      BY <1>10, <2>2, SendAudioIs
    <3>2. c.fd \in Peer /\ c.rd \in 0 .. Ring - 1 BY <3>1 DEF Listener
    <3> HIDE DEF c, end
    <3>3. CASE end \in c.rd + 1 .. Ring /\ peer' = Hear(c.fd, RingSlots(c.rd, end))
      <4>1. /\ RingSlots(c.rd, end) # <<>>
            /\ Last(RingSlots(c.rd, end)) = Latest(end - 1) /\ Latest(end - 1) \in Int
        BY <3>2, <3>3, SlotsAre
      <4>2. Hear(c.fd, RingSlots(c.rd, end)) \in PeerStates BY <3>2, <4>1, HearIs
      <4> QED BY <3>3, <4>2
    <3> QED BY <1>1, <1>2, <3>1, <3>3
  <2> QED BY <2>1, <2>2
<1> QED BY <1>1, <1>2, <1>6, <1>7, <1>8, <1>9, <1>10, <1>11
  DEF CastNext, Serve, server_thread_func, TestReady, CopyFrame, TestAudio, Frame, Sound,
      cast_server_push_frame, cast_server_push_audio, AudioCleanup,
      cast_server_stop, AskStop, Release, Handshake, Disconnect, Heartbeat, Peers, serverVars

\* The client and the main thread keep their type.
LEMMA ClientType ==
  ASSUME CastTypeOK, CastNext
  PROVE  /\ client' \in ClientStates
         /\ at' \in {"tls", "launch", "await", "transport", "url", "start", "run",
                     "disconnect", "reap", "farewell", "stop", "join", "gone"}
         /\ beat' \in {"none", "loop", "sleep", "lock", "send", "relock", "write", "unlock", "exit"}
<1> USE DEF CastTypeOK
<1>1. CASE UNCHANGED clientVars BY <1>1 DEF clientVars
<1>2. CASE AudioCleanup \/ cast_server_stop BY <1>2 DEF AudioCleanup, cast_server_stop
<1>3. CASE Handshake
  <2>1. client.n + 1 \in Nat /\ client.ssl \in BOOLEAN BY DEF ClientStates
  <2>2. CASE Error BY <2>1, <2>2 DEF Error, Idle, ClientStates
  <2>3. CASE castv2_tls_connect
    BY <2>2, <2>3 DEF castv2_tls_connect, To, ClientStates
  <2>4. CASE Launch
    <3>1. [client EXCEPT !.state = "launching", !.n = 0] \in ClientStates BY DEF ClientStates
    <3> QED BY <2>2, <2>4, <3>1 DEF Launch, To
  <2>8. CASE ConnectTransport BY <2>2, <2>8 DEF ConnectTransport, To
  <2>5. CASE AwaitTransport
    <3> DEFINE n == client.n + 1
    <3>1. n \in Nat BY <2>1
    <3> HIDE DEF n
    <3>2. [client EXCEPT !.n = n] \in ClientStates /\ [client EXCEPT !.n = 0] \in ClientStates
      BY <3>1 DEF ClientStates
    <3>3. [client EXCEPT !.n = client.n + 1] \in ClientStates BY <3>2 DEF n
    <3> QED BY <2>2, <2>5, <3>2, <3>3 DEF AwaitTransport, To
  <2>6. CASE SendUrl
    <3> DEFINE n == client.n + 1
    <3>1. n \in Nat BY <2>1
    <3> HIDE DEF n
    <3>2. [client EXCEPT !.n = n] \in ClientStates BY <3>1 DEF ClientStates
    <3>3. [client EXCEPT !.n = client.n + 1] \in ClientStates BY <3>2 DEF n
    <3> QED BY <2>2, <2>6, <3>3 DEF SendUrl, To
  <2>7. CASE StartHeartbeat
    <3>1. PICK ok \in BOOLEAN :
            /\ client' = [client EXCEPT !.hb = ok, !.state = "running", !.has = TRUE, !.n = 0]
            /\ beat' = IF ok THEN "loop" ELSE "none"
      BY <2>7 DEF StartHeartbeat
    <3>2. client' \in ClientStates BY <3>1 DEF ClientStates
    <3> QED BY <2>7, <3>1, <3>2 DEF StartHeartbeat
  <2> QED BY <1>3, <2>3, <2>4, <2>5, <2>6, <2>7, <2>8 DEF Handshake, castv2_connect_and_cast
<1>4. CASE Disconnect
  <2>1. CASE StopHeartbeat
    <3>1. client' \in ClientStates BY <2>1 DEF StopHeartbeat, To, ClientStates
    <3> QED BY <2>1, <3>1 DEF StopHeartbeat, To
  <2>2. CASE JoinHeartbeat BY <2>2 DEF JoinHeartbeat, To
  <2>3. CASE Farewell
    <3>1. Idle \in ClientStates BY DEF Idle, ClientStates
    <3> QED BY <2>3, <3>1 DEF Farewell, To
  <2> QED BY <1>4, <2>1, <2>2, <2>3 DEF Disconnect, castv2_disconnect
<1>5. CASE Heartbeat
  <2>1. client.beats + 1 \in Nat BY DEF ClientStates
  <2>2. /\ client' \in ClientStates
    BY <1>5, <2>1 DEF Heartbeat, heartbeat_thread_func, HeartbeatLoop, Cancelled, Beat, ClientStates
  <2>3. at' = at /\ beat' \in {"loop", "sleep", "lock", "send", "relock", "write", "unlock", "exit"}
    BY <1>5 DEF Heartbeat, heartbeat_thread_func, HeartbeatLoop, Cancelled, Beat
  <2> QED BY <2>2, <2>3
<1> QED BY <1>1, <1>2, <1>3, <1>4, <1>5 DEF CastNext, Frame, Sound, Serve, Peers

\* Every step keeps the types.
LEMMA TypeStep ==
  ASSUME Sizes, CastTypeOK, CastNext, OwnerInv, LoopInv
  PROVE  CastTypeOK'
<1>1. delayed' \in SUBSET Peer
  <2>1. delayed \in SUBSET Peer BY DEF CastTypeOK
  <2>2. CASE UNCHANGED delayed BY <2>1, <2>2
  <2>3. CASE delayed' = delayed \cup Listeners
    <3>1. Listeners \subseteq Peer
      <4>1. server.audio \in Seq(Listener) BY DEF CastTypeOK, ServerStates
      <4>2. \A k \in DOMAIN server.audio : server.audio[k] \in Listener BY <4>1
      <4> QED BY <4>2 DEF Listeners, Listener
    <3> QED BY <2>1, <2>3, <3>1
  <2>4. ASSUME NEW p, delayed' = delayed \ {p} PROVE delayed' \in SUBSET Peer BY <2>1, <2>4
  <2> QED BY <2>2, <2>3, <2>4
    DEF CastNext, Serve, server_thread_func, Frame, cast_server_push_frame, Sound, cast_server_push_audio,
        AudioCleanup, cast_server_stop, AskStop, Release, Handshake, Disconnect, Heartbeat, Peers, Knock, serverVars
<1> QED BY <1>1, TablesType, ThreadType, PeersType, ClientType DEF CastTypeOK, Fits

-----------------------------------------------------------------------------
(* The client *)

\* The connection outlives its heartbeat.
LEMMA BeatStep == CastTypeOK /\ BeatInv /\ CastNext => BeatInv'
<1> SUFFICES ASSUME CastTypeOK, BeatInv, CastNext PROVE BeatInv' OBVIOUS
<1> USE DEF BeatInv, Beating
<1>0. client \in ClientStates BY DEF CastTypeOK
<1>1. CASE UNCHANGED clientVars BY <1>1 DEF clientVars
<1>2. CASE AudioCleanup BY <1>2 DEF AudioCleanup
<1>3. CASE cast_server_stop BY <1>3 DEF cast_server_stop
<1>4. CASE Handshake
  <2>1. CASE StartHeartbeat
    BY <1>0, <2>1 DEF StartHeartbeat, ClientStates
  <2>2. CASE Error BY <1>4, <2>2 DEF Error, Handshake, castv2_connect_and_cast, castv2_tls_connect, Launch,
        AwaitTransport, ConnectTransport, SendUrl, StartHeartbeat
  <2>3. CASE castv2_tls_connect
    BY <1>0, <2>2, <2>3 DEF castv2_tls_connect, To, ClientStates
  <2>4. CASE Launch BY <1>0, <2>2, <2>4 DEF Launch, To, ClientStates
  <2>5. CASE AwaitTransport BY <1>0, <2>2, <2>5 DEF AwaitTransport, To, ClientStates
  <2>6. CASE ConnectTransport BY <1>0, <2>2, <2>6 DEF ConnectTransport, To, ClientStates
  <2>7. CASE SendUrl BY <1>0, <2>2, <2>7 DEF SendUrl, To, ClientStates
  <2> QED BY <1>4, <2>1, <2>3, <2>4, <2>5, <2>6, <2>7 DEF Handshake, castv2_connect_and_cast
<1>5. CASE Disconnect
  BY <1>0, <1>5 DEF Disconnect, castv2_disconnect, StopHeartbeat, JoinHeartbeat, Reaped, Farewell, To, Idle, ClientStates
<1>6. CASE Heartbeat
  BY <1>0, <1>6 DEF Heartbeat, heartbeat_thread_func, HeartbeatLoop, Cancelled, Beat, ClientStates
<1> QED BY <1>1, <1>2, <1>3, <1>4, <1>5, <1>6 DEF CastNext, Frame, Sound, Serve, Peers

-----------------------------------------------------------------------------
(* The life of the server *)

\* The server is released after its thread has ended, by the main thread.
LEMMA LifeStep == CastTypeOK /\ OwnerInv /\ LifeInv /\ CastNext => LifeInv'
<1> SUFFICES ASSUME CastTypeOK, LifeInv, CastNext PROVE LifeInv' OBVIOUS
<1> USE DEF LifeInv, ThreadAt
<1>0. server \in ServerStates /\ thr \in ThreadStates BY DEF CastTypeOK
<1>1. CASE Frame BY <1>0, <1>1 DEF Frame, cast_server_push_frame, clientVars, ServerStates
<1>2. CASE Sound
  BY <1>0, <1>2 DEF Sound, cast_server_push_audio, clientVars, ServerStates, ThreadStates
<1>3. CASE AudioCleanup BY <1>3 DEF AudioCleanup, serverVars
<1>4. CASE cast_server_stop
  BY <1>0, <1>4 DEF cast_server_stop, AskStop, Joined, Release, ServerStates
<1>5. CASE Handshake
  BY <1>5 DEF Handshake, castv2_connect_and_cast, castv2_tls_connect, Launch, AwaitTransport,
     ConnectTransport, SendUrl, StartHeartbeat, To, Error, serverVars
<1>6. CASE Disconnect
  BY <1>6 DEF Disconnect, castv2_disconnect, StopHeartbeat, JoinHeartbeat, Farewell, To, serverVars
<1>7. CASE Heartbeat
  BY <1>7 DEF Heartbeat, heartbeat_thread_func, HeartbeatLoop, Cancelled, Beat, serverVars
<1>8. CASE Serve
  <2>1. at' = at /\ ~ThreadAt("done") BY <1>8 DEF Serve, clientVars, server_thread_func, Select, route_http_request, SendAnswer,
        TestReady, CopyFrame, SendFrame, TestAudio, SendAudio
  <2>2. server'.alive = server.alive /\ server'.active = server.active
    BY <1>0, <1>8 DEF Serve, server_thread_func, Select, route_http_request, SendAnswer, add_client, add_audio_client,
       TestReady, CopyFrame, SendFrame, remove_client, TestAudio, SendAudio, remove_audio_client, ServerStates
  <2> QED BY <2>1, <2>2
<1>9. CASE Peers BY <1>9 DEF Peers, Knock, clientVars
<1> QED BY <1>1, <1>2, <1>3, <1>4, <1>5, <1>6, <1>7, <1>8, <1>9 DEF CastNext

-----------------------------------------------------------------------------
(* Sockets and loops *)

\* What those invariants are about.
Tables == <<server.clients, server.audio, thr.pc, thr.fd, thr.i>>
Open(p) == peer[p].sock = "open"

\* Only the server thread touches its tables and its sockets.
LEMMA OthersKeep ==
  ASSUME CastTypeOK, CastNext, ~Serve
  PROVE  UNCHANGED Tables /\ \A p \in Peer : Open(p)' <=> Open(p)
<1> USE DEF Tables, Open
<1>0. server \in ServerStates /\ thr \in ThreadStates /\ peer \in PeerStates BY DEF CastTypeOK
<1>1. CASE Frame BY <1>0, <1>1 DEF Frame, cast_server_push_frame, ServerStates
<1>2. CASE Sound
  <2>1. server'.clients = server.clients /\ server'.audio = server.audio /\ peer' = peer
    BY <1>0, <1>2 DEF Sound, cast_server_push_audio, ServerStates
  <2>2. thr'.pc = thr.pc /\ thr'.fd = thr.fd /\ thr'.i = thr.i
    BY <1>0, <1>2 DEF Sound, cast_server_push_audio, ThreadStates
  <2> QED BY <2>1, <2>2
<1>3. CASE UNCHANGED serverVars BY <1>3 DEF serverVars
<1>4. CASE cast_server_stop
  <2>1. CASE AskStop BY <1>0, <2>1 DEF AskStop, ServerStates
  <2>2. CASE Release
    <3>1. server'.clients = server.clients /\ server'.audio = server.audio /\ thr' = thr
      BY <1>0, <2>2 DEF Release, ServerStates
    <3>2. \A p \in Peer : peer'[p].sock = IF p \in {q \in Peer : peer[q].sock = "knock"} THEN "closed" ELSE peer[p].sock
      BY <1>0, <2>2, CloseIs DEF Release
    <3>3. \A p \in Peer : Open(p)' <=> Open(p) BY <3>2
    <3> QED BY <3>1, <3>3
  <2> QED BY <1>4, <2>1, <2>2 DEF cast_server_stop
<1>5. CASE Peers
  <2>1. PICK q \in Peer : Knock(q) BY <1>5 DEF Peers
  <2>2. /\ UNCHANGED <<server, thr>> /\ peer[q].sock # "open" /\ peer'[q].sock = "knock"
        /\ \A p \in Peer : p # q => peer'[p] = peer[p]
    <3>1. PICK ask \in Asks : peer' = [peer EXCEPT ![q] = [Away EXCEPT !.sock = "knock", !.ask = ask,
                                                             !.visits = peer[q].visits + 1]]
      BY <2>1 DEF Knock
    <3>2. peer'[q] = [Away EXCEPT !.sock = "knock", !.ask = ask, !.visits = peer[q].visits + 1]
      BY <1>0, <3>1 DEF PeerStates
    <3>3. peer'[q].sock = "knock" BY <3>2 DEF Away
    <3>4. \A p \in Peer : p # q => peer'[p] = peer[p] BY <1>0, <3>1 DEF PeerStates
    <3> QED BY <2>1, <3>3, <3>4 DEF Knock
  <2> QED BY <2>2
<1> QED BY <1>1, <1>2, <1>3, <1>4, <1>5 DEF CastNext, AudioCleanup, Handshake, Disconnect, Heartbeat

\* What the thread does to its tables.
LEMMA DropClient ==
  ASSUME NEW s \in ServerStates, NEW i \in 1 .. Len(s.clients)
  PROVE  LET t == remove_client(s, i)
         IN  /\ t.clients = RemoveAt(s.clients, i) /\ t.audio = s.audio /\ t.w = s.w
             /\ t.running = s.running
             /\ t.clients \in Seq(Peer) /\ Len(t.clients) = Len(s.clients) - 1
<1>1. /\ RemoveAt(s.clients, i) \in Seq(Peer)
      /\ Len(RemoveAt(s.clients, i)) = Len(s.clients) - 1
  BY ZenonT(30), ServerFields, RemoveAtIs
<1> QED BY <1>1 DEF remove_client, ServerStates

\* The same for a sound stream.
LEMMA DropListener ==
  ASSUME NEW s \in ServerStates, NEW i \in 1 .. Len(s.audio)
  PROVE  LET t == remove_audio_client(s, i)
         IN  /\ t.audio = RemoveAt(s.audio, i) /\ t.clients = s.clients /\ t.w = s.w
             /\ t.audio \in Seq(Listener) /\ Len(t.audio) = Len(s.audio) - 1
<1>1. /\ RemoveAt(s.audio, i) \in Seq(Listener)
      /\ Len(RemoveAt(s.audio, i)) = Len(s.audio) - 1
  BY ServerFields, RemoveAtIs
<1> QED BY <1>1 DEF remove_audio_client, ServerStates

\* Moving a read position moves nothing else.
LEMMA SetPosition ==
  ASSUME NEW s \in ServerStates, NEW i \in 1 .. Len(s.audio), NEW r
  PROVE  LET t == [s EXCEPT !.audio[i].rd = r]
         IN  /\ t.clients = s.clients /\ t.w = s.w
             /\ DOMAIN t.audio = DOMAIN s.audio /\ Len(t.audio) = Len(s.audio)
             /\ \A k \in DOMAIN s.audio : /\ t.audio[k].fd = s.audio[k].fd
                                          /\ t.audio[k].rd = IF k = i THEN r ELSE s.audio[k].rd
<1>1. /\ s.audio \in Seq(Listener) /\ i \in DOMAIN s.audio BY ServerFields
<1> DEFINE a == [s.audio EXCEPT ![i] = [s.audio[i] EXCEPT !.rd = r]]
<1>2. [s EXCEPT !.audio[i].rd = r] = [s EXCEPT !.audio = a] OBVIOUS
<1>3. s.audio[i] \in Listener BY <1>1
<1>4. /\ DOMAIN a = DOMAIN s.audio /\ Len(a) = Len(s.audio)
      /\ a[i] = [s.audio[i] EXCEPT !.rd = r]
      /\ \A k \in DOMAIN s.audio : k # i => a[k] = s.audio[k]
  BY <1>1
<1> HIDE DEF a
<1>5. a[i].fd = s.audio[i].fd /\ a[i].rd = r BY <1>3, <1>4 DEF Listener
<1>6. [s EXCEPT !.audio = a].audio = a /\ [s EXCEPT !.audio = a].clients = s.clients
      /\ [s EXCEPT !.audio = a].w = s.w
  BY DEF ServerStates
<1> QED BY <1>2, <1>4, <1>5, <1>6

\* Which sockets are in the tables.
LEMMA InTables ==
  /\ \A p : p \in Streams <=> \E j \in DOMAIN server.clients : server.clients[j] = p
  /\ \A p : p \in Listeners <=> \E j \in DOMAIN server.audio : server.audio[j].fd = p
BY DEF Streams, ToSet, Listeners

\* The loops stay inside the tables.
LEMMA LoopStep == Sizes /\ CastTypeOK /\ LoopInv /\ CastNext => LoopInv'
<1> SUFFICES ASSUME Sizes, CastTypeOK, LoopInv, CastNext PROVE LoopInv' OBVIOUS
<1> USE DEF LoopInv, ThreadAt
<1>0. /\ server \in ServerStates /\ thr \in ThreadStates /\ thr.i \in Nat
      /\ Len(server.clients) \in Nat /\ Len(server.audio) \in Nat
      /\ server.clients \in Seq(Peer) /\ server.audio \in Seq(Listener)
  BY ServerFields DEF CastTypeOK, ThreadStates
<1>1. CASE ~Serve BY <1>1, OthersKeep DEF Tables
<1>2. CASE Select BY ZenonT(30), <1>0, <1>2 DEF Select, ServerStates, ThreadStates
<1>3. CASE route_http_request BY <1>0, <1>3 DEF route_http_request, ThreadStates
<1>9. CASE SendAnswer BY <1>0, <1>9 DEF SendAnswer, ThreadStates
<1>4. CASE TestReady BY <1>0, <1>4 DEF TestReady, ThreadStates
<1>5. CASE CopyFrame
  <2>1. server'.clients = server.clients BY <1>0, <1>5 DEF CopyFrame, ServerStates
  <2>2. thr'.pc = "audio" \/ (thr'.pc = "frames" /\ thr'.i = Len(server.clients))
    BY <1>0, <1>5 DEF CopyFrame, ThreadStates
  <2> QED BY <1>0, <2>1, <2>2
<1>6. CASE SendFrame
  <2>1. CASE thr.i = 0 BY <1>0, <1>6, <2>1 DEF SendFrame, ThreadStates
  <2>2. CASE thr.i # 0
    <3>1. thr.i \in 1 .. Len(server.clients) /\ thr'.i = thr.i - 1 /\ thr'.pc = "frames"
      BY <1>0, <1>6, <2>2 DEF SendFrame, ThreadStates
    <3>2. server' = server \/ server' = remove_client(server, thr.i) BY <1>6, <2>2 DEF SendFrame
    <3>3. Len(server'.clients) \in Nat /\ Len(server'.clients) >= Len(server.clients) - 1
      <4>1. CASE server' = server BY <1>0, <4>1
      <4>2. CASE server' = remove_client(server, thr.i)
        <5>1. Len(remove_client(server, thr.i).clients) = Len(server.clients) - 1
          BY <1>0, <3>1, DropClient
        <5> QED BY <1>0, <3>1, <4>2, <5>1
      <4> QED BY <3>2, <4>1, <4>2
    <3> QED BY <1>0, <3>1, <3>3
  <2> QED BY <2>1, <2>2
<1>7. CASE TestAudio BY <1>0, <1>7 DEF TestAudio, ThreadStates
<1>8. CASE SendAudio
  <2>1. CASE thr.i = 0 BY <1>8, <2>1 DEF SendAudio, Fresh
  <2>2. CASE thr.i # 0
    <3>1. /\ thr.i \in 1 .. Len(server.audio) /\ thr.pc = "chunk"
          /\ \/ thr' = [thr EXCEPT !.i = thr.i - 1] /\ server' = remove_audio_client(server, thr.i)
             \/ /\ server' = server \/ \E r : server' = [server EXCEPT !.audio[thr.i].rd = r]
                /\ thr' = thr \/ thr' = [thr EXCEPT !.i = thr.i - 1]
      BY <1>8, <2>2, SendAudioIs DEF SendAudio
    <3>2. CASE thr' = [thr EXCEPT !.i = thr.i - 1] /\ server' = remove_audio_client(server, thr.i)
      <4>1. Len(server'.audio) = Len(server.audio) - 1 BY <1>0, <3>1, <3>2, DropListener
      <4> QED BY <1>0, <3>1, <3>2, <4>1 DEF ThreadStates
    <3>3. CASE /\ server' = server \/ \E r : server' = [server EXCEPT !.audio[thr.i].rd = r]
               /\ thr' = thr \/ thr' = [thr EXCEPT !.i = thr.i - 1]
      <4>1. Len(server'.audio) = Len(server.audio)
        <5>1. \A r : Len([server EXCEPT !.audio[thr.i].rd = r].audio) = Len(server.audio)
          BY <1>0, <3>1, SetPosition
        <5> QED BY <3>3, <5>1
      <4>2. thr'.pc = "chunk" /\ (thr'.i = thr.i \/ thr'.i = thr.i - 1) BY <1>0, <3>1, <3>3 DEF ThreadStates
      <4> QED BY <1>0, <3>1, <4>1, <4>2
    <3> QED BY <3>1, <3>2, <3>3
  <2> QED BY <2>1, <2>2
<1> QED BY <1>1, <1>2, <1>3, <1>4, <1>5, <1>6, <1>7, <1>8, <1>9 DEF Serve, server_thread_func

\* The sockets stay owned when the tables and what is open change together.
LEMMA OwnerSame ==
  ASSUME OwnerInv, ~Serving, ~Serving',
         server'.clients = server.clients,
         DOMAIN server'.audio = DOMAIN server.audio,
         \A k \in DOMAIN server.audio : server'.audio[k].fd = server.audio[k].fd,
         \A p \in Peer : Open(p)' <=> Open(p)
  PROVE  OwnerInv'
<1>1. Streams' = Streams BY DEF Streams
<1>2. Listeners' = Listeners BY DEF Listeners
<1> QED BY <1>1, <1>2 DEF OwnerInv, Open

\* A socket keeps one owner until it is closed.
LEMMA OwnerStep == Sizes /\ CastTypeOK /\ OwnerInv /\ LoopInv /\ CastNext => OwnerInv'
<1> SUFFICES ASSUME Sizes, CastTypeOK, OwnerInv, LoopInv, CastNext PROVE OwnerInv' OBVIOUS
<1>0. /\ server \in ServerStates /\ thr \in ThreadStates /\ peer \in PeerStates /\ thr.i \in Nat
      /\ Len(server.clients) \in Nat /\ Len(server.audio) \in Nat
      /\ server.clients \in Seq(Peer) /\ server.audio \in Seq(Listener)
      /\ DOMAIN server.clients = 1 .. Len(server.clients)
      /\ DOMAIN server.audio = 1 .. Len(server.audio)
  BY ServerFields DEF CastTypeOK, ThreadStates
<1>1. CASE ~Serve
  <2>1. UNCHANGED Tables /\ \A p \in Peer : Open(p)' <=> Open(p) BY <1>1, OthersKeep
  <2>2. Streams' = Streams /\ Listeners' = Listeners BY <2>1 DEF Tables, Streams, Listeners
  <2> QED BY <2>1, <2>2 DEF OwnerInv, Open, Tables, Serving, ThreadAt
<1>2. CASE Select
  <2>1. CASE ~server.running
    <3>1. server'.clients = <<>> /\ server'.audio = <<>> BY <1>0, <1>2, <2>1 DEF Select, ServerStates
    <3>2. thr'.pc = "done" /\ ThreadAt("select") BY <1>0, <1>2, <2>1 DEF Select, ThreadStates
    <3>3. Streams' = {} /\ Listeners' = {} BY <3>1 DEF Streams, ToSet, Listeners
    <3>4. \A p \in Peer : peer'[p].sock = IF p \in Streams \cup Listeners THEN "closed" ELSE peer[p].sock
      BY <1>0, <1>2, <2>1, CloseIs DEF Select
    <3>5. \A p \in Peer : ~Open(p)' BY <3>2, <3>4 DEF OwnerInv, Open, Serving, ThreadAt
    <3> QED BY <3>1, <3>2, <3>3, <3>5 DEF OwnerInv, Open, Serving, ThreadAt
  <2>2. ASSUME NEW p \in Peer, peer[p].sock = "knock", peer' = [peer EXCEPT ![p].sock = "open"],
               thr' = [thr EXCEPT !.pc = "recv", !.fd = p], UNCHANGED server
        PROVE  OwnerInv'
    <3>1. Streams' = Streams /\ Listeners' = Listeners BY <2>2 DEF Streams, Listeners
    <3>2. thr'.pc = "recv" /\ thr'.fd = p BY <1>0, <2>2 DEF ThreadStates
    <3>3. \A q \in Peer : Open(q)' <=> Open(q) \/ q = p BY <1>0, <2>2 DEF Open, PeerStates
    <3>4. ~Open(p) /\ ThreadAt("select") BY <1>2, <2>2 DEF Open, Select
    <3>5. p \notin Streams /\ p \notin Listeners BY <3>4 DEF OwnerInv, Open
    <3> QED BY <2>2, <3>1, <3>2, <3>3, <3>4, <3>5 DEF OwnerInv, Open, Serving, ThreadAt
  <2>3. CASE thr' = [thr EXCEPT !.pc = "ready"] /\ UNCHANGED <<server, peer>>
    <3>1. thr'.pc = "ready" /\ ThreadAt("select") BY <1>0, <1>2, <2>3 DEF Select, ThreadStates
    <3> QED BY <2>3, <3>1, OwnerSame DEF Open, Serving, ThreadAt
  <2> QED BY <1>2, <2>1, <2>2, <2>3 DEF Select
<1> DEFINE Answered ==
      \/ server' = add_client(server, thr.fd) /\ UNCHANGED peer
      \/ server' = add_audio_client(server, thr.fd) /\ peer' = [peer EXCEPT ![thr.fd].next = server.w]
      \/ peer' = Close(peer, {thr.fd}) /\ UNCHANGED server
      \/ peer' = Close([peer EXCEPT ![thr.fd].shown = thr.pic], {thr.fd}) /\ UNCHANGED server
<1>3. ASSUME thr.pc \in {"recv", "send"}, thr'.pc = "ready", Answered
      PROVE  OwnerInv'
  <2> DEFINE p == thr.fd
  <2>1. p \in Peer /\ Serving /\ ~Serving' /\ Open(p) /\ p \notin Streams /\ p \notin Listeners
    <3>1. Serving /\ ~Serving' BY <1>3 DEF Serving
    <3> QED BY <3>1 DEF OwnerInv, Open
  <2>2. \A q \in Peer : q # p => (Open(q) <=> q \in Streams \/ q \in Listeners)
    BY DEF OwnerInv, Open
  <2> HIDE DEF p
  <2>3. CASE server' = add_client(server, p) /\ UNCHANGED peer
    <3> DEFINE c == Append(server.clients, p)
               n == Len(server.clients) + 1
    <3>1. server'.clients = c /\ server'.audio = server.audio BY <1>0, <2>3 DEF add_client, ServerStates
    <3>2. DOMAIN c = 1 .. n /\ \A k \in 1 .. n : c[k] = IF k = n THEN p ELSE server.clients[k]
      BY <1>0, <2>1
    <3> HIDE DEF c
    <3>3. \A q : q \in Streams' <=> q \in Streams \/ q = p
      <4>1. \A q : q \in Streams' <=> \E k \in DOMAIN c : c[k] = q BY <3>1 DEF Streams, ToSet
      <4>2. \A q : q \in Streams <=> \E k \in 1 .. n - 1 : server.clients[k] = q BY <1>0, InTables
      <4>3. n \in Nat /\ \A k : k \in 1 .. n <=> k \in 1 .. n - 1 \/ k = n BY <1>0
      <4>4. n \notin 1 .. n - 1 /\ n \in 1 .. n BY <1>0
      <4> HIDE DEF n
      <4> QED BY <3>2, <4>1, <4>2, <4>3, <4>4
    <3>4. Listeners' = Listeners BY <3>1 DEF Listeners
    <3>5. \A j, k \in DOMAIN c : c[j] = c[k] => j = k
      <4>1. \A k \in 1 .. n - 1 : server.clients[k] # p BY <1>0, <2>1, InTables
      <4>2. \A j, k \in 1 .. n - 1 : server.clients[j] = server.clients[k] => j = k BY <1>0 DEF OwnerInv
      <4>3. \A k \in 1 .. n : k # n => k \in 1 .. n - 1 BY <1>0
      <4> HIDE DEF n
      <4> QED BY <3>2, <4>1, <4>2, <4>3
    <3> QED BY <2>1, <2>2, <2>3, <3>1, <3>3, <3>4, <3>5 DEF OwnerInv, Open
  <2>4. ASSUME server' = add_audio_client(server, p), \A q \in Peer : Open(q)' <=> Open(q)
        PROVE  OwnerInv'
    <3> DEFINE a == [fd |-> p, rd |-> server.w % Ring]
               c == Append(server.audio, a)
               n == Len(server.audio) + 1
    <3>1. server'.audio = c /\ server'.clients = server.clients
      BY <1>0, <2>4 DEF add_audio_client, ServerStates
    <3>2. DOMAIN c = 1 .. n /\ \A k \in 1 .. n : c[k] = IF k = n THEN a ELSE server.audio[k]
      BY <1>0
    <3>3. a.fd = p OBVIOUS
    <3> HIDE DEF c, a
    <3>4. \A q : q \in Listeners' <=> q \in Listeners \/ q = p
      <4>1. \A q : q \in Listeners' <=> \E k \in DOMAIN c : c[k].fd = q BY <3>1 DEF Listeners
      <4>2. \A q : q \in Listeners <=> \E k \in 1 .. n - 1 : server.audio[k].fd = q BY <1>0, InTables
      <4>3. n \in Nat /\ \A k : k \in 1 .. n <=> k \in 1 .. n - 1 \/ k = n BY <1>0
      <4>4. n \notin 1 .. n - 1 /\ n \in 1 .. n BY <1>0
      <4> HIDE DEF n
      <4> QED BY <3>2, <3>3, <4>1, <4>2, <4>3, <4>4
    <3>5. Streams' = Streams BY <3>1 DEF Streams
    <3>6. \A j, k \in DOMAIN c : c[j].fd = c[k].fd => j = k
      <4>1. \A k \in 1 .. n - 1 : server.audio[k].fd # p BY <1>0, <2>1, InTables
      <4>2. \A j, k \in 1 .. n - 1 : server.audio[j].fd = server.audio[k].fd => j = k BY SMTT(20), <1>0 DEF OwnerInv
      <4>3. \A k \in 1 .. n : k # n => k \in 1 .. n - 1 BY <1>0
      <4> HIDE DEF n
      <4> QED BY <3>2, <3>3, <4>1, <4>2, <4>3
    <3> QED BY <2>1, <2>2, <2>4, <3>1, <3>4, <3>5, <3>6 DEF OwnerInv, Open
  <2>5. ASSUME UNCHANGED server, \A q \in Peer : Open(q)' <=> Open(q) /\ q # p
        PROVE  OwnerInv'
    <3>1. Streams' = Streams /\ Listeners' = Listeners BY <2>5 DEF Streams, Listeners
    <3> QED BY <2>1, <2>2, <2>5, <3>1 DEF OwnerInv, Open
  <2>6. ASSUME NEW f \in PeerStates, peer' = Close(f, {p}), \A q \in Peer : f[q].sock = peer[q].sock
        PROVE  \A q \in Peer : Open(q)' <=> Open(q) /\ q # p
    BY <2>6, CloseIs DEF Open
  <2>7. peer' = [peer EXCEPT ![p].next = server.w] => \A q \in Peer : Open(q)' <=> Open(q)
    BY <1>0 DEF Open, PeerStates
  <2>8. CASE server' = add_audio_client(server, p) /\ peer' = [peer EXCEPT ![p].next = server.w]
    BY <2>4, <2>7, <2>8
  <2>9. CASE peer' = Close(peer, {p}) /\ UNCHANGED server BY <1>0, <2>5, <2>6, <2>9
  <2>10. CASE peer' = Close([peer EXCEPT ![p].shown = thr.pic], {p}) /\ UNCHANGED server
    <3> DEFINE n == thr.pic
               f == [peer EXCEPT ![p].shown = n]
    <3>1. n \in Nat BY <1>0 DEF ThreadStates
    <3> HIDE DEF n
    <3>2. f \in PeerStates /\ \A q \in Peer : f[q].sock = peer[q].sock BY <1>0, <2>1, <3>1 DEF PeerStates
    <3>3. peer' = Close(f, {p}) BY <2>10 DEF n
    <3> HIDE DEF f
    <3> QED BY <2>5, <2>6, <2>10, <3>2, <3>3
  <2> QED BY <1>3, <2>3, <2>8, <2>9, <2>10 DEF Answered, p
<1>9. CASE route_http_request
  <2>1. CASE thr'.pc = "ready"
    <3>1. thr.pc = "recv" BY <1>9 DEF route_http_request, ThreadAt
    <3>2. peer[thr.fd].ask \notin {"snapshot", "page"} BY <1>0, <1>9, <2>1 DEF route_http_request, ThreadStates
    <3>3. Answered BY <1>9, <3>2 DEF route_http_request
    <3> HIDE DEF Answered
    <3> QED BY <1>3, <2>1, <3>1, <3>3
  <2>2. CASE thr'.pc # "ready"
    <3>1. /\ peer[thr.fd].ask \in {"snapshot", "page"}
          /\ thr'.pc = "send" /\ thr'.fd = thr.fd /\ thr.pc = "recv"
      BY <1>0, <1>9, <2>2 DEF route_http_request, ThreadStates, ThreadAt
    <3>2. UNCHANGED <<server, peer>> BY <1>9, <3>1 DEF route_http_request
    <3>3. Streams' = Streams /\ Listeners' = Listeners BY <3>2 DEF Streams, Listeners
    <3> QED BY <3>1, <3>2, <3>3 DEF OwnerInv, Serving
  <2> QED BY <2>1, <2>2
<1>10. CASE SendAnswer
  <2>1. thr.pc = "send" /\ thr'.pc = "ready" BY <1>0, <1>10 DEF SendAnswer, ThreadAt, ThreadStates
  <2>2. Answered BY <1>10 DEF SendAnswer
  <2> HIDE DEF Answered
  <2> QED BY <1>3, <2>1, <2>2
<1> HIDE DEF Answered
<1>4. CASE TestReady
  <2>1. ~Serving /\ ~Serving' /\ UNCHANGED <<server, peer>>
    BY <1>0, <1>4 DEF TestReady, Serving, ThreadAt, ThreadStates
  <2> QED BY <2>1, OwnerSame DEF Open
<1>5. CASE CopyFrame
  <2>1. ~Serving /\ ~Serving' /\ UNCHANGED peer
    BY <1>0, <1>5 DEF CopyFrame, Serving, ThreadAt, ThreadStates
  <2>2. server'.clients = server.clients /\ server'.audio = server.audio
    BY <1>0, <1>5 DEF CopyFrame, ServerStates
  <2> QED BY <2>1, <2>2, OwnerSame DEF Open
<1>6. CASE SendFrame
  <2>1. ~Serving /\ ~Serving' BY <1>0, <1>6 DEF SendFrame, Serving, ThreadAt, ThreadStates
  <2>2. CASE thr.i = 0
    BY <1>6, <2>1, <2>2, OwnerSame DEF SendFrame, Open
  <2>3. CASE thr.i # 0
    <3> DEFINE i == thr.i
               p == server.clients[i]
    <3>1. i \in 1 .. Len(server.clients) BY <1>0, <1>6, <2>3 DEF SendFrame, Serving, ThreadAt, LoopInv
    <3>2. p \in Peer BY <1>0, <3>1
    <3>3. \/ UNCHANGED server /\ (peer' = [peer EXCEPT ![p].shown = thr.pic] \/ UNCHANGED peer)
          \/ server' = remove_client(server, i) /\ peer' = Close(peer, {p})
      BY <1>6, <2>3 DEF SendFrame
    <3>4. ASSUME UNCHANGED server, peer' = [peer EXCEPT ![p].shown = thr.pic] \/ UNCHANGED peer
          PROVE  OwnerInv'
      <4> HIDE DEF p
      <4>1. \A q \in Peer : Open(q)' <=> Open(q)
        <5>1. ASSUME NEW n, peer' = [peer EXCEPT ![p].shown = n]
              PROVE  \A q \in Peer : peer'[q].sock = peer[q].sock
          BY <1>0, <3>2, <5>1 DEF PeerStates
        <5>2. CASE UNCHANGED peer BY <5>2 DEF Open
        <5>3. CASE peer' = [peer EXCEPT ![p].shown = thr.pic]
          <6>1. \A q \in Peer : peer'[q].sock = peer[q].sock BY <5>1, <5>3, Zenon
          <6> QED BY <6>1 DEF Open
        <5> QED BY <3>4, <5>2, <5>3
      <4> QED BY <2>1, <3>4, <4>1, OwnerSame
    <3>5. ASSUME server' = remove_client(server, i), peer' = Close(peer, {p})
          PROVE  OwnerInv'
      <4> DEFINE c == RemoveAt(server.clients, i)
      <4>1. server'.clients = c /\ server'.audio = server.audio BY <1>0, <3>1, <3>5, DropClient
      <4>2. \A j, k \in DOMAIN server.clients : server.clients[j] = server.clients[k] => j = k
        BY DEF OwnerInv
      <4>3. /\ \A j, k \in DOMAIN c : c[j] = c[k] => j = k
            /\ \A q : (\E j \in DOMAIN c : c[j] = q) <=> (\E j \in DOMAIN server.clients : server.clients[j] = q) /\ q # p
        BY <1>0, <3>1, <4>2, RemoveClient
      <4>4. p \in Streams BY <1>0, <3>1, InTables
      <4> HIDE DEF c, p
      <4>5. \A q \in Peer : Open(q)' <=> Open(q) /\ q # p BY <1>0, <3>5, CloseIs DEF Open
      <4>6. \A q : q \in Streams' <=> q \in Streams /\ q # p
        <5>1. \A q : q \in Streams' <=> \E k \in DOMAIN c : c[k] = q BY <4>1 DEF Streams, ToSet
        <5> QED BY <4>3, <5>1, InTables
      <4>7. Listeners' = Listeners BY <4>1 DEF Listeners
      <4>8. \A q \in Peer : (Open(q) <=> q \in Streams \/ q \in Listeners) /\ ~(q \in Streams /\ q \in Listeners)
        BY <2>1 DEF OwnerInv, Open
      <4> QED BY <2>1, <3>2, <4>1, <4>3, <4>4, <4>5, <4>6, <4>7, <4>8 DEF OwnerInv, Open
    <3> QED BY <3>3, <3>4, <3>5
  <2> QED BY <2>2, <2>3
<1>7. CASE TestAudio
  <2>1. ~Serving /\ ~Serving' /\ UNCHANGED <<server, peer>>
    BY <1>0, <1>7 DEF TestAudio, Serving, ThreadAt, ThreadStates
  <2> QED BY <2>1, OwnerSame DEF Open
<1>8. CASE SendAudio
  <2>1. ~Serving /\ ~Serving' BY <1>0, <1>8 DEF SendAudio, Serving, ThreadAt, ThreadStates, Fresh
  <2>2. CASE thr.i = 0
    BY <1>8, <2>1, <2>2, OwnerSame DEF SendAudio, Open
  <2>3. CASE thr.i # 0
    <3> DEFINE i == thr.i
               p == server.audio[i].fd
               wr == Mod(thr.w, Ring)
               end == IF wr >= server.audio[i].rd THEN wr ELSE Ring
               s == RingSlots(server.audio[i].rd, end)
    <3>1. /\ i \in 1 .. Len(server.audio) /\ server.audio[i] \in Listener
          /\ \/ UNCHANGED <<server, peer>>
             \/ server' = remove_audio_client(server, i) /\ peer' = Close(peer, {p})
             \/ /\ end \in server.audio[i].rd + 1 .. Ring
                /\ server' = [server EXCEPT !.audio[i].rd = Mod(end, Ring)]
                /\ UNCHANGED peer \/ peer' = Hear(p, s)
      BY <1>8, <2>3, SendAudioIs
    <3>2. p \in Peer /\ server.audio[i].rd \in 0 .. Ring - 1 BY <3>1 DEF Listener
    <3>3. end \in server.audio[i].rd + 1 .. Ring => s # <<>> /\ Last(s) \in Int
      <4> HIDE DEF end
      <4> QED BY <3>2, SlotsAre
    <3> HIDE DEF p, end, s
    <3>4. CASE UNCHANGED <<server, peer>> BY <2>1, <3>4, OwnerSame DEF Open
    <3>5. ASSUME end \in server.audio[i].rd + 1 .. Ring,
                 server' = [server EXCEPT !.audio[i].rd = Mod(end, Ring)],
                 UNCHANGED peer \/ peer' = Hear(p, s)
          PROVE  OwnerInv'
      <4>1. \A q \in Peer : Open(q)' <=> Open(q) BY <3>2, <3>3, <3>5, HearIs DEF Open
      <4> DEFINE t == [server EXCEPT !.audio[i].rd = Mod(end, Ring)]
      <4>2. /\ t.clients = server.clients
            /\ DOMAIN t.audio = DOMAIN server.audio
            /\ \A k \in DOMAIN server.audio : t.audio[k].fd = server.audio[k].fd
        BY <1>0, <3>1, SetPosition
      <4>3. server' = t BY <3>5
      <4> HIDE DEF t
      <4> QED BY <2>1, <4>1, <4>2, <4>3, OwnerSame
    <3>6. ASSUME server' = remove_audio_client(server, i), peer' = Close(peer, {p})
          PROVE  OwnerInv'
      <4> DEFINE c == RemoveAt(server.audio, i)
      <4>1. server'.audio = c /\ server'.clients = server.clients BY <1>0, <3>1, <3>6, DropListener
      <4>2. \A j, k \in DOMAIN server.audio : server.audio[j].fd = server.audio[k].fd => j = k
        BY DEF OwnerInv
      <4>3. /\ \A j, k \in DOMAIN c : c[j].fd = c[k].fd => j = k
            /\ \A q : (\E j \in DOMAIN c : c[j].fd = q) <=> (\E j \in DOMAIN server.audio : server.audio[j].fd = q) /\ q # p
        BY <1>0, <3>1, <4>2, RemoveListener DEF p
      <4>4. p \in Listeners BY <1>0, <3>1, InTables DEF p
      <4> HIDE DEF c
      <4>5. \A q \in Peer : Open(q)' <=> Open(q) /\ q # p BY <1>0, <3>6, CloseIs DEF Open
      <4>6. \A q : q \in Listeners' <=> q \in Listeners /\ q # p
        <5>1. \A q : q \in Listeners' <=> \E k \in DOMAIN c : c[k].fd = q BY <4>1 DEF Listeners
        <5> QED BY <4>3, <5>1, InTables
      <4>7. Streams' = Streams BY <4>1 DEF Streams
      <4>8. \A q \in Peer : (Open(q) <=> q \in Streams \/ q \in Listeners) /\ ~(q \in Streams /\ q \in Listeners)
        BY <2>1 DEF OwnerInv, Open
      <4> QED BY <2>1, <3>2, <4>1, <4>3, <4>4, <4>5, <4>6, <4>7, <4>8 DEF OwnerInv, Open
    <3> QED BY <3>1, <3>4, <3>5, <3>6
  <2> QED BY <2>2, <2>3
<1> QED BY <1>1, <1>2, <1>4, <1>5, <1>6, <1>7, <1>8, <1>9, <1>10 DEF Serve, server_thread_func

-----------------------------------------------------------------------------
(* What is heard *)

\* A step that leaves the sound alone.
LEMMA HearKept ==
  ASSUME CastTypeOK, HearInv, Late' = Late,
         server'.w = server.w, thr'.waited = thr.waited, thr'.spent = thr.spent,
         ThreadAt("select")' => ThreadAt("select"),
         ThreadAt("chunk")' => ThreadAt("chunk") /\ thr'.w = thr.w /\ thr'.i = thr.i,
         \A p \in Peer : peer'[p].next = peer[p].next /\ peer'[p].exact = peer[p].exact,
         \A k \in DOMAIN server'.audio : k \in DOMAIN server.audio /\ server'.audio[k] = server.audio[k]
  PROVE  HearInv'
<1>1. AudioIsExact' BY DEF AudioIsExact, HearInv
<1>2. ASSUME NEW k \in DOMAIN server'.audio, server'.audio[k].fd \notin Late
      PROVE  Heard(k)'
  <2>1. k \in DOMAIN server.audio /\ server'.audio[k] = server.audio[k] OBVIOUS
  <2>2. Heard(k) BY <1>2, <2>1 DEF HearInv
  <2>3. server.audio[k].fd \in Peer
    <3>1. server.audio \in Seq(Listener) BY DEF CastTypeOK, ServerStates
    <3>2. server.audio[k] \in Listener BY <2>1, <3>1
    <3> QED BY <3>2 DEF Listener
  <2>4. peer'[server.audio[k].fd].next = peer[server.audio[k].fd].next BY <2>3
  <2> QED BY <2>1, <2>2, <2>4 DEF Heard, ThreadAt
<1> QED BY <1>1, <1>2 DEF HearInv, ThreadAt

\* A listener that keeps up hears the next blocks, and no step takes it a ring behind.
LEMMA HearStep == Sizes /\ CastTypeOK /\ OwnerInv /\ LoopInv /\ HearInv /\ CastNext => HearInv'
<1> SUFFICES ASSUME Sizes, CastTypeOK, OwnerInv, LoopInv, HearInv, CastNext PROVE HearInv' OBVIOUS
<1>0. /\ server \in ServerStates /\ thr \in ThreadStates /\ peer \in PeerStates /\ thr.i \in Nat
      /\ Len(server.clients) \in Nat /\ Len(server.audio) \in Nat /\ server.w \in Nat
      /\ thr.w \in Nat /\ thr.waited \in Nat /\ thr.spent \in Nat
      /\ server.clients \in Seq(Peer) /\ server.audio \in Seq(Listener)
      /\ DOMAIN server.audio = 1 .. Len(server.audio)
  BY ServerFields DEF CastTypeOK, ThreadStates
<1>p. \A k \in DOMAIN server.audio : server.audio[k] \in Listener /\ server.audio[k].fd \in Peer
  <2>1. \A k \in DOMAIN server.audio : server.audio[k] \in Listener BY <1>0
  <2> QED BY <2>1 DEF Listener
<1>1. CASE UNCHANGED serverVars BY <1>1, HearKept DEF serverVars, ThreadAt, Late
<1>2. CASE Frame
  <2>1. server'.w = server.w /\ server'.audio = server.audio /\ UNCHANGED <<thr, peer, Late>>
    BY <1>0, <1>2 DEF Frame, cast_server_push_frame, ServerStates, Late
  <2> QED BY <2>1, HearKept DEF ThreadAt
<1>3. CASE Sound
  <2>1. server'.w = server.w + 1 /\ server'.audio = server.audio /\ peer' = peer
    BY <1>0, <1>3 DEF Sound, cast_server_push_audio, ServerStates
  <2>2. /\ thr'.pc = thr.pc /\ thr'.w = thr.w /\ thr'.i = thr.i
        /\ \/ Serving /\ thr.waited < RecvTimeout /\ thr'.waited = thr.waited + 1 /\ thr'.spent = thr.spent
           \/ thr.spent < 1 /\ thr'.waited = thr.waited /\ thr'.spent = thr.spent + 1
           \/ Serving /\ thr' = thr /\ Listeners \subseteq Late'
        /\ Late \subseteq Late'
    <3> DEFINE long == Blocked /\ thr.waited >= RecvTimeout
    <3>1. delayed' = IF long THEN delayed \cup Listeners ELSE delayed
      BY <1>3 DEF Sound, cast_server_push_audio
    <3>2. Late \subseteq Late' BY <3>1 DEF Late
    <3>3. CASE long
      <4>1. thr' = thr BY <1>3, <3>3 DEF Sound, cast_server_push_audio
      <4>2. Serving BY <3>3 DEF Blocked, Serving
      <4>3. Listeners \subseteq Late' BY <3>1, <3>3 DEF Late
      <4> QED BY <3>2, <4>1, <4>2, <4>3
    <3>4. CASE ~long /\ (Blocked \/ thr.pc = "recv")
      <4>1. thr' = [thr EXCEPT !.waited = @ + 1] BY <1>3, <3>4 DEF Sound, cast_server_push_audio
      <4>2. Serving BY <3>4 DEF Blocked, Serving
      <4>3. thr.waited < RecvTimeout
        <5>1. thr.pc = "recv" => thr.waited < RecvTimeout
          BY <1>3 DEF Sound, cast_server_push_audio, TimeAllows, RecvWait
        <5>2. thr.pc # "recv" => ~(thr.waited >= RecvTimeout) BY <3>4
        <5>3. RecvTimeout \in Nat BY DEF Sizes
        <5> QED BY <1>0, <5>1, <5>2, <5>3
      <4>4. /\ thr'.pc = thr.pc /\ thr'.w = thr.w /\ thr'.i = thr.i
            /\ thr'.waited = thr.waited + 1 /\ thr'.spent = thr.spent
        BY <1>0, <4>1 DEF ThreadStates
      <4> QED BY <3>2, <4>2, <4>3, <4>4
    <3>5. CASE ~Blocked /\ thr.pc # "recv"
      <4>1. thr' = [thr EXCEPT !.spent = @ + 1] BY <1>3, <3>5 DEF Sound, cast_server_push_audio
      <4>2. thr.spent < 1 BY <1>3, <3>5 DEF Sound, cast_server_push_audio, TimeAllows
      <4>3. /\ thr'.pc = thr.pc /\ thr'.w = thr.w /\ thr'.i = thr.i
            /\ thr'.waited = thr.waited /\ thr'.spent = thr.spent + 1
        BY <1>0, <4>1 DEF ThreadStates
      <4> QED BY <3>2, <4>2, <4>3
    <3> QED BY <3>3, <3>4, <3>5
  <2>3. ASSUME NEW k \in DOMAIN server'.audio, server'.audio[k].fd \notin Late'
        PROVE  Heard(k)'
    <3>0. server.audio[k].fd \in Listeners BY <2>1, <2>3 DEF Listeners
    <3>1. Heard(k) BY <2>1, <2>2, <2>3 DEF HearInv
    <3> DEFINE n == peer[server.audio[k].fd].next
    <3>3. /\ n \in Nat /\ n <= server.w /\ server.audio[k].rd = n % Ring
          /\ server.w - n <= 1 + thr.spent + thr.waited
          /\ thr.pc = "chunk" => n <= thr.w
          /\ thr.pc = "chunk" /\ k > thr.i => n = thr.w
      BY <3>1 DEF Heard, ThreadAt
    <3>4. peer'[server'.audio[k].fd].next = n BY <2>1
    <3> HIDE DEF n
    <3>5. n \in Nat /\ n <= server.w /\ server.w - n <= 1 + thr.spent + thr.waited BY <3>3
    <3>6. server.w \in Nat /\ thr.spent \in Nat /\ thr.waited \in Nat BY <1>0
    <3>7. n <= server'.w /\ server'.w - n <= 1 + thr'.spent + thr'.waited
      <4>1. ASSUME NEW w \in Nat, NEW x \in Nat, NEW y \in Nat, NEW u, NEW v,
                   n <= w, w - n <= 1 + x + y,
                   (u = x + 1 /\ v = y) \/ (u = x /\ v = y + 1)
            PROVE  n <= w + 1 /\ (w + 1) - n <= 1 + u + v
        BY <3>5, <4>1
      <4>2. \/ thr'.spent = thr.spent + 1 /\ thr'.waited = thr.waited
            \/ thr'.spent = thr.spent /\ thr'.waited = thr.waited + 1
        BY <2>1, <2>2, <2>3, <3>0
      <4> QED BY <2>1, <3>5, <3>6, <4>1, <4>2
    <3>8. server'.audio[k].rd = n % Ring BY <2>1, <3>3
    <3> QED BY <2>2, <3>3, <3>4, <3>7, <3>8 DEF Heard, ThreadAt
  <2>4. AudioIsExact' BY <2>1, <2>2 DEF AudioIsExact, HearInv
  <2>5. thr'.waited <= RecvTimeout /\ thr'.spent <= 1 BY <1>0, <2>2 DEF HearInv, Sizes
  <2>6. ThreadAt("select")' => thr'.waited = 0 BY <2>2 DEF HearInv, ThreadAt, Serving
  <2>7. ThreadAt("chunk")' => thr'.w <= server'.w /\ server'.w - thr'.w <= thr'.spent
    <3>1. ThreadAt("chunk")' => ThreadAt("chunk") /\ ~Serving BY <2>2 DEF ThreadAt, Serving
    <3> QED BY SMTT(20), <1>0, <2>1, <2>2, <3>1 DEF HearInv
  <2> QED BY <2>1, <2>3, <2>4, <2>5, <2>6, <2>7 DEF HearInv
<1>4. CASE cast_server_stop
  <2>1. CASE AskStop
    <3>1. server'.w = server.w /\ server'.audio = server.audio /\ UNCHANGED <<thr, peer, Late>>
      BY <1>0, <2>1 DEF AskStop, ServerStates, Late
    <3> QED BY <3>1, HearKept DEF ThreadAt
  <2>2. CASE Release
    <3>1. server'.w = server.w /\ server'.audio = server.audio /\ UNCHANGED <<thr, Late>>
      BY <1>0, <2>2 DEF Release, ServerStates, Late
    <3>2. \A p \in Peer : peer'[p].next = peer[p].next /\ peer'[p].exact = peer[p].exact
      BY <1>0, <2>2, CloseIs DEF Release
    <3> QED BY <3>1, <3>2, HearKept DEF ThreadAt
  <2> QED BY <1>4, <2>1, <2>2 DEF cast_server_stop
<1>5. CASE Peers
  <2>1. PICK q \in Peer : Knock(q) BY <1>5 DEF Peers
  <2>2. /\ UNCHANGED <<server, thr>> /\ peer[q].sock # "open" /\ peer'[q].exact = TRUE
        /\ \A p \in Peer : p # q => peer'[p] = peer[p] /\ (p \notin Late' => p \notin Late)
    <3>1. PICK ask \in Asks : peer' = [peer EXCEPT ![q] = [Away EXCEPT !.sock = "knock", !.ask = ask,
                                                             !.visits = peer[q].visits + 1]]
      BY <2>1 DEF Knock
    <3>2. peer'[q] = [Away EXCEPT !.sock = "knock", !.ask = ask, !.visits = peer[q].visits + 1]
      BY <1>0, <3>1 DEF PeerStates
    <3>3. peer'[q].exact = TRUE BY <3>2 DEF Away
    <3>4. \A p \in Peer : p # q => peer'[p] = peer[p] BY <1>0, <3>1 DEF PeerStates
    <3>5. \A p : p # q /\ p \notin Late' => p \notin Late BY <2>1 DEF Knock, Late
    <3> QED BY <2>1, <3>3, <3>4, <3>5 DEF Knock
  <2>3. q \notin Listeners BY <2>2 DEF OwnerInv
  <2>4. ASSUME NEW k \in DOMAIN server.audio, server.audio[k].fd \notin Late'
        PROVE  Heard(k)'
    <3>2. server.audio[k].fd # q BY <2>3 DEF Listeners
    <3>4. server.audio[k].fd \notin Late BY <1>p, <2>2, <2>4, <3>2
    <3>1. Heard(k) BY <3>4 DEF HearInv
    <3>3. peer'[server.audio[k].fd] = peer[server.audio[k].fd] BY <1>p, <2>2, <3>2
    <3> QED BY <2>2, <3>1, <3>3 DEF Heard, ThreadAt
  <2>5. AudioIsExact' BY <2>2 DEF AudioIsExact, HearInv
  <2> QED BY <2>2, <2>4, <2>5 DEF HearInv, ThreadAt
<1>6. CASE Select /\ UNCHANGED delayed
  <2>0. Late' = Late BY <1>6 DEF Late
  <2>1. /\ server'.w = server.w /\ thr'.waited = thr.waited /\ thr'.spent = thr.spent
        /\ thr'.pc \in {"done", "recv", "ready"}
    BY <1>0, <1>6 DEF Select, ServerStates, ThreadStates
  <2>2. server'.audio = <<>> \/ server'.audio = server.audio BY <1>0, <1>6 DEF Select, ServerStates
  <2>3. \A p \in Peer : peer'[p].next = peer[p].next /\ peer'[p].exact = peer[p].exact
    <3>1. CASE UNCHANGED peer BY <3>1
    <3>2. CASE peer' = Close(peer, Streams \cup Listeners) BY <1>0, <3>2, CloseIs
    <3>3. ASSUME NEW q \in Peer, peer' = [peer EXCEPT ![q].sock = "open"]
          PROVE  \A p \in Peer : peer'[p].next = peer[p].next /\ peer'[p].exact = peer[p].exact
      BY <1>0, <3>3 DEF PeerStates
    <3> QED BY <1>6, <3>1, <3>2, <3>3 DEF Select
  <2> QED BY <2>0, <2>1, <2>2, <2>3, HearKept DEF ThreadAt
<1>7. CASE (route_http_request \/ SendAnswer) /\ UNCHANGED delayed
  <2>0. Late' = Late BY <1>7 DEF Late
  <2> DEFINE p == thr.fd
  <2>1. /\ thr'.waited = thr.waited /\ thr'.spent = thr.spent /\ thr'.pc \in {"ready", "send"} /\ Serving
    BY <1>0, <1>7 DEF route_http_request, SendAnswer, ThreadAt, Serving, ThreadStates
  <2>2. p \in Peer /\ p \notin Listeners BY <2>1 DEF OwnerInv
  <2> HIDE DEF p
  <2>3. CASE server' = add_client(server, p) /\ UNCHANGED peer
    <3>1. server'.w = server.w /\ server'.audio = server.audio BY <1>0, <2>3 DEF add_client, ServerStates
    <3> QED BY <2>0, <2>1, <2>3, <3>1, HearKept DEF ThreadAt
  <2>4. CASE server' = add_audio_client(server, p) /\ peer' = [peer EXCEPT ![p].next = server.w]
    <3> DEFINE a == [fd |-> p, rd |-> server.w % Ring]
               c == Append(server.audio, a)
               l == Len(server.audio) + 1
    <3>1. server'.audio = c /\ server'.w = server.w BY <1>0, <2>4 DEF add_audio_client, ServerStates
    <3>2. DOMAIN c = 1 .. l /\ \A k \in 1 .. l : c[k] = IF k = l THEN a ELSE server.audio[k]
      BY <1>0
    <3>3. a.fd = p /\ a.rd = server.w % Ring OBVIOUS
    <3>4. /\ \A q \in Peer : peer'[q].exact = peer[q].exact /\ (q # p => peer'[q].next = peer[q].next)
          /\ peer'[p].next = server.w
      BY <1>0, <2>2, <2>4 DEF PeerStates
    <3> HIDE DEF c, a
    <3>5. ASSUME NEW k \in DOMAIN server'.audio, server'.audio[k].fd \notin Late
          PROVE  Heard(k)'
      <4>1. CASE k = l
        <5>1. server'.audio[k] = a BY <2>1, <3>1, <3>2, <3>5, <4>1
        <5>2. server.w - server.w <= 1 + thr.spent + thr.waited /\ server.w <= server.w BY <1>0
        <5> QED BY <1>0, <2>1, <3>1, <3>3, <3>4, <5>1, <5>2 DEF Heard, ThreadAt
      <4>2. CASE k # l
        <5>1. k \in DOMAIN server.audio /\ server'.audio[k] = server.audio[k]
          BY <1>0, <3>1, <3>2, <3>5, <4>2
        <5>2. Heard(k) BY <3>5, <5>1 DEF HearInv
        <5>3. server.audio[k].fd # p /\ server.audio[k].fd \in Peer BY <1>p, <2>2, <5>1 DEF Listeners
        <5>4. peer'[server.audio[k].fd].next = peer[server.audio[k].fd].next BY <3>4, <5>3
        <5> QED BY <2>1, <3>1, <5>1, <5>2, <5>4 DEF Heard, ThreadAt
      <4> QED BY <4>1, <4>2
    <3>6. AudioIsExact' BY <2>0, <3>4 DEF AudioIsExact, HearInv
    <3>7. ~ThreadAt("select")' /\ ~ThreadAt("chunk")' BY <2>1 DEF ThreadAt
    <3> QED BY <2>0, <2>1, <3>1, <3>5, <3>6, <3>7 DEF HearInv
  <2>5. ASSUME UNCHANGED server,
               \A q \in Peer : peer'[q].next = peer[q].next /\ peer'[q].exact = peer[q].exact
        PROVE  HearInv'
    BY <2>0, <2>1, <2>5, HearKept DEF ThreadAt
  <2>6. CASE peer' = Close(peer, {p}) /\ UNCHANGED server BY <1>0, <2>5, <2>6, CloseIs
  <2>8. CASE UNCHANGED <<server, peer>> BY <2>5, <2>8
  <2>7. CASE peer' = Close([peer EXCEPT ![p].shown = thr.pic], {p}) /\ UNCHANGED server
    <3> DEFINE n == thr.pic
               f == [peer EXCEPT ![p].shown = n]
    <3>1. n \in Nat BY <1>0 DEF ThreadStates
    <3> HIDE DEF n
    <3>2. f \in PeerStates /\ \A q \in Peer : f[q].next = peer[q].next /\ f[q].exact = peer[q].exact
      BY <1>0, <2>2, <3>1 DEF PeerStates
    <3>3. peer' = Close(f, {p}) BY <2>7 DEF n
    <3> HIDE DEF f
    <3> QED BY <2>5, <2>7, <3>2, <3>3, CloseIs
  <2> QED BY <1>7, <2>3, <2>4, <2>6, <2>7, <2>8 DEF route_http_request, SendAnswer, p
<1>8. CASE TestReady /\ UNCHANGED delayed
  <2>0. Late' = Late BY <1>8 DEF Late
  <2>1. /\ UNCHANGED <<server, peer>> /\ thr'.waited = thr.waited /\ thr'.spent = thr.spent
        /\ thr'.pc \in {"copy", "audio"}
    BY <1>0, <1>8 DEF TestReady, ThreadStates
  <2> QED BY <2>0, <2>1, HearKept DEF ThreadAt
<1>9. CASE CopyFrame /\ UNCHANGED delayed
  <2>0. Late' = Late BY <1>9 DEF Late
  <2>1. /\ UNCHANGED peer /\ thr'.waited = thr.waited /\ thr'.spent = thr.spent
        /\ thr'.pc \in {"frames", "audio"}
    BY <1>0, <1>9 DEF CopyFrame, ThreadStates
  <2>2. server'.w = server.w /\ server'.audio = server.audio BY <1>0, <1>9 DEF CopyFrame, ServerStates
  <2> QED BY <2>0, <2>1, <2>2, HearKept DEF ThreadAt
<1>10. CASE SendFrame /\ UNCHANGED delayed
  <2>0. Late' = Late BY <1>10 DEF Late
  <2>1. /\ thr'.waited = thr.waited /\ thr'.spent = thr.spent
        /\ thr'.pc \in {"frames", "audio"}
    BY <1>0, <1>10 DEF SendFrame, ThreadAt, ThreadStates
  <2>2. server'.w = server.w /\ server'.audio = server.audio
    BY <1>0, <1>10 DEF SendFrame, remove_client, ServerStates
  <2>3. \A p \in Peer : peer'[p].next = peer[p].next /\ peer'[p].exact = peer[p].exact
    <3>1. CASE UNCHANGED peer BY <3>1
    <3>2. ASSUME NEW ps, peer' = Close(peer, ps)
          PROVE  \A p \in Peer : peer'[p].next = peer[p].next /\ peer'[p].exact = peer[p].exact
      BY <1>0, <3>2, CloseIs
    <3>3. ASSUME NEW q, NEW n, peer' = [peer EXCEPT ![q].shown = n]
          PROVE  \A p \in Peer : peer'[p].next = peer[p].next /\ peer'[p].exact = peer[p].exact
      BY <1>0, <3>3 DEF PeerStates
    <3> QED BY <1>10, <3>1, <3>2, <3>3 DEF SendFrame
  <2> QED BY <2>0, <2>1, <2>2, <2>3, HearKept DEF ThreadAt
<1>11. CASE TestAudio /\ UNCHANGED delayed
  <2>0. Late' = Late BY <1>11 DEF Late
  <2>1. /\ UNCHANGED <<server, peer>> /\ thr'.waited = thr.waited /\ thr'.spent = thr.spent
        /\ thr'.pc = "chunk" /\ thr'.i = Len(server.audio) /\ thr'.w = server.w
        /\ ~ThreadAt("chunk")
    BY <1>0, <1>11 DEF TestAudio, ThreadAt, ThreadStates
  <2>2. ASSUME NEW k \in DOMAIN server.audio, server.audio[k].fd \notin Late
        PROVE  Heard(k)'
    <3>1. Heard(k) BY <2>2 DEF HearInv
    <3>2. ~(k > thr'.i) BY <1>0, <2>1
    <3> QED BY <2>1, <3>1, <3>2 DEF Heard, ThreadAt
  <2> QED BY SMTT(20), <1>0, <2>0, <2>1, <2>2 DEF HearInv, AudioIsExact, ThreadAt
<1>12. CASE SendAudio /\ UNCHANGED delayed
  <2>0. Late' = Late BY <1>12 DEF Late
  <2>1. /\ ThreadAt("chunk") /\ thr.w <= server.w /\ server.w - thr.w <= thr.spent /\ thr.spent <= 1
        /\ thr.waited <= RecvTimeout /\ Ring \in Nat \ {0} /\ RecvTimeout \in Nat /\ RecvTimeout + 2 < Ring
    BY <1>12 DEF SendAudio, HearInv, Sizes
  <2>2. ASSUME NEW k \in DOMAIN server.audio, server.audio[k].fd \notin Late
        PROVE  LET n == peer[server.audio[k].fd].next
               IN  /\ n \in Nat /\ n <= thr.w /\ n <= server.w /\ server.audio[k].rd = Mod(n, Ring)
                   /\ server.w - n <= 1 + thr.spent + thr.waited
                   /\ server.w - n < Ring /\ thr.w - n < Ring
                   /\ k > thr.i => n = thr.w
    <3> DEFINE n == peer[server.audio[k].fd].next
    <3>1. Heard(k) BY <2>2 DEF HearInv
    <3>2. /\ n \in Nat /\ n <= thr.w /\ n <= server.w /\ server.audio[k].rd = Mod(n, Ring)
          /\ server.w - n <= 1 + thr.spent + thr.waited
          /\ k > thr.i => n = thr.w
      BY <2>1, <3>1 DEF Heard, Mod
    <3> HIDE DEF n
    <3>3. n \in Nat /\ server.w - n <= 1 + thr.spent + thr.waited BY <3>2
    <3>4. server.w \in Nat /\ thr.w \in Nat /\ thr.spent \in Nat /\ thr.waited \in Nat BY <1>0
    <3>5. server.w - n < Ring /\ thr.w - n < Ring BY <2>1, <3>3, <3>4
    <3> QED BY <3>2, <3>5 DEF n
  <2>3. CASE thr.i = 0
    <3>1. thr' = Fresh /\ UNCHANGED <<server, peer>> BY <1>12, <2>3 DEF SendAudio
    <3>2. thr'.pc = "select" /\ thr'.waited = 0 /\ thr'.spent = 0 BY <3>1 DEF Fresh
    <3>3. ASSUME NEW k \in DOMAIN server.audio, server.audio[k].fd \notin Late
          PROVE  Heard(k)'
      <4> DEFINE n == peer[server.audio[k].fd].next
      <4>1. k > thr.i BY <1>0, <2>3
      <4>2. n \in Nat /\ n = thr.w /\ n <= server.w BY <2>2, <3>3, <4>1
      <4>3. server.audio[k].rd = n % Ring BY <2>2, <3>3 DEF Mod
      <4> HIDE DEF n
      <4>4. server.w - n <= 1 BY <1>0, <2>1, <4>2
      <4>5. 1 + thr'.spent + thr'.waited = 1 BY <3>2
      <4>6. server'.w - n <= 1 + thr'.spent + thr'.waited BY <3>1, <4>4, <4>5
      <4> QED BY <3>1, <3>2, <4>2, <4>3, <4>6 DEF Heard, ThreadAt, n
    <3>4. AudioIsExact' BY <2>0, <3>1 DEF AudioIsExact, HearInv
    <3> QED BY <1>0, <2>0, <2>1, <3>1, <3>2, <3>3, <3>4 DEF HearInv, ThreadAt
  <2>4. CASE thr.i # 0
    <3> DEFINE i == thr.i
               c == server.audio[i]
               p == c.fd
               rd == c.rd
               wr == Mod(thr.w, Ring)
               end == IF wr >= rd THEN wr ELSE Ring
               n == peer[p].next
               m == n + end - rd
    <3>1. /\ i \in 1 .. Len(server.audio) /\ c \in Listener
          /\ \/ wr = rd /\ thr' = [thr EXCEPT !.i = i - 1] /\ UNCHANGED <<server, peer>>
             \/ /\ p \in Late /\ thr' = [thr EXCEPT !.i = i - 1]
                /\ server' = remove_audio_client(server, i) /\ peer' = Close(peer, {p})
             \/ /\ wr # rd /\ end \in rd + 1 .. Ring
                /\ server' = [server EXCEPT !.audio[i].rd = Mod(end, Ring)]
                /\ thr' = IF Mod(end, Ring) = wr THEN [thr EXCEPT !.i = i - 1] ELSE thr
                /\ (p \in Late /\ UNCHANGED peer) \/ peer' = Hear(p, RingSlots(rd, end))
      BY <1>12, <2>4, SendAudioIs DEF Late
    <3>2. i \in DOMAIN server.audio /\ i \in Nat \ {0} /\ p \in Peer /\ rd \in 0 .. Ring - 1
      BY <1>0, <3>1 DEF Listener
    <3>3. p \notin Late =>
            /\ n \in Nat /\ n <= thr.w /\ n <= server.w /\ rd = Mod(n, Ring)
            /\ server.w - n <= 1 + thr.spent + thr.waited /\ server.w - n < Ring /\ thr.w - n < Ring
      BY <2>2, <3>2
    <3>4. p \notin Late =>
            /\ wr = rd => n = thr.w
            /\ wr # rd => /\ m \in Nat /\ n < m /\ m <= thr.w
                          /\ Mod(end, Ring) = Mod(m, Ring) /\ (Mod(end, Ring) = wr <=> m = thr.w)
      <4> SUFFICES ASSUME p \notin Late
                   PROVE  /\ wr = rd => n = thr.w
                          /\ wr # rd => /\ m \in Nat /\ n < m /\ m <= thr.w
                                        /\ Mod(end, Ring) = Mod(m, Ring)
                                        /\ (Mod(end, Ring) = wr <=> m = thr.w)
        OBVIOUS
      <4>1. ASSUME NEW x \in Nat, x <= thr.w, thr.w - x < Ring
            PROVE  LET r == Mod(x, Ring)
                       e == IF wr >= r THEN wr ELSE Ring
                       y == x + e - r
                   IN  /\ wr = r => x = thr.w
                       /\ wr # r => /\ y \in Nat /\ x < y /\ y <= thr.w
                                    /\ Mod(e, Ring) = Mod(y, Ring) /\ (Mod(e, Ring) = wr <=> y = thr.w)
        BY <1>0, <2>1, <4>1, Forward
      <4>2. n \in Nat /\ n <= thr.w /\ thr.w - n < Ring /\ rd = Mod(n, Ring) BY <3>3
      <4> HIDE DEF n, rd, wr
      <4> QED BY <4>1, <4>2
    \* What is left to show of each step.
    <3>a. ASSUME server'.w = server.w, thr'.pc = "chunk", thr'.w = thr.w,
                 thr'.waited = thr.waited, thr'.spent = thr.spent, AudioIsExact',
                 \A k \in DOMAIN server'.audio : server'.audio[k].fd \notin Late =>
                    LET q == peer'[server'.audio[k].fd].next
                    IN  /\ q \in Nat /\ q <= thr.w /\ server'.audio[k].rd = Mod(q, Ring)
                        /\ server.w - q <= 1 + thr.spent + thr.waited
                        /\ k > thr'.i => q = thr.w
          PROVE  HearInv'
      <4>1. ASSUME NEW k \in DOMAIN server'.audio, server'.audio[k].fd \notin Late PROVE Heard(k)'
        <5> DEFINE q == peer'[server'.audio[k].fd].next
        <5>1. /\ q \in Nat /\ q <= thr.w /\ server'.audio[k].rd = Mod(q, Ring)
              /\ server.w - q <= 1 + thr.spent + thr.waited
              /\ k > thr'.i => q = thr.w
          BY <3>a, <4>1
        <5>2. q <= server.w
          <6> HIDE DEF q
          <6> QED BY <1>0, <2>1, <5>1
        <5> QED BY <3>a, <5>1, <5>2 DEF Heard, ThreadAt, Mod
      <4> QED BY <2>0, <2>1, <3>a, <4>1 DEF HearInv, ThreadAt
    <3> HIDE DEF i, c, p, rd, wr, end, n, m
    <3>5. CASE wr = rd /\ thr' = [thr EXCEPT !.i = i - 1] /\ UNCHANGED <<server, peer>>
      <4>1. /\ thr'.pc = "chunk" /\ thr'.w = thr.w /\ thr'.waited = thr.waited
            /\ thr'.spent = thr.spent /\ thr'.i = i - 1
        BY <1>0, <2>1, <3>5 DEF ThreadStates, ThreadAt
      <4>2. AudioIsExact' BY <2>0, <3>5 DEF AudioIsExact, HearInv
      <4>3. ASSUME NEW k \in DOMAIN server.audio, server.audio[k].fd \notin Late, k > i - 1
            PROVE  peer[server.audio[k].fd].next = thr.w
        <5>1. CASE k = i BY <3>4, <3>5, <4>3, <5>1 DEF n, p, c
        <5>2. CASE k # i
          <6>1. k > thr.i BY <1>0, <3>2, <4>3, <5>2 DEF i
          <6> QED BY <2>2, <4>3, <6>1
        <5> QED BY <5>1, <5>2
      <4> QED BY <2>2, <3>5, <3>a, <4>1, <4>2, <4>3
    <3>6. CASE /\ p \in Late /\ thr' = [thr EXCEPT !.i = i - 1]
               /\ server' = remove_audio_client(server, i) /\ peer' = Close(peer, {p})
      <4>1. /\ thr'.pc = "chunk" /\ thr'.w = thr.w /\ thr'.waited = thr.waited
            /\ thr'.spent = thr.spent /\ thr'.i = i - 1
        BY <1>0, <2>1, <3>6 DEF ThreadStates, ThreadAt
      <4>2. \A q \in Peer : peer'[q].next = peer[q].next /\ peer'[q].exact = peer[q].exact
        BY <1>0, <3>6, CloseIs
      <4>3. AudioIsExact' BY <2>0, <4>2 DEF AudioIsExact, HearInv
      <4> DEFINE l == Len(server.audio)
                 t == RemoveAt(server.audio, i)
      <4>4. /\ server'.audio = t /\ server'.w = server.w /\ Len(t) = l - 1 /\ t \in Seq(Listener)
        BY <1>0, <3>1, <3>6, DropListener
      <4>5. /\ DOMAIN t = 1 .. l - 1
            /\ \A k \in 1 .. l - 1 : t[k] = IF k < i THEN server.audio[k] ELSE server.audio[k + 1]
        BY SMTT(20), <1>0, <3>1, <4>4, RemoveAtIs
      <4> HIDE DEF t
      <4>6. ASSUME NEW k \in DOMAIN server'.audio, server'.audio[k].fd \notin Late
            PROVE  LET q == peer'[server'.audio[k].fd].next
                   IN  /\ q \in Nat /\ q <= thr.w /\ server'.audio[k].rd = Mod(q, Ring)
                       /\ server.w - q <= 1 + thr.spent + thr.waited
                       /\ k > thr'.i => q = thr.w
        <5>0. k \in 1 .. l - 1 /\ l \in Nat /\ i \in 1 .. l BY <1>0, <3>1, <4>4, <4>5, <4>6
        <5>1. PICK j \in 1 .. l : /\ server'.audio[k] = server.audio[j]
                                  /\ k > i - 1 => j > i
          <6>1. CASE k < i BY <4>4, <4>5, <5>0, <6>1
          <6>2. CASE k >= i
            <7>1. k + 1 \in 1 .. l /\ k + 1 > i /\ server'.audio[k] = server.audio[k + 1]
              BY <4>4, <4>5, <5>0, <6>2
            <7> QED BY <7>1
          <6> QED BY <5>0, <6>1, <6>2
        <5>2. j \in DOMAIN server.audio /\ server.audio[j].fd \notin Late /\ server.audio[j].fd \in Peer
          BY <1>0, <1>p, <4>6, <5>1
        <5>3. peer'[server'.audio[k].fd].next = peer[server.audio[j].fd].next BY <4>2, <5>1, <5>2
        <5>4. k > thr'.i => j > thr.i BY <4>1, <5>1 DEF i
        <5> QED BY <2>2, <5>1, <5>2, <5>3, <5>4
      <4> QED BY <3>a, <4>1, <4>3, <4>4, <4>6
    <3>7. CASE /\ wr # rd /\ end \in rd + 1 .. Ring
               /\ server' = [server EXCEPT !.audio[i].rd = Mod(end, Ring)]
               /\ thr' = IF Mod(end, Ring) = wr THEN [thr EXCEPT !.i = i - 1] ELSE thr
               /\ (p \in Late /\ UNCHANGED peer) \/ peer' = Hear(p, RingSlots(rd, end))
      <4>1. /\ thr'.pc = "chunk" /\ thr'.w = thr.w /\ thr'.waited = thr.waited
            /\ thr'.spent = thr.spent
            /\ thr'.i = IF Mod(end, Ring) = wr THEN i - 1 ELSE i
        BY <1>0, <2>1, <3>7 DEF ThreadStates, ThreadAt, i
      <4> DEFINE r == Mod(end, Ring)
      <4>2. /\ server'.w = server.w /\ DOMAIN server'.audio = DOMAIN server.audio
            /\ \A k \in DOMAIN server.audio :
                  /\ server'.audio[k].fd = server.audio[k].fd
                  /\ server'.audio[k].rd = IF k = i THEN r ELSE server.audio[k].rd
        <5> HIDE DEF r
        <5>1. server' = [server EXCEPT !.audio[i].rd = r] BY <3>7 DEF r
        <5> QED BY <1>0, <3>1, <5>1, SetPosition
      \* The blocks sent are the ones the peer waits for.
      <4> DEFINE s == RingSlots(rd, end)
      <4>3. s # <<>> /\ DOMAIN s = 1 .. end - rd /\ Last(s) = Latest(end - 1) /\ Latest(end - 1) \in Int
            /\ \A j \in 1 .. end - rd : s[j] = Latest(rd + j - 1)
        BY <3>2, <3>7, SlotsAre
      <4> HIDE DEF s, r
      <4>4. \A q \in Peer : q # p => peer'[q].next = peer[q].next /\ peer'[q].exact = peer[q].exact
        <5>1. CASE UNCHANGED peer BY <5>1
        <5>2. CASE peer' = Hear(p, s)
          <6>1. \A q \in Peer : q # p => peer'[q] = peer[q] BY <3>2, <4>3, <5>2, HearIs
          <6> QED BY <6>1
        <5> QED BY <3>7, <5>1, <5>2 DEF s
      <4>5. p \notin Late => peer'[p].next = m /\ peer'[p].exact
        <5> SUFFICES ASSUME p \notin Late PROVE peer'[p].next = m /\ peer'[p].exact OBVIOUS
        <5>1. peer' = Hear(p, s) BY <3>7 DEF s
        <5>2. /\ peer'[p].next = Latest(end - 1) + 1
              /\ peer'[p].exact = (peer[p].exact /\ Follows(s, n))
          BY <3>2, <4>3, <5>1, HearIs DEF n
        <5>3. peer[p].exact BY <3>2 DEF HearInv, AudioIsExact
        <5>4. /\ n \in Nat /\ m \in Nat /\ m <= server.w /\ server.w - n <= Ring /\ rd = n % Ring
              /\ m = n + end - rd /\ end \in Nat /\ rd \in Nat /\ end > rd /\ server.w \in Nat
          <6>1. rd = n % Ring BY <3>3 DEF Mod
          <6>2. /\ n \in Nat /\ server.w - n < Ring
                /\ m \in Nat /\ n < m /\ m <= thr.w
            BY <3>3, <3>4, <3>7
          <6>3. m = n + end - rd BY DEF m
          <6>4. end \in Nat /\ rd \in Nat /\ end > rd BY <2>1, <3>2, <3>7
          <6>5. server.w \in Nat /\ thr.w \in Nat /\ Ring \in Nat BY <1>0, <2>1
          <6>6. m <= server.w
            <7>1. thr.w <= server.w BY <2>1
            <7>2. \A x, y, z \in Nat : x <= y /\ y <= z => x <= z OBVIOUS
            <7> QED BY <6>2, <6>5, <7>1, <7>2
          <6>7. server.w - n <= Ring
            <7>1. \A x, y, z \in Nat : x - y < z => x - y <= z OBVIOUS
            <7> QED BY <6>2, <6>5, <7>1
          <6> QED BY <6>1, <6>2, <6>3, <6>4, <6>5, <6>6, <6>7
        <5>5. ASSUME NEW j \in 1 .. end - rd PROVE Latest(rd + j - 1) = n + j - 1
          <6> DEFINE e == j - 1
          <6>1. e \in Nat /\ n + e < server.w BY <5>4
          <6>2. rd + j - 1 = rd + e /\ n + j - 1 = n + e BY <5>4
          <6> HIDE DEF e
          <6>3. Latest((n % Ring) + e) = n + e BY <5>4, <6>1, LatestIs
          <6> QED BY <5>4, <6>2, <6>3
        <5>6. Follows(s, n) BY <4>3, <5>5 DEF Follows
        <5>7. Latest(end - 1) = m - 1
          <6>1. end - rd \in 1 .. end - rd /\ rd + (end - rd) - 1 = end - 1
                /\ n + (end - rd) - 1 = m - 1
            BY <5>4
          <6> DEFINE j == end - rd
          <6>2. j \in 1 .. end - rd BY <6>1
          <6>3. rd + j - 1 = end - 1 /\ n + j - 1 = m - 1 BY <6>1
          <6> HIDE DEF j
          <6>4. Latest(rd + j - 1) = n + j - 1 BY <5>5, <6>2
          <6> QED BY <6>3, <6>4
        <5>8. peer'[p].next = m BY <5>2, <5>4, <5>7
        <5>9. peer'[p].exact BY <5>2, <5>3, <5>6, Zenon
        <5> QED BY <5>8, <5>9
      <4>6. AudioIsExact'
        <5>1. ASSUME NEW q \in Peer \ Late PROVE peer'[q].exact
          BY <4>4, <4>5 DEF HearInv, AudioIsExact
        <5> QED BY <2>0, <5>1 DEF AudioIsExact
      <4>7. ASSUME NEW k \in DOMAIN server.audio, server.audio[k].fd \notin Late
            PROVE  LET q == peer'[server'.audio[k].fd].next
                   IN  /\ q \in Nat /\ q <= thr.w /\ server'.audio[k].rd = Mod(q, Ring)
                       /\ server.w - q <= 1 + thr.spent + thr.waited
                       /\ k > thr'.i => q = thr.w
        <5>1. CASE k = i
          <6>1. server'.audio[k].fd = p /\ server'.audio[k].rd = r BY <4>2, <4>7, <5>1 DEF p, c
          <6>2. p \notin Late BY <4>7, <5>1 DEF p, c
          <6>3. /\ m \in Nat /\ m <= thr.w /\ n < m /\ r = Mod(m, Ring) /\ (r = wr <=> m = thr.w)
            BY <3>4, <3>7, <6>2 DEF r
          <6>4. server.w - m <= 1 + thr.spent + thr.waited BY SMTT(20), <1>0, <3>3, <6>2, <6>3
          <6>5. k > thr'.i => m = thr.w BY <3>2, <4>1, <5>1, <6>3 DEF r
          <6> QED BY <4>5, <6>1, <6>2, <6>3, <6>4, <6>5
        <5>2. CASE k # i
          <6>1. server.audio[k].fd # p BY <3>2, <4>7, <5>2 DEF OwnerInv, p, c
          <6>2. server'.audio[k].fd = server.audio[k].fd /\ server'.audio[k].rd = server.audio[k].rd
            BY <4>2, <4>7, <5>2
          <6>3. peer'[server.audio[k].fd].next = peer[server.audio[k].fd].next BY <1>p, <4>4, <4>7, <6>1
          <6>4. k > thr'.i => k > thr.i
            <7>1. k \in Nat BY <1>0, <4>7
            <7> QED BY <3>2, <4>1, <5>2, <7>1 DEF i
          <6> QED BY <2>2, <4>7, <6>2, <6>3, <6>4
        <5> QED BY <5>1, <5>2
      <4> QED BY <3>a, <4>1, <4>2, <4>6, <4>7
    <3> QED BY <3>1, <3>5, <3>6, <3>7
  <2> QED BY <2>3, <2>4
<1> QED BY <1>1, <1>2, <1>3, <1>4, <1>5, <1>6, <1>7, <1>8, <1>9, <1>10, <1>11, <1>12
  DEF CastNext, AudioCleanup, Handshake, Disconnect, Heartbeat, Serve, server_thread_func

-----------------------------------------------------------------------------
(* The invariant *)

\* The invariant holds when the emulator starts.
LEMMA InvInit == Sizes /\ CastInit => CastInv
<1> SUFFICES ASSUME Sizes, CastInit PROVE CastInv OBVIOUS
<1> USE DEF CastInit, cast_server_init, ClientInit
<1>1. CastTypeOK BY TypeInit
<1>2. /\ server.clients = <<>> /\ server.audio = <<>> /\ server.alive = TRUE /\ server.active = TRUE
      /\ thr.pc = "select" /\ thr.waited = 0 /\ thr.spent = 0
      /\ at \in {"tls", "run"} /\ beat = "none"
      /\ \A p \in Peer : peer[p].sock = "none" /\ peer[p].exact
  BY DEF Fresh, Away
<1>3. DOMAIN server.clients = {} /\ DOMAIN server.audio = {} /\ Streams = {} /\ Listeners = {}
  BY <1>2 DEF Streams, Listeners, ToSet
<1>4. OwnerInv BY <1>2, <1>3 DEF OwnerInv, Serving
<1>5. LoopInv /\ LifeInv /\ BeatInv BY <1>2 DEF LoopInv, LifeInv, BeatInv, Beating, ThreadAt
<1>6. HearInv BY <1>2, <1>3 DEF HearInv, AudioIsExact, Sizes, ThreadAt
<1> QED BY <1>1, <1>4, <1>5, <1>6 DEF CastInv

\* Every step keeps it.
LEMMA InvStep == Sizes /\ CastInv /\ [CastNext]_castVars => CastInv'
<1> SUFFICES ASSUME Sizes, CastInv, [CastNext]_castVars PROVE CastInv' OBVIOUS
<1> USE DEF CastInv
<1>1. CASE CastNext BY <1>1, TypeStep, OwnerStep, LoopStep, LifeStep, BeatStep, HearStep
<1>2. CASE UNCHANGED castVars
  BY <1>2 DEF castVars, serverVars, clientVars, CastTypeOK, OwnerInv, LoopInv, LifeInv, BeatInv, Beating, HearInv,
     Heard, AudioIsExact, Late, Serving, ThreadAt, Streams, Listeners
<1> QED BY <1>1, <1>2

\* It says what the run checks.
LEMMA Safe == CastInv => CastIsSafe
<1> SUFFICES ASSUME CastInv PROVE CastIsSafe OBVIOUS
<1> USE DEF CastInv
<1>1. ASSUME NEW p \in Peer PROVE Owners(p) = IF peer[p].sock = "open" THEN 1 ELSE 0
  <2> DEFINE C == {i \in DOMAIN server.clients : server.clients[i] = p}
             A == {i \in DOMAIN server.audio : server.audio[i].fd = p}
  <2>1. Cardinality(C) = IF p \in Streams THEN 1 ELSE 0
    <3>1. p \in Streams <=> C # {} BY DEF Streams, ToSet
    <3>2. \A i, j \in C : i = j BY DEF OwnerInv
    <3> HIDE DEF C
    <3>3. CASE C # {}
      <4>1. PICK k : C = {k} BY <3>2, <3>3
      <4> QED BY <3>1, <4>1, FS_Singleton
    <3>4. CASE C = {} BY <3>1, <3>4, FS_EmptySet
    <3> QED BY <3>3, <3>4
  <2>2. Cardinality(A) = IF p \in Listeners THEN 1 ELSE 0
    <3>1. p \in Listeners <=> A # {} BY DEF Listeners
    <3>2. \A i, j \in A : i = j BY DEF OwnerInv
    <3> HIDE DEF A
    <3>3. CASE A # {}
      <4>1. PICK k : A = {k} BY <3>2, <3>3
      <4> QED BY <3>1, <4>1, FS_Singleton
    <3>4. CASE A = {} BY <3>1, <3>4, FS_EmptySet
    <3> QED BY <3>3, <3>4
  <2>3. Owners(p) = Cardinality(C) + Cardinality(A) + (IF Serving /\ thr.fd = p THEN 1 ELSE 0)
    BY DEF Owners, Serving
  <2> HIDE DEF C, A
  <2>4. /\ ~(p \in Streams /\ p \in Listeners)
        /\ Serving /\ thr.fd = p => p \notin Streams /\ p \notin Listeners
        /\ peer[p].sock = "open" <=> p \in Streams \/ p \in Listeners \/ (Serving /\ thr.fd = p)
    BY DEF OwnerInv
  <2> QED BY <2>1, <2>2, <2>3, <2>4
<1>2. ~server.alive => \A p \in Peer : peer[p].sock # "open"
  <2> SUFFICES ASSUME ~server.alive, NEW p \in Peer PROVE peer[p].sock # "open" OBVIOUS
  <2>1. ThreadAt("done") /\ ~Serving BY DEF LifeInv, ThreadAt, Serving
  <2>2. server.clients = <<>> /\ server.audio = <<>> BY <2>1 DEF LoopInv
  <2>3. p \notin Streams /\ p \notin Listeners BY <2>2 DEF Streams, Listeners, ToSet
  <2> QED BY <2>1, <2>3 DEF OwnerInv
<1>3. AudioIsExact BY DEF HearInv
<1>4. NothingOutlivesItsOwner
  BY DEF NothingOutlivesItsOwner, TlsIsExclusive, LifeInv, BeatInv, Beating, AudioOpen, ThreadAt
<1> QED BY <1>1, <1>2, <1>3, <1>4 DEF CastIsSafe, SocketsAreOwned

\* The server owns each socket it must close exactly once, a listener that keeps
\* up hears the sound exactly, unless an answer to another client stays unread for
\* longer than the receive timeout, and no thread uses what another one has released
\* (cast_server.c, castv2.c and the cleanup of main.c): for any peers, mute ones
\* included, any tables, and any ring that outlasts a receive timeout.
THEOREM CastSafe == ASSUME Sizes PROVE CastSpec => []CastIsSafe
<1>1. CastInit => CastInv BY InvInit
<1>2. CastInv /\ [CastNext]_castVars => CastInv' BY InvStep
<1>3. CastInv => CastIsSafe BY Safe
<1> QED BY <1>1, <1>2, <1>3, PTL DEF CastSpec
=============================================================================
