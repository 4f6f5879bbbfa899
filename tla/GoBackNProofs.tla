---------------------------- MODULE GoBackNProofs ----------------------------
(***************************************************************************)
(* go-back-N over a network that keeps the order of packets: NothingMixed. *)
(* A DATA packet does not name its chunk, and one peer may download chunk  *)
(* after chunk from the same peer while packets of the earlier ones are    *)
(* still on their way.  What keeps them apart is an invariant of every     *)
(* pair of peers, over both connections and both directions of the link.   *)
(***************************************************************************)
EXTENDS SwarmProofs

-----------------------------------------------------------------------------
(* The invariant of the link between a downloader and an uploader: dn and  *)
(* up are their connections with each other, or NULL; r holds the packets  *)
(* on their way to the uploader, s those on their way to the downloader.   *)

\* The connection with t of a pool.
Conn(pool, t) == IF Connected(pool, t) THEN Find(pool, t) ELSE NULL

\* Without a download, no GET is on its way, and nothing on its way could be
\* taken for the beginning of a chunk, nor will such a packet be sent again.
NoDownload(up, r, s) ==
    /\ \A i \in DOMAIN r : r[i].type # "GET"
    /\ up # NULL => up.last_acked >= 1
    /\ \A i \in DOMAIN s : s[i].type = "DATA" => s[i].seq_num >= 2

\* The uploader has not seen the GET: what it sends is not a beginning.
NotSeen(up, s) ==
    /\ up # NULL => up.last_acked >= 1
    /\ \A i \in DOMAIN s : s[i].type = "DATA" => s[i].seq_num >= 2

\* The uploader has seen it, and nobody has acknowledged anything.
Seen(dn, up, r) ==
    /\ up # NULL => up.last_acked = 0 /\ up.sha1 = dn.sha1
    /\ \A i \in DOMAIN r : r[i].type = "ACK" => r[i].ack_num = 0

\* The download waits for the first packet of its chunk: what follows such a
\* packet is of its chunk as well.
Asking(dn, up, r, s) ==
    /\ \A i \in DOMAIN r : r[i].type = "GET" => r[i].sha1 = dn.sha1
    /\ \A i, j \in DOMAIN r :
        i < j /\ r[i].type = "GET" /\ r[j].type = "ACK" => r[j].ack_num = 0
    /\ \A i, j \in DOMAIN s :
        i <= j /\ s[i].type = "DATA" /\ s[j].type = "DATA" /\ s[i].seq_num = 1
        => s[j].sha1 = dn.sha1 /\ s[j].seq_num <= WINDOW
    /\ NotSeen(up, s) \/ Seen(dn, up, r)

\* The download has begun: everything on its way, and everything that can be
\* sent, is of its chunk, no packet is a window behind one before it, and a
\* GET that is late finds the uploader where it began.
Reading(dn, up, r, s) ==
    /\ \A i \in DOMAIN s : s[i].type = "DATA" => s[i].sha1 = dn.sha1
    /\ \A i, j \in DOMAIN s :
        i < j /\ s[i].type = "DATA" /\ s[j].type = "DATA"
        => s[i].seq_num < s[j].seq_num + WINDOW
    /\ up # NULL =>
        /\ up.sha1 = dn.sha1
        /\ \A i \in DOMAIN s :
            s[i].type = "DATA" => s[i].seq_num <= Available(up.last_acked)
    /\ \A g \in DOMAIN r : r[g].type = "GET" =>
        /\ r[g].sha1 = dn.sha1
        /\ up # NULL => up.last_acked = 0
        /\ \A i \in DOMAIN s : s[i].type = "DATA" => s[i].seq_num <= WINDOW
        /\ \A a \in DOMAIN r : a < g /\ r[a].type = "ACK" => r[a].ack_num = 0

LinkOK(dn, up, r, s) ==
    IF dn = NULL THEN NoDownload(up, r, s)
    ELSE /\ dn.intact
         /\ IF dn.expected_seq = 1 THEN Asking(dn, up, r, s)
                                   ELSE Reading(dn, up, r, s)

-----------------------------------------------------------------------------
(* Packets keep their order. *)

\* new holds packets of s and, behind them, packets of out, in their order.
Follows(s, out, new) ==
    /\ \A i \in DOMAIN new :
        \/ \E a \in DOMAIN s : new[i] = s[a]
        \/ \E b \in DOMAIN out : new[i] = out[b]
    /\ \A i, j \in DOMAIN new : i < j =>
        \/ \E a, b \in DOMAIN s : a < b /\ new[i] = s[a] /\ new[j] = s[b]
        \/ \E a \in DOMAIN s, b \in DOMAIN out : new[i] = s[a] /\ new[j] = out[b]
        \/ \E a, b \in DOMAIN out : a < b /\ new[i] = out[a] /\ new[j] = out[b]

\* What a queue holds after packets were put into it.
LEMMA EnQFollows ==
    ASSUME NEW s \in Seq(Packet), NEW out \in Seq(Packet)
    PROVE  Follows(s, out, EnQ(s, out))
<1> DEFINE all == s \o out
           new == EnQ(s, out)
<1>1. /\ Len(s) \in Nat /\ Len(out) \in Nat
      /\ DOMAIN s = 1 .. Len(s) /\ DOMAIN out = 1 .. Len(out)
      /\ Len(all) = Len(s) + Len(out)
      /\ all \in Seq(Packet)
      /\ \A i \in 1 .. Len(s) + Len(out) :
           all[i] = IF i <= Len(s) THEN s[i] ELSE out[i - Len(s)]
  BY ConcatProperties
<1>2. /\ DOMAIN new \subseteq 1 .. Len(s) + Len(out)
      /\ \A i \in DOMAIN new : new[i] = all[i]
  <2>1. CASE Len(all) <= QUEUE_MAX
    BY <1>1, <2>1 DEF EnQ
  <2>2. CASE ~(Len(all) <= QUEUE_MAX)
    <3>1. new = SubSeq(all, 1, QUEUE_MAX)
      BY <2>2 DEF EnQ
    <3>2. /\ QUEUE_MAX \in 1 .. Len(all)
      BY <1>1, <2>2, QUEUE_MAX_Assumption
    <3> QED
      BY <1>1, <3>1, <3>2
  <2> QED
    BY <2>1, <2>2
<1> HIDE DEF all, new
<1>3. \A i \in DOMAIN new :
        \/ i \in DOMAIN s /\ new[i] = s[i]
        \/ i - Len(s) \in DOMAIN out /\ i > Len(s) /\ new[i] = out[i - Len(s)]
  BY <1>1, <1>2
<1>4. \A i, j \in DOMAIN new : i < j =>
        \/ i \in DOMAIN s /\ j \in DOMAIN s /\ new[i] = s[i] /\ new[j] = s[j]
        \/ /\ i \in DOMAIN s /\ j - Len(s) \in DOMAIN out
           /\ new[i] = s[i] /\ new[j] = out[j - Len(s)]
        \/ /\ i - Len(s) \in DOMAIN out /\ j - Len(s) \in DOMAIN out
           /\ i - Len(s) < j - Len(s)
           /\ new[i] = out[i - Len(s)] /\ new[j] = out[j - Len(s)]
  BY <1>1, <1>2
<1>5. \A i, j \in DOMAIN new : i < j =>
        \/ \E a, b \in DOMAIN s : a < b /\ new[i] = s[a] /\ new[j] = s[b]
        \/ \E a \in DOMAIN s, b \in DOMAIN out : new[i] = s[a] /\ new[j] = out[b]
        \/ \E a, b \in DOMAIN out : a < b /\ new[i] = out[a] /\ new[j] = out[b]
  <2> SUFFICES ASSUME NEW i \in DOMAIN new, NEW j \in DOMAIN new, i < j
               PROVE
        \/ \E a, b \in DOMAIN s : a < b /\ new[i] = s[a] /\ new[j] = s[b]
        \/ \E a \in DOMAIN s, b \in DOMAIN out : new[i] = s[a] /\ new[j] = out[b]
        \/ \E a, b \in DOMAIN out : a < b /\ new[i] = out[a] /\ new[j] = out[b]
    OBVIOUS
  <2> QED
    BY <1>4, Zenon
<1>6. \A i \in DOMAIN new : \/ \E a \in DOMAIN s : new[i] = s[a]
                            \/ \E b \in DOMAIN out : new[i] = out[b]
  BY <1>3, Zenon
<1> QED
  BY <1>5, <1>6 DEF Follows, new

\* A packet taken out of a queue leaves the order of the others.
LEMMA RemoveAtFollows ==
    ASSUME NEW s \in Seq(Packet), NEW k \in DOMAIN s, NEW out, NEW new,
           Follows(RemoveAt(s, k), out, new)
    PROVE  Follows(s, out, new)
<1> DEFINE rest == RemoveAt(s, k)
           from == [a \in DOMAIN rest |-> IF a < k THEN a ELSE a + 1]
<1>1. /\ Len(s) \in Nat
      /\ k \in 1 .. Len(s)
      /\ DOMAIN s = 1 .. Len(s)
  OBVIOUS
<1>2. rest = SubSeq(s, 1, k - 1) \o SubSeq(s, k + 1, Len(s))
  BY DEF RemoveAt
<1>3. /\ SubSeq(s, 1, k - 1) \in Seq(Packet)
      /\ Len(SubSeq(s, 1, k - 1)) = k - 1
      /\ \A a \in 1 .. k - 1 : SubSeq(s, 1, k - 1)[a] = s[a]
  BY <1>1, SubSeqProperties
<1>4. /\ SubSeq(s, k + 1, Len(s)) \in Seq(Packet)
      /\ Len(SubSeq(s, k + 1, Len(s))) = Len(s) - k
      /\ \A a \in 1 .. Len(s) - k : SubSeq(s, k + 1, Len(s))[a] = s[k + a]
  BY <1>1, SubSeqProperties
<1>5. /\ DOMAIN rest = 1 .. Len(s) - 1
      /\ \A a \in DOMAIN rest : rest[a] = IF a < k THEN s[a] ELSE s[a + 1]
  <2> DEFINE front == SubSeq(s, 1, k - 1)
             back == SubSeq(s, k + 1, Len(s))
  <2>1. /\ DOMAIN (front \o back) = 1 .. Len(front) + Len(back)
        /\ \A a \in 1 .. Len(front) + Len(back) :
             (front \o back)[a] = IF a <= Len(front) THEN front[a]
                                  ELSE back[a - Len(front)]
    BY <1>3, <1>4, ConcatProperties
  <2> HIDE DEF front, back
  <2>2. /\ Len(front) = k - 1 /\ Len(back) = Len(s) - k
        /\ \A a \in 1 .. k - 1 : front[a] = s[a]
        /\ \A a \in 1 .. Len(s) - k : back[a] = s[k + a]
        /\ rest = front \o back
    BY <1>2, <1>3, <1>4 DEF front, back
  <2>3. (k - 1) + (Len(s) - k) = Len(s) - 1
    BY <1>1
  <2>4. /\ DOMAIN rest = 1 .. Len(s) - 1
        /\ \A a \in 1 .. Len(s) - 1 :
             rest[a] = IF a <= k - 1 THEN front[a] ELSE back[a - (k - 1)]
    BY <2>1, <2>2, <2>3, Zenon
  <2> HIDE DEF rest
  <2>5. ASSUME NEW a \in 1 .. Len(s) - 1
        PROVE  rest[a] = IF a < k THEN s[a] ELSE s[a + 1]
    <3>1. CASE a < k
      <4>1. a \in 1 .. k - 1 /\ a <= k - 1
        BY <1>1, <3>1
      <4>2. rest[a] = front[a]
        BY <2>4, <4>1
      <4> QED
        BY <2>2, <3>1, <4>1, <4>2
    <3>2. CASE ~(a < k)
      <4>1. /\ a - (k - 1) \in 1 .. Len(s) - k
            /\ k + (a - (k - 1)) = a + 1
            /\ ~(a <= k - 1)
        BY <1>1, <3>2
      <4>2. rest[a] = back[a - (k - 1)]
        BY <2>4, <4>1
      <4> QED
        BY <2>2, <3>2, <4>1, <4>2
    <3> QED
      BY <3>1, <3>2
  <2> QED
    BY <2>4, <2>5
<1> HIDE DEF rest
<1>6. \A a \in DOMAIN rest : from[a] \in DOMAIN s /\ rest[a] = s[from[a]]
  BY <1>1, <1>5
<1>7. \A a, b \in DOMAIN rest : a < b => from[a] < from[b]
  BY <1>1, <1>5
<1> HIDE DEF from
<1>8. Follows(rest, out, new)
  BY DEF rest
<1> QED
  <2>1. ASSUME NEW i \in DOMAIN new
        PROVE  \/ \E a \in DOMAIN s : new[i] = s[a]
               \/ \E b \in DOMAIN out : new[i] = out[b]
    BY <1>6, <1>8 DEF Follows
  <2>2. ASSUME NEW i \in DOMAIN new, NEW j \in DOMAIN new, i < j
        PROVE
        \/ \E a, b \in DOMAIN s : a < b /\ new[i] = s[a] /\ new[j] = s[b]
        \/ \E a \in DOMAIN s, b \in DOMAIN out : new[i] = s[a] /\ new[j] = out[b]
        \/ \E a, b \in DOMAIN out : a < b /\ new[i] = out[a] /\ new[j] = out[b]
    <3>1. CASE \E a, b \in DOMAIN rest :
                 a < b /\ new[i] = rest[a] /\ new[j] = rest[b]
      BY <1>6, <1>7, <3>1
    <3>2. CASE \E a \in DOMAIN rest, b \in DOMAIN out :
                 new[i] = rest[a] /\ new[j] = out[b]
      BY <1>6, <3>2
    <3>3. CASE \E a, b \in DOMAIN out :
                 a < b /\ new[i] = out[a] /\ new[j] = out[b]
      BY <3>3
    <3> QED
      BY <1>8, <2>2, <3>1, <3>2, <3>3 DEF Follows
  <2> QED
    BY <2>1, <2>2 DEF Follows

\* Nothing is added, or nothing is left.
LEMMA NothingFollows ==
    ASSUME NEW s, NEW out
    PROVE  Follows(s, out, s) /\ Follows(s, out, <<>>)
  BY DEF Follows

-----------------------------------------------------------------------------
(* What a step may do to a link, and that the link stays in order. *)

\* Nothing in out is of one of these types.
NoneOf(out, types) == \A a \in DOMAIN out : out[a].type \notin types

\* The same download, the same upload, its counts of timeouts and of duplicate
\* ACKs aside; an upload may also be closed.
SameDownload(dn, new) ==
    IF dn = NULL THEN new = NULL
    ELSE /\ new # NULL
         /\ new.sha1 = dn.sha1
         /\ new.expected_seq = dn.expected_seq
         /\ new.intact = dn.intact

SameUpload(up, new) ==
    new # NULL => /\ up # NULL
                  /\ new.sha1 = up.sha1
                  /\ new.last_acked = up.last_acked

\* What a peer does to its download with somebody, dn, and sends to the other;
\* s is what arrives from there.  The download begins,
Begun(dn, out, new) ==
    /\ dn = NULL /\ new # NULL
    /\ new.expected_seq = 1 /\ new.intact
    /\ NoneOf(out, {"ACK"})
    /\ \A b \in DOMAIN out : out[b].type = "GET" => out[b].sha1 = new.sha1

\* it asks again, for the chunk or for the packet behind the last one it read,
Reminded(dn, out, new) ==
    /\ dn # NULL /\ SameDownload(dn, new)
    /\ \A b \in DOMAIN out :
        /\ out[b].type = "GET" => dn.expected_seq = 1 /\ out[b].sha1 = dn.sha1
        /\ out[b].type = "ACK" /\ dn.expected_seq = 1 => out[b].ack_num = 0

\* it reads the packet it expects,
ReadFrom(dn, s, out, new) ==
    /\ dn # NULL /\ new # NULL
    /\ new.expected_seq = dn.expected_seq + 1
    /\ new.sha1 = dn.sha1
    /\ 1 \in DOMAIN s /\ s[1].type = "DATA" /\ s[1].seq_num = dn.expected_seq
    /\ dn.intact /\ s[1].sha1 = dn.sha1 => new.intact
    /\ NoneOf(out, {"GET"})

\* or it ends with the last packet.
Ended(dn, s, out, new) ==
    /\ dn # NULL /\ new = NULL
    /\ dn.expected_seq = CHUNK_SIZE
    /\ 1 \in DOMAIN s /\ s[1].type = "DATA" /\ s[1].seq_num = CHUNK_SIZE
    /\ NoneOf(out, {"GET"})

\* The same for an upload, up, and what arrives from the downloader, r.  A GET
\* is served from the beginning of the chunk,
Served(r, out, new) ==
    /\ 1 \in DOMAIN r /\ r[1].type = "GET"
    /\ new # NULL /\ new.sha1 = r[1].sha1 /\ new.last_acked = 0
    /\ \A b \in DOMAIN out : /\ out[b].type = "DATA"
                             /\ out[b].sha1 = r[1].sha1
                             /\ out[b].seq_num \in 1 .. WINDOW

\* an ACK moves the window,
Advanced(up, r, out, new) ==
    /\ up # NULL /\ new # NULL /\ new.sha1 = up.sha1
    /\ 1 \in DOMAIN r /\ r[1].type = "ACK" /\ r[1].ack_num > up.last_acked
    /\ new.last_acked = r[1].ack_num /\ r[1].ack_num < CHUNK_SIZE
    /\ \A b \in DOMAIN out :
        /\ out[b].type = "DATA"
        /\ out[b].sha1 = up.sha1
        /\ out[b].seq_num
             \in Available(up.last_acked) + 1 .. Available(r[1].ack_num)
    /\ \A a, b \in DOMAIN out : a < b => out[a].seq_num < out[b].seq_num

\* or the window is sent again.
Repeated(up, out, new) ==
    /\ up # NULL /\ SameUpload(up, new)
    /\ \A b \in DOMAIN out : out[b].type = "DATA" =>
        /\ out[b].sha1 = up.sha1
        /\ out[b].seq_num \in up.last_acked + 1 .. Available(up.last_acked)

\* Nothing moves: packets of other types, and packets that are lost.
LEMMA QuietLink ==
    ASSUME NEW dn \in DownloadConnection \cup {NULL},
           NEW up \in UploadConnection \cup {NULL},
           NEW r \in Seq(Packet), NEW s \in Seq(Packet), LinkOK(dn, up, r, s),
           NEW dn2, NEW up2, NEW r2 \in Seq(Packet), NEW s2 \in Seq(Packet),
           NEW asked, NEW sent, Follows(r, asked, r2), Follows(s, sent, s2),
           NoneOf(asked, {"GET", "ACK"}), NoneOf(sent, {"DATA"}),
           SameDownload(dn, dn2), SameUpload(up, up2)
    PROVE  LinkOK(dn2, up2, r2, s2)
<1>1. \A i \in DOMAIN r2 : r2[i].type \in {"GET", "ACK"} =>
        \E a \in DOMAIN r : r2[i] = r[a]
  BY DEF Follows, NoneOf
<1>2. \A i, j \in DOMAIN r2 :
        i < j /\ r2[i].type \in {"GET", "ACK"} /\ r2[j].type \in {"GET", "ACK"} =>
        \E a, b \in DOMAIN r : a < b /\ r2[i] = r[a] /\ r2[j] = r[b]
  BY DEF Follows, NoneOf
<1>3. \A i \in DOMAIN s2 : s2[i].type = "DATA" =>
        \E a \in DOMAIN s : s2[i] = s[a]
  BY DEF Follows, NoneOf
<1>4. \A i, j \in DOMAIN s2 :
        i < j /\ s2[i].type = "DATA" /\ s2[j].type = "DATA" =>
        \E a, b \in DOMAIN s : a < b /\ s2[i] = s[a] /\ s2[j] = s[b]
  BY DEF Follows, NoneOf
<1>5. CASE dn = NULL
  <2>1. NoDownload(up2, r2, s2)
    BY <1>1, <1>3, <1>5 DEF NoDownload, LinkOK, SameUpload
  <2> QED
    BY <1>5, <2>1 DEF LinkOK, SameDownload
<1>6. CASE dn # NULL /\ dn.expected_seq = 1
  <2>1. Asking(dn, up, r, s)
    BY <1>6 DEF LinkOK
  <2>2. NotSeen(up, s) => NotSeen(up2, s2)
    BY <1>3 DEF NotSeen, SameUpload
  <2>3. Seen(dn, up, r) => Seen(dn2, up2, r2)
    BY <1>1, <1>6 DEF Seen, SameUpload, SameDownload
  <2>4. \A i \in DOMAIN r2 : r2[i].type = "GET" => r2[i].sha1 = dn.sha1
    BY <1>1, <2>1 DEF Asking
  <2>5. \A i, j \in DOMAIN r2 :
          i < j /\ r2[i].type = "GET" /\ r2[j].type = "ACK" => r2[j].ack_num = 0
    BY <1>2, <2>1 DEF Asking
  <2>6. ASSUME NEW i \in DOMAIN s2, NEW j \in DOMAIN s2, i <= j,
               s2[i].type = "DATA", s2[j].type = "DATA", s2[i].seq_num = 1
        PROVE  s2[j].sha1 = dn.sha1 /\ s2[j].seq_num <= WINDOW
    <3>1. i < j \/ i = j
      BY <2>6
    <3>2. \A a, b \in DOMAIN s :
            (a < b \/ a = b) /\ s[a].type = "DATA" /\ s[b].type = "DATA"
            /\ s[a].seq_num = 1
            => s[b].sha1 = dn.sha1 /\ s[b].seq_num <= WINDOW
      BY <2>1 DEF Asking
    <3>3. \E a, b \in DOMAIN s : /\ a < b \/ a = b
                                 /\ s2[i] = s[a] /\ s2[j] = s[b]
      BY <1>3, <1>4, <2>6, <3>1
    <3> QED
      BY <2>6, <3>2, <3>3
  <2>7. Asking(dn2, up2, r2, s2)
    BY <1>6, <2>1, <2>2, <2>3, <2>4, <2>5, <2>6 DEF Asking, SameDownload
  <2> QED
    BY <1>6, <2>7 DEF LinkOK, SameDownload
<1>7. CASE dn # NULL /\ dn.expected_seq # 1
  <2>1. Reading(dn, up, r, s)
    BY <1>7 DEF LinkOK
  <2>2. Reading(dn2, up2, r2, s2)
    BY <1>1, <1>2, <1>3, <1>4, <1>7, <2>1 DEF Reading, SameDownload, SameUpload
  <2> QED
    BY <1>7, <2>2 DEF LinkOK, SameDownload
<1> QED
  BY <1>5, <1>6, <1>7

\* The fields of the packets of a link and of its connections.
LEMMA LinkFields ==
    ASSUME NEW s \in Seq(Packet)
    PROVE  /\ \A i \in DOMAIN s : s[i].type = "DATA" => s[i].seq_num \in 1 .. CHUNK_SIZE
           /\ \A i \in DOMAIN s : s[i].type = "ACK" => s[i].ack_num \in 0 .. CHUNK_SIZE
           /\ DOMAIN s \subseteq Nat \ {0}
<1>1. \A i \in DOMAIN s : s[i] \in Packet
  OBVIOUS
<1> QED
  BY <1>1, PacketFields

\* A download begins: nothing on the link is mistaken for its first packet.
LEMMA AsksLink ==
    ASSUME NEW dn \in DownloadConnection \cup {NULL},
           NEW up \in UploadConnection \cup {NULL},
           NEW r \in Seq(Packet), NEW s \in Seq(Packet), LinkOK(dn, up, r, s),
           NEW dn2, NEW up2, NEW r2 \in Seq(Packet), NEW s2 \in Seq(Packet),
           NEW asked, NEW sent, Follows(r, asked, r2), Follows(s, sent, s2),
           Begun(dn, asked, dn2), NoneOf(sent, {"DATA"}), SameUpload(up, up2)
    PROVE  LinkOK(dn2, up2, r2, s2)
<1> USE DEF Begun
<1>1. NoDownload(up, r, s)
  BY DEF LinkOK
<1>2. \A i \in DOMAIN s2 : s2[i].type = "DATA" => s2[i].seq_num >= 2
  BY <1>1 DEF Follows, NoneOf, NoDownload
<1>3. \A i \in DOMAIN r2 : r2[i].type = "GET" => r2[i].sha1 = dn2.sha1
  BY <1>1 DEF Follows, NoDownload
<1>4. \A i, j \in DOMAIN r2 :
        ~(i < j /\ r2[i].type = "GET" /\ r2[j].type = "ACK")
  BY <1>1 DEF Follows, NoneOf, NoDownload
<1>5. NotSeen(up2, s2)
  BY <1>1, <1>2 DEF NotSeen, NoDownload, SameUpload
<1>6. Asking(dn2, up2, r2, s2)
  BY <1>2, <1>3, <1>4, <1>5 DEF Asking
<1> QED
  BY <1>6 DEF LinkOK

\* A download asks again: for its chunk while it has nothing of it, later for
\* the packet behind the last one it read.
LEMMA RemindsLink ==
    ASSUME NEW dn \in DownloadConnection \cup {NULL},
           NEW up \in UploadConnection \cup {NULL},
           NEW r \in Seq(Packet), NEW s \in Seq(Packet), LinkOK(dn, up, r, s),
           NEW dn2, NEW up2, NEW r2 \in Seq(Packet), NEW s2 \in Seq(Packet),
           NEW asked, NEW sent, Follows(r, asked, r2), Follows(s, sent, s2),
           Reminded(dn, asked, dn2), NoneOf(sent, {"DATA"}), SameUpload(up, up2)
    PROVE  LinkOK(dn2, up2, r2, s2)
<1> USE DEF Reminded
<1>1. \A i \in DOMAIN s2 : s2[i].type = "DATA" =>
        \E a \in DOMAIN s : s2[i] = s[a]
  BY DEF Follows, NoneOf
<1>2. \A i, j \in DOMAIN s2 :
        i < j /\ s2[i].type = "DATA" /\ s2[j].type = "DATA" =>
        \E a, b \in DOMAIN s : a < b /\ s2[i] = s[a] /\ s2[j] = s[b]
  BY DEF Follows, NoneOf
<1>3. CASE dn.expected_seq = 1
  <2>1. Asking(dn, up, r, s)
    BY <1>3 DEF LinkOK
  <2>2. \A i \in DOMAIN r2 : r2[i].type = "GET" => r2[i].sha1 = dn.sha1
    BY <2>1 DEF Asking, Follows
  <2>3. \A i, j \in DOMAIN r2 :
          i < j /\ r2[i].type = "GET" /\ r2[j].type = "ACK" => r2[j].ack_num = 0
    BY <1>3, <2>1 DEF Asking, Follows
  <2>4. NotSeen(up, s) => NotSeen(up2, s2)
    BY <1>1 DEF NotSeen, SameUpload
  <2>5. Seen(dn, up, r) => Seen(dn2, up2, r2)
    BY <1>3 DEF Seen, SameUpload, SameDownload, Follows
  <2>6. ASSUME NEW i \in DOMAIN s2, NEW j \in DOMAIN s2, i <= j,
               s2[i].type = "DATA", s2[j].type = "DATA", s2[i].seq_num = 1
        PROVE  s2[j].sha1 = dn.sha1 /\ s2[j].seq_num <= WINDOW
    <3>1. i < j \/ i = j
      BY <2>6
    <3>2. \A a, b \in DOMAIN s :
            (a < b \/ a = b) /\ s[a].type = "DATA" /\ s[b].type = "DATA"
            /\ s[a].seq_num = 1
            => s[b].sha1 = dn.sha1 /\ s[b].seq_num <= WINDOW
      BY <2>1 DEF Asking
    <3>3. \E a, b \in DOMAIN s : /\ a < b \/ a = b
                                 /\ s2[i] = s[a] /\ s2[j] = s[b]
      BY <1>1, <1>2, <2>6, <3>1
    <3> QED
      BY <2>6, <3>2, <3>3
  <2>7. Asking(dn2, up2, r2, s2)
    BY <2>1, <2>2, <2>3, <2>4, <2>5, <2>6 DEF Asking, SameDownload
  <2> QED
    BY <1>3, <2>7 DEF LinkOK, SameDownload
<1>4. CASE dn.expected_seq # 1
  <2>1. Reading(dn, up, r, s)
    BY <1>4 DEF LinkOK
  <2>2. \A i \in DOMAIN r2 : r2[i].type = "GET" =>
          \E g \in DOMAIN r : r2[i] = r[g]
    BY <1>4 DEF Follows
  <2>3. \A i, j \in DOMAIN r2 : i < j /\ r2[j].type = "GET" =>
          \E a, g \in DOMAIN r : a < g /\ r2[i] = r[a] /\ r2[j] = r[g]
    BY <1>4 DEF Follows
  <2>4. Reading(dn2, up2, r2, s2)
    BY <1>1, <1>2, <2>1, <2>2, <2>3 DEF Reading, SameDownload, SameUpload
  <2> QED
    BY <1>4, <2>4 DEF LinkOK, SameDownload
<1> QED
  BY <1>3, <1>4

\* The packet a download expects arrives and is acknowledged.
LEMMA ReadsLink ==
    ASSUME NEW dn \in DownloadConnection \cup {NULL},
           NEW up \in UploadConnection \cup {NULL},
           NEW r \in Seq(Packet), NEW s \in Seq(Packet), LinkOK(dn, up, r, s),
           NEW dn2, NEW up2, NEW r2 \in Seq(Packet), NEW s2 \in Seq(Packet),
           NEW asked, NEW sent, Follows(r, asked, r2), Follows(s, sent, s2),
           ReadFrom(dn, s, asked, dn2), NoneOf(sent, {"DATA"}),
           SameUpload(up, up2)
    PROVE  LinkOK(dn2, up2, r2, s2)
<1> USE DEF ReadFrom
<1>1. \A i \in DOMAIN s2 : s2[i].type = "DATA" =>
        \E a \in DOMAIN s : s2[i] = s[a]
  BY DEF Follows, NoneOf
<1>2. \A i, j \in DOMAIN s2 :
        i < j /\ s2[i].type = "DATA" /\ s2[j].type = "DATA" =>
        \E a, b \in DOMAIN s : a < b /\ s2[i] = s[a] /\ s2[j] = s[b]
  BY DEF Follows, NoneOf
<1>3. \A i \in DOMAIN r2 : r2[i].type = "GET" =>
        \E g \in DOMAIN r : r2[i] = r[g]
  BY DEF Follows, NoneOf
<1>4. \A i, j \in DOMAIN r2 : i < j /\ r2[j].type = "GET" =>
        \E a, g \in DOMAIN r : a < g /\ r2[i] = r[a] /\ r2[j] = r[g]
  BY DEF Follows, NoneOf
<1>5. dn.expected_seq \in Nat /\ dn2.expected_seq # 1 /\ dn.intact
  BY LinkFields DEF LinkOK
<1>6. CASE dn.expected_seq = 1
  <2>1. Asking(dn, up, r, s)
    BY <1>6 DEF LinkOK
  <2>2. Seen(dn, up, r)
    BY <1>6, <2>1 DEF Asking, NotSeen
  <2>3. \A i \in DOMAIN s : s[i].type = "DATA" =>
          s[i].sha1 = dn.sha1 /\ s[i].seq_num \in 1 .. WINDOW
    BY <1>6, <2>1, LinkFields DEF Asking
  <2>4. Available(0) = WINDOW
    BY WINDOW_Assumption, CHUNK_SIZE_Assumption DEF Available
  <2>5. Reading(dn2, up2, r2, s2)
    <3>1. \A i \in DOMAIN s2 : s2[i].type = "DATA" =>
            s2[i].sha1 = dn2.sha1 /\ s2[i].seq_num \in 1 .. WINDOW
      BY <1>1, <2>3
    <3>2. \A m, n \in 1 .. WINDOW : m < n + WINDOW
      BY WINDOW_Assumption
    <3>3. up2 # NULL => up2.sha1 = dn2.sha1 /\ up2.last_acked = 0
      BY <2>2 DEF Seen, SameUpload
    <3>4. \A g \in DOMAIN r2 : r2[g].type = "GET" => r2[g].sha1 = dn2.sha1
      BY <1>3, <2>1 DEF Asking
    <3>5. \A a, g \in DOMAIN r2 :
            a < g /\ r2[g].type = "GET" /\ r2[a].type = "ACK" => r2[a].ack_num = 0
      BY <1>4, <2>2 DEF Seen
    <3>6. \A n \in 1 .. WINDOW : n <= WINDOW
      BY WINDOW_Assumption
    <3> QED
      BY <2>4, <3>1, <3>2, <3>3, <3>4, <3>5, <3>6 DEF Reading
  <2> QED
    BY <1>5, <2>3, <2>5 DEF LinkOK
<1>7. CASE dn.expected_seq # 1
  <2>1. Reading(dn, up, r, s)
    BY <1>7 DEF LinkOK
  <2>2. Reading(dn2, up2, r2, s2)
    BY <1>1, <1>2, <1>3, <1>4, <2>1 DEF Reading, SameUpload
  <2> QED
    BY <1>5, <2>1, <2>2 DEF LinkOK, Reading
<1> QED
  BY <1>6, <1>7

\* The last packet of a chunk arrives and closes the download.
LEMMA EndsLink ==
    ASSUME NEW dn \in DownloadConnection \cup {NULL},
           NEW up \in UploadConnection \cup {NULL},
           NEW r \in Seq(Packet), NEW s \in Seq(Packet), LinkOK(dn, up, r, s),
           NEW dn2, NEW up2, NEW r2 \in Seq(Packet), NEW s2 \in Seq(Packet),
           NEW asked, NEW sent, Follows(r, asked, r2), Follows(s, sent, s2),
           Ended(dn, s, asked, dn2), NoneOf(sent, {"DATA"}),
           SameUpload(up, up2), WINDOW < CHUNK_SIZE
    PROVE  LinkOK(dn2, up2, r2, s2)
<1> USE DEF Ended
<1>1. Reading(dn, up, r, s)
  BY WINDOW_Assumption, CHUNK_SIZE_Assumption DEF LinkOK
<1>2. /\ WINDOW \in Nat \ {0} /\ CHUNK_SIZE \in Nat
      /\ ~(CHUNK_SIZE <= WINDOW)
  BY WINDOW_Assumption, CHUNK_SIZE_Assumption
<1>3. \A i \in DOMAIN r2 : r2[i].type # "GET"
  <2>1. \A i \in DOMAIN r : r[i].type # "GET"
    BY <1>1, <1>2 DEF Reading
  <2> QED
    BY <2>1 DEF Follows, NoneOf
<1>4. \A i \in DOMAIN s : s[i].type = "DATA" => s[i].seq_num >= 2
  <2> SUFFICES ASSUME NEW i \in DOMAIN s, s[i].type = "DATA"
               PROVE  s[i].seq_num >= 2
    OBVIOUS
  <2>1. i = 1 \/ 1 < i
    BY LinkFields
  <2>2. CASE i = 1
    BY <1>2, <2>2
  <2>3. CASE 1 < i
    <3>1. CHUNK_SIZE < s[i].seq_num + WINDOW
      BY <1>1, <2>3 DEF Reading
    <3> QED
      BY <1>2, <3>1, LinkFields
  <2> QED
    BY <2>1, <2>2, <2>3
<1>5. \A i \in DOMAIN s2 : s2[i].type = "DATA" => s2[i].seq_num >= 2
  BY <1>4 DEF Follows, NoneOf
<1>6. ASSUME up # NULL
      PROVE  up.last_acked >= 1
  <2>1. CHUNK_SIZE <= Available(up.last_acked)
    BY <1>1, <1>6 DEF Reading
  <2>2. up.last_acked \in Nat
    BY <1>6, CHUNK_SIZE_Assumption DEF UploadConnection
  <2>3. up.last_acked # 0
    BY <1>2, <2>1 DEF Available
  <2> QED
    BY <2>2, <2>3
<1> QED
  BY <1>3, <1>5, <1>6 DEF LinkOK, NoDownload, SameUpload

\* A GET is served: with the chunk the download is for, from its beginning.
LEMMA ServesLink ==
    ASSUME NEW dn \in DownloadConnection \cup {NULL},
           NEW up \in UploadConnection \cup {NULL},
           NEW r \in Seq(Packet), NEW s \in Seq(Packet), LinkOK(dn, up, r, s),
           NEW dn2, NEW up2, NEW r2 \in Seq(Packet), NEW s2 \in Seq(Packet),
           NEW asked, NEW sent, Follows(r, asked, r2), Follows(s, sent, s2),
           Served(r, sent, up2),
           NoneOf(asked, {"GET", "ACK"}), SameDownload(dn, dn2)
    PROVE  LinkOK(dn2, up2, r2, s2)
<1> USE DEF Served
<1>1. \A i \in DOMAIN r2 : r2[i].type \in {"GET", "ACK"} =>
        \E a \in DOMAIN r : r2[i] = r[a]
  BY DEF Follows, NoneOf
<1>2. \A i, j \in DOMAIN r2 :
        i < j /\ r2[i].type \in {"GET", "ACK"} /\ r2[j].type \in {"GET", "ACK"} =>
        \E a, b \in DOMAIN r : a < b /\ r2[i] = r[a] /\ r2[j] = r[b]
  BY DEF Follows, NoneOf
<1>3. /\ dn # NULL
      /\ r[1].sha1 = dn.sha1
  BY DEF LinkOK, NoDownload, Asking, Reading
<1>4. Available(0) = WINDOW
  BY WINDOW_Assumption, CHUNK_SIZE_Assumption DEF Available
<1>5. CASE dn.expected_seq = 1
  <2>1. Asking(dn, up, r, s)
    BY <1>3, <1>5 DEF LinkOK
  <2>2. \A i \in DOMAIN r : r[i].type = "ACK" => r[i].ack_num = 0
    <3>1. \A i \in DOMAIN r : i = 1 \/ 1 < i
      BY LinkFields
    <3> QED
      BY <2>1, <3>1 DEF Asking
  <2>3. Seen(dn2, up2, r2)
    BY <1>1, <1>3, <2>2 DEF Seen, SameDownload
  <2>4. \A i \in DOMAIN r2 : r2[i].type = "GET" => r2[i].sha1 = dn.sha1
    BY <1>1, <2>1 DEF Asking
  <2>5. \A i, j \in DOMAIN r2 :
          i < j /\ r2[i].type = "GET" /\ r2[j].type = "ACK" => r2[j].ack_num = 0
    BY <1>1, <2>2
  <2>6. \A b \in DOMAIN sent :
          sent[b].sha1 = dn.sha1 /\ sent[b].seq_num <= WINDOW
    BY <1>3, WINDOW_Assumption
  <2>7. ASSUME NEW i \in DOMAIN s2, NEW j \in DOMAIN s2, i <= j,
               s2[i].type = "DATA", s2[j].type = "DATA", s2[i].seq_num = 1
        PROVE  s2[j].sha1 = dn.sha1 /\ s2[j].seq_num <= WINDOW
    <3>1. \A a, b \in DOMAIN s :
            (a < b \/ a = b) /\ s[a].type = "DATA" /\ s[b].type = "DATA"
            /\ s[a].seq_num = 1
            => s[b].sha1 = dn.sha1 /\ s[b].seq_num <= WINDOW
      BY <2>1 DEF Asking
    <3>2. i < j \/ i = j
      BY <2>7
    <3>3. CASE i = j
      BY <2>6, <2>7, <3>1, <3>3 DEF Follows
    <3>4. CASE i < j
      BY <2>6, <2>7, <3>1, <3>4 DEF Follows
    <3> QED
      BY <3>2, <3>3, <3>4
  <2>8. Asking(dn2, up2, r2, s2)
    BY <1>3, <2>3, <2>4, <2>5, <2>7 DEF Asking, SameDownload
  <2> QED
    BY <1>3, <1>5, <2>8 DEF LinkOK, SameDownload
<1>6. CASE dn.expected_seq # 1
  <2>1. Reading(dn, up, r, s)
    BY <1>3, <1>6 DEF LinkOK
  <2>2. \A i \in DOMAIN s : s[i].type = "DATA" =>
          s[i].sha1 = dn.sha1 /\ s[i].seq_num \in 1 .. WINDOW
    BY <2>1, LinkFields DEF Reading
  <2>3. \A i \in DOMAIN s2 : s2[i].type = "DATA" =>
          s2[i].sha1 = dn.sha1 /\ s2[i].seq_num \in 1 .. WINDOW
    BY <1>3, <2>2 DEF Follows
  <2>4. \A m, n \in 1 .. WINDOW : m < n + WINDOW /\ n <= WINDOW
    BY WINDOW_Assumption
  <2>5. \A g \in DOMAIN r2 : r2[g].type = "GET" => r2[g].sha1 = dn.sha1
    BY <1>1, <2>1 DEF Reading
  <2>6. \A a, g \in DOMAIN r2 :
          a < g /\ r2[g].type = "GET" /\ r2[a].type = "ACK" => r2[a].ack_num = 0
    BY <1>2, <2>1 DEF Reading
  <2>7. Reading(dn, up2, r2, s2)
    BY <1>3, <1>4, <2>3, <2>4, <2>5, <2>6 DEF Reading
  <2> QED
    BY <1>3, <1>6, <2>7 DEF LinkOK, SameDownload, Reading
<1> QED
  BY <1>5, <1>6

\* The window moves forward only, and stays in the chunk.
LEMMA AvailableGrows ==
    ASSUME NEW m \in 0 .. CHUNK_SIZE - 1, NEW n \in m .. CHUNK_SIZE - 1
    PROVE  /\ Available(m) \in Nat /\ Available(n) \in Nat
           /\ Available(m) >= 1
           /\ Available(m) <= Available(n)
           /\ Available(m) <= m + WINDOW
  BY WINDOW_Assumption, CHUNK_SIZE_Assumption DEF Available

\* An ACK moves the window: behind everything sent before.
LEMMA AdvancesLink ==
    ASSUME NEW dn \in DownloadConnection \cup {NULL},
           NEW up \in UploadConnection \cup {NULL},
           NEW r \in Seq(Packet), NEW s \in Seq(Packet), LinkOK(dn, up, r, s),
           NEW dn2, NEW up2, NEW r2 \in Seq(Packet), NEW s2 \in Seq(Packet),
           NEW asked, NEW sent, Follows(r, asked, r2), Follows(s, sent, s2),
           Advanced(up, r, sent, up2),
           NoneOf(asked, {"GET", "ACK"}), SameDownload(dn, dn2)
    PROVE  LinkOK(dn2, up2, r2, s2)
<1> USE DEF Advanced
<1>1. \A i \in DOMAIN r2 : r2[i].type \in {"GET", "ACK"} =>
        \E a \in DOMAIN r : r2[i] = r[a]
  BY DEF Follows, NoneOf
<1>2. \A i, j \in DOMAIN r2 :
        i < j /\ r2[i].type \in {"GET", "ACK"} /\ r2[j].type \in {"GET", "ACK"} =>
        \E a, b \in DOMAIN r : a < b /\ r2[i] = r[a] /\ r2[j] = r[b]
  BY DEF Follows, NoneOf
<1> DEFINE n == r[1].ack_num
           old == Available(up.last_acked)
           new == Available(n)
<1>3. /\ up.last_acked \in Nat /\ n \in Nat
      /\ n > up.last_acked
      /\ old \in Nat /\ new \in Nat /\ WINDOW \in Nat \ {0}
      /\ old >= 1
      /\ old <= new
  <2>1. /\ up.last_acked \in 0 .. CHUNK_SIZE - 1
        /\ n \in up.last_acked .. CHUNK_SIZE - 1
        /\ n > up.last_acked
    BY LinkFields, CHUNK_SIZE_Assumption DEF UploadConnection
  <2>2. /\ WINDOW \in Nat \ {0}
        /\ up.last_acked \in Nat /\ n \in Nat
    BY <2>1, WINDOW_Assumption, CHUNK_SIZE_Assumption
  <2> QED
    BY <2>1, <2>2, AvailableGrows
<1> HIDE DEF old, new
<1>4. \A b \in DOMAIN sent :
        /\ sent[b].seq_num \in Nat
        /\ old < sent[b].seq_num /\ sent[b].seq_num <= new
        /\ sent[b].seq_num >= 2
  BY <1>3 DEF old, new
<1>5. CASE dn = NULL
  <2>1. NoDownload(up, r, s)
    BY <1>5 DEF LinkOK
  <2>2. \A i \in DOMAIN s2 : s2[i].type = "DATA" => s2[i].seq_num >= 2
    BY <1>4, <2>1 DEF NoDownload, Follows
  <2>3. up2.last_acked >= 1
    BY <1>3
  <2>4. NoDownload(up2, r2, s2)
    BY <1>1, <2>1, <2>2, <2>3 DEF NoDownload
  <2> QED
    BY <1>5, <2>4 DEF LinkOK, SameDownload
<1>6. CASE dn # NULL /\ dn.expected_seq = 1
  <2>1. Asking(dn, up, r, s)
    BY <1>6 DEF LinkOK
  <2>2. NotSeen(up, s)
    BY <1>3, <2>1 DEF Asking, Seen
  <2>3. NotSeen(up2, s2)
    <3>1. \A i \in DOMAIN s2 : s2[i].type = "DATA" => s2[i].seq_num >= 2
      BY <1>4, <2>2 DEF NotSeen, Follows
    <3>2. up2.last_acked >= 1
      BY <1>3
    <3> QED
      BY <3>1, <3>2 DEF NotSeen
  <2>4. \A i \in DOMAIN s2 : ~(s2[i].type = "DATA" /\ s2[i].seq_num = 1)
    BY <2>3, LinkFields DEF NotSeen
  <2>5. \A i \in DOMAIN r2 : r2[i].type = "GET" => r2[i].sha1 = dn.sha1
    BY <1>1, <2>1 DEF Asking
  <2>6. \A i, j \in DOMAIN r2 :
          i < j /\ r2[i].type = "GET" /\ r2[j].type = "ACK" => r2[j].ack_num = 0
    BY <1>2, <2>1 DEF Asking
  <2>7. Asking(dn2, up2, r2, s2)
    BY <1>6, <2>3, <2>4, <2>5, <2>6 DEF Asking, SameDownload
  <2> QED
    BY <1>6, <2>7 DEF LinkOK, SameDownload
<1>7. CASE dn # NULL /\ dn.expected_seq # 1
  <2>1. Reading(dn, up, r, s)
    BY <1>7 DEF LinkOK
  <2>2. \A g \in DOMAIN r : r[g].type # "GET"
    <3>1. \A g \in DOMAIN r : g = 1 \/ 1 < g
      BY LinkFields
    <3> QED
      BY <1>3, <2>1, <3>1 DEF Reading
  <2>3. \A g \in DOMAIN r2 : r2[g].type # "GET"
    BY <1>1, <2>2
  <2>4. \A i \in DOMAIN s : s[i].type = "DATA" =>
          /\ s[i].sha1 = dn.sha1
          /\ s[i].seq_num \in Nat /\ s[i].seq_num <= old
    BY <2>1, LinkFields DEF Reading, old
  <2>5. up.sha1 = dn.sha1
    BY <2>1 DEF Reading
  <2>6. \A i \in DOMAIN s2 : s2[i].type = "DATA" =>
          s2[i].sha1 = dn.sha1 /\ s2[i].seq_num <= new
    <3>1. ASSUME NEW a \in DOMAIN s, s[a].type = "DATA"
          PROVE  s[a].sha1 = dn.sha1 /\ s[a].seq_num <= new
      <4>1. s[a].sha1 = dn.sha1 /\ s[a].seq_num \in Nat /\ s[a].seq_num <= old
        BY <2>4, <3>1
      <4> HIDE DEF Advanced
      <4> QED
        BY <1>3, <4>1
    <3>2. ASSUME NEW b \in DOMAIN sent
          PROVE  sent[b].sha1 = dn.sha1 /\ sent[b].seq_num <= new
      BY <1>4, <2>5, <3>2
    <3> HIDE DEF Advanced
    <3> QED
      BY <3>1, <3>2 DEF Follows
  <2>7. ASSUME NEW i \in DOMAIN s2, NEW j \in DOMAIN s2, i < j,
               s2[i].type = "DATA", s2[j].type = "DATA"
        PROVE  s2[i].seq_num < s2[j].seq_num + WINDOW
    <3>1. CASE \E a, b \in DOMAIN s : a < b /\ s2[i] = s[a] /\ s2[j] = s[b]
      BY <2>1, <2>7, <3>1 DEF Reading
    <3>2. CASE \E a \in DOMAIN s, b \in DOMAIN sent :
                 s2[i] = s[a] /\ s2[j] = sent[b]
      <4>1. PICK a \in DOMAIN s, b \in DOMAIN sent :
              s2[i] = s[a] /\ s2[j] = sent[b]
        BY <3>2
      <4>2. s2[i].seq_num \in Nat /\ s2[i].seq_num <= old
        BY <2>4, <2>7, <4>1
      <4>3. s2[j].seq_num \in Nat /\ old < s2[j].seq_num
        BY <1>4, <4>1
      <4> HIDE DEF Advanced
      <4> QED
        BY <1>3, <4>2, <4>3
    <3>3. CASE \E a, b \in DOMAIN sent :
                 a < b /\ s2[i] = sent[a] /\ s2[j] = sent[b]
      BY <1>3, <1>4, <3>3
    <3> QED
      BY <2>7, <3>1, <3>2, <3>3 DEF Follows
  <2>8. Reading(dn2, up2, r2, s2)
    BY <1>7, <2>3, <2>5, <2>6, <2>7 DEF Reading, SameDownload, new
  <2> QED
    BY <1>7, <2>8 DEF LinkOK, SameDownload
<1> QED
  BY <1>5, <1>6, <1>7

\* The window is sent again: what of it is on its way is not a window ahead.
LEMMA RepeatsLink ==
    ASSUME NEW dn \in DownloadConnection \cup {NULL},
           NEW up \in UploadConnection \cup {NULL},
           NEW r \in Seq(Packet), NEW s \in Seq(Packet), LinkOK(dn, up, r, s),
           NEW dn2, NEW up2, NEW r2 \in Seq(Packet), NEW s2 \in Seq(Packet),
           NEW asked, NEW sent, Follows(r, asked, r2), Follows(s, sent, s2),
           Repeated(up, sent, up2),
           NoneOf(asked, {"GET", "ACK"}), SameDownload(dn, dn2)
    PROVE  LinkOK(dn2, up2, r2, s2)
<1> USE DEF Repeated
<1>1. \A i \in DOMAIN r2 : r2[i].type \in {"GET", "ACK"} =>
        \E a \in DOMAIN r : r2[i] = r[a]
  BY DEF Follows, NoneOf
<1>2. \A i, j \in DOMAIN r2 :
        i < j /\ r2[i].type \in {"GET", "ACK"} /\ r2[j].type \in {"GET", "ACK"} =>
        \E a, b \in DOMAIN r : a < b /\ r2[i] = r[a] /\ r2[j] = r[b]
  BY DEF Follows, NoneOf
<1> DEFINE la == up.last_acked
           end == Available(la)
<1>3. /\ la \in Nat /\ end \in Nat /\ WINDOW \in Nat \ {0}
      /\ end <= la + WINDOW
      /\ la = 0 => end = WINDOW
  <2>1. la \in 0 .. CHUNK_SIZE - 1
    BY DEF UploadConnection
  <2>2. la = 0 => Available(la) = WINDOW
    BY WINDOW_Assumption, CHUNK_SIZE_Assumption DEF Available
  <2>3. WINDOW \in Nat \ {0} /\ la \in Nat /\ la \in la .. CHUNK_SIZE - 1
    BY <2>1, WINDOW_Assumption, CHUNK_SIZE_Assumption
  <2> HIDE DEF la
  <2> QED
    BY <2>1, <2>2, <2>3, AvailableGrows
<1>4. \A b \in DOMAIN sent : sent[b].type = "DATA" =>
        /\ sent[b].sha1 = up.sha1
        /\ sent[b].seq_num \in Nat
        /\ la < sent[b].seq_num /\ sent[b].seq_num <= end
  <2> HIDE DEF la, end
  <2>1. \A b \in DOMAIN sent : sent[b].type = "DATA" =>
          sent[b].sha1 = up.sha1 /\ sent[b].seq_num \in la + 1 .. end
    BY DEF la, end
  <2> QED
    BY <1>3, <2>1
<1>5. up2 # NULL => up2.sha1 = up.sha1 /\ up2.last_acked = la
  BY DEF SameUpload
<1> HIDE DEF la, end
<1>6. CASE dn = NULL
  <2>1. NoDownload(up, r, s)
    BY <1>6 DEF LinkOK
  <2>2. la >= 1
    BY <2>1 DEF NoDownload, la
  <2>3. \A b \in DOMAIN sent : sent[b].type = "DATA" => sent[b].seq_num >= 2
    BY <1>3, <1>4, <2>2
  <2>4. \A i \in DOMAIN s2 : s2[i].type = "DATA" => s2[i].seq_num >= 2
    BY <2>1, <2>3 DEF NoDownload, Follows
  <2>5. NoDownload(up2, r2, s2)
    BY <1>1, <1>5, <2>1, <2>2, <2>4 DEF NoDownload
  <2> QED
    BY <1>6, <2>5 DEF LinkOK, SameDownload
<1>7. CASE dn # NULL /\ dn.expected_seq = 1
  <2>1. Asking(dn, up, r, s)
    BY <1>7 DEF LinkOK
  <2>2. \A i \in DOMAIN r2 : r2[i].type = "GET" => r2[i].sha1 = dn.sha1
    BY <1>1, <2>1 DEF Asking
  <2>3. \A i, j \in DOMAIN r2 :
          i < j /\ r2[i].type = "GET" /\ r2[j].type = "ACK" => r2[j].ack_num = 0
    BY <1>2, <2>1 DEF Asking
  <2>4. CASE NotSeen(up, s)
    <3>1. la >= 1
      BY <2>4 DEF NotSeen, la
    <3>2. \A b \in DOMAIN sent : sent[b].type = "DATA" => sent[b].seq_num >= 2
      BY <1>3, <1>4, <3>1
    <3>3. \A i \in DOMAIN s2 : s2[i].type = "DATA" => s2[i].seq_num >= 2
      BY <2>4, <3>2 DEF NotSeen, Follows
    <3>4. NotSeen(up2, s2)
      BY <1>5, <3>1, <3>3 DEF NotSeen
    <3>5. \A i \in DOMAIN s2 : ~(s2[i].type = "DATA" /\ s2[i].seq_num = 1)
      BY <3>3, LinkFields
    <3> QED
      BY <1>7, <2>2, <2>3, <3>4, <3>5 DEF Asking, LinkOK, SameDownload
  <2>5. CASE Seen(dn, up, r)
    <3>1. la = 0 /\ up.sha1 = dn.sha1
      BY <2>5 DEF Seen, la
    <3>2. \A b \in DOMAIN sent : sent[b].type = "DATA" =>
            sent[b].sha1 = dn.sha1 /\ sent[b].seq_num <= WINDOW
      BY <1>3, <1>4, <3>1
    <3>3. Seen(dn2, up2, r2)
      BY <1>1, <1>5, <1>7, <2>5, <3>1 DEF Seen, SameDownload
    <3>4. ASSUME NEW i \in DOMAIN s2, NEW j \in DOMAIN s2, i <= j,
                 s2[i].type = "DATA", s2[j].type = "DATA", s2[i].seq_num = 1
          PROVE  s2[j].sha1 = dn.sha1 /\ s2[j].seq_num <= WINDOW
      <4>1. \A a, b \in DOMAIN s :
              (a < b \/ a = b) /\ s[a].type = "DATA" /\ s[b].type = "DATA"
              /\ s[a].seq_num = 1
              => s[b].sha1 = dn.sha1 /\ s[b].seq_num <= WINDOW
        BY <2>1 DEF Asking
      <4>2. i < j \/ i = j
        BY <3>4
      <4>3. CASE i = j
        BY <3>2, <3>4, <4>1, <4>3 DEF Follows
      <4>4. CASE i < j
        BY <3>2, <3>4, <4>1, <4>4 DEF Follows
      <4> QED
        BY <4>2, <4>3, <4>4
    <3> QED
      BY <1>7, <2>2, <2>3, <3>3, <3>4 DEF Asking, LinkOK, SameDownload
  <2> QED
    BY <2>1, <2>4, <2>5 DEF Asking
<1>8. CASE dn # NULL /\ dn.expected_seq # 1
  <2>1. Reading(dn, up, r, s)
    BY <1>8 DEF LinkOK
  <2>2. /\ up.sha1 = dn.sha1
        /\ \A i \in DOMAIN s : s[i].type = "DATA" =>
              /\ s[i].sha1 = dn.sha1
              /\ s[i].seq_num \in Nat /\ s[i].seq_num <= end
    BY <2>1, LinkFields DEF Reading, end, la
  <2>3. \A i \in DOMAIN s2 : s2[i].type = "DATA" =>
          s2[i].sha1 = dn.sha1 /\ s2[i].seq_num <= end
    BY <1>4, <2>2 DEF Follows
  <2>4. ASSUME NEW i \in DOMAIN s2, NEW j \in DOMAIN s2, i < j,
               s2[i].type = "DATA", s2[j].type = "DATA"
        PROVE  s2[i].seq_num < s2[j].seq_num + WINDOW
    <3>1. CASE \E a, b \in DOMAIN s : a < b /\ s2[i] = s[a] /\ s2[j] = s[b]
      BY <2>1, <2>4, <3>1 DEF Reading
    <3>2. CASE \E a \in DOMAIN s, b \in DOMAIN sent :
                 s2[i] = s[a] /\ s2[j] = sent[b]
      BY <1>3, <1>4, <2>2, <2>4, <3>2
    <3>3. CASE \E a, b \in DOMAIN sent :
                 a < b /\ s2[i] = sent[a] /\ s2[j] = sent[b]
      BY <1>3, <1>4, <2>4, <3>3
    <3> QED
      BY <2>4, <3>1, <3>2, <3>3 DEF Follows
  <2>5. ASSUME NEW g \in DOMAIN r2, r2[g].type = "GET"
        PROVE  /\ r2[g].sha1 = dn.sha1
               /\ la = 0
               /\ \A i \in DOMAIN s2 :
                    s2[i].type = "DATA" => s2[i].seq_num <= WINDOW
               /\ \A a \in DOMAIN r2 :
                    a < g /\ r2[a].type = "ACK" => r2[a].ack_num = 0
    <3>1. r2[g].sha1 = dn.sha1 /\ la = 0
      BY <1>1, <2>1, <2>5 DEF Reading, la
    <3>2. \A i \in DOMAIN s2 : s2[i].type = "DATA" => s2[i].seq_num <= WINDOW
      BY <1>3, <2>3, <3>1
    <3>3. \A a \in DOMAIN r2 : a < g /\ r2[a].type = "ACK" => r2[a].ack_num = 0
      BY <1>2, <2>1, <2>5 DEF Reading
    <3> QED
      BY <3>1, <3>2, <3>3
  <2>6. up2 # NULL => /\ up2.sha1 = dn.sha1
                      /\ Available(up2.last_acked) = end
                      /\ up2.last_acked = la
    BY <1>5, <2>2 DEF end
  <2>7. Reading(dn, up2, r2, s2)
    BY <2>3, <2>4, <2>5, <2>6 DEF Reading
  <2> QED
    BY <1>8, <2>7 DEF LinkOK, SameDownload, Reading
<1> QED
  BY <1>6, <1>7, <1>8

-----------------------------------------------------------------------------
(* The connection with a peer, after an operation on the pool. *)

\* There is a connection with t if a slot has one.
LEMMA ConnType ==
    ASSUME NEW n \in Nat, NEW C, NULL \notin C, NEW pool \in PoolOf(n, C), NEW t
    PROVE  /\ Conn(pool, t) \in C \cup {NULL}
           /\ Conn(pool, t) # NULL <=> Connected(pool, t)
           /\ Connected(pool, t) => Conn(pool, t) = Find(pool, t)
           /\ Connected(pool, t) => Conn(pool, t) \in C /\ Conn(pool, t).peer = t
  BY FindInPool DEF Conn

\* In a consistent pool it is the connection of any slot with that peer.
LEMMA ConnOfSlot ==
    ASSUME NEW n \in Nat, NEW C, NULL \notin C, NEW pool \in PoolOf(n, C),
           Consistent(pool), NEW k \in Occupied(pool)
    PROVE  Conn(pool, pool.connections[k].peer) = pool.connections[k]
<1> DEFINE t == pool.connections[k].peer
<1>1. k \in SlotsOf(pool, t)
  BY DEF SlotsOf
<1>2. Connected(pool, t)
  BY <1>1 DEF Connected
<1>3. Min(SlotsOf(pool, t)) \in SlotsOf(pool, t)
  BY <1>2, FindInPool
<1>4. Min(SlotsOf(pool, t)) = k
  BY <1>1, <1>3 DEF SlotsOf, Consistent
<1> QED
  BY <1>2, <1>4 DEF Conn, Find

\* Pools with the same slots for t have the same connection with t.
LEMMA ConnKept ==
    ASSUME NEW n \in Nat, NEW C, NULL \notin C, NEW pool \in PoolOf(n, C),
           NEW new \in PoolOf(n, C), Consistent(pool), Consistent(new), NEW t,
           \A k \in SlotsOf(new, t) \cup SlotsOf(pool, t) :
               /\ k \in Occupied(pool) /\ k \in Occupied(new)
               /\ new.connections[k] = pool.connections[k]
    PROVE  Conn(new, t) = Conn(pool, t)
<1>1. SlotsOf(new, t) = SlotsOf(pool, t)
  BY DEF SlotsOf
<1>2. CASE SlotsOf(pool, t) = {}
  BY <1>1, <1>2 DEF Conn, Connected
<1>3. CASE SlotsOf(pool, t) # {}
  <2>1. PICK k \in SlotsOf(pool, t) : TRUE
    BY <1>3
  <2>2. /\ k \in Occupied(pool) /\ k \in Occupied(new)
        /\ new.connections[k] = pool.connections[k]
        /\ pool.connections[k].peer = t
    BY <2>1 DEF SlotsOf
  <2> QED
    BY <2>2, ConnOfSlot
<1> QED
  BY <1>2, <1>3

\* add_to_*_pool, for a peer that is not in the pool.
LEMMA ConnAdded ==
    ASSUME NEW n \in Nat, NEW C, NULL \notin C, NEW pool \in PoolOf(n, C),
           NEW c \in C, Consistent(pool), pool.size < n,
           ~Connected(pool, c.peer), NEW t
    PROVE  Conn(AddTo(pool, c), t) = IF t = c.peer THEN c ELSE Conn(pool, t)
<1> DEFINE f == Min(FreeSlots(pool))
           new == AddTo(pool, c)
<1>1. /\ f \notin Occupied(pool)
      /\ Occupied(new) = Occupied(pool) \cup {f}
      /\ new.connections[f] = c
      /\ \A k \in Occupied(pool) : new.connections[k] = pool.connections[k]
      /\ Consistent(new)
  BY AddToConsistent
<1>2. new \in PoolOf(n, C)
  BY AddToType
<1> HIDE DEF new, f
<1>3. CASE t = c.peer
  BY <1>1, <1>2, <1>3, ConnOfSlot DEF new
<1>4. CASE t # c.peer
  <2>1. \A k \in SlotsOf(new, t) \cup SlotsOf(pool, t) :
          /\ k \in Occupied(pool) /\ k \in Occupied(new)
          /\ new.connections[k] = pool.connections[k]
    BY <1>1, <1>4 DEF SlotsOf
  <2> QED
    BY <1>1, <1>2, <1>4, <2>1, ConnKept DEF new
<1> QED
  BY <1>3, <1>4

\* remove_from_*_pool.
LEMMA ConnRemoved ==
    ASSUME NEW n \in Nat, NEW C, NULL \notin C, NEW pool \in PoolOf(n, C),
           NEW q, Consistent(pool), NEW t
    PROVE  Conn(RemoveFrom(pool, q), t) = IF t = q THEN NULL ELSE Conn(pool, t)
<1> DEFINE new == RemoveFrom(pool, q)
<1>1. /\ Consistent(new)
      /\ ~Connected(new, q)
      /\ Occupied(new) = Occupied(pool) \ SlotsOf(pool, q)
      /\ \A k \in Occupied(pool) \ SlotsOf(pool, q) :
           new.connections[k] = pool.connections[k]
      /\ new \in PoolOf(n, C)
  BY RemoveFromConsistent, RemoveFromType
<1> HIDE DEF new
<1>2. CASE t = q
  BY <1>1, <1>2 DEF new, Conn
<1>3. CASE t # q
  <2>1. \A k \in SlotsOf(new, t) \cup SlotsOf(pool, t) :
          /\ k \in Occupied(pool) /\ k \in Occupied(new)
          /\ new.connections[k] = pool.connections[k]
    BY <1>1, <1>3 DEF SlotsOf
  <2> QED
    BY <1>1, <1>3, <2>1, ConnKept DEF new
<1> QED
  BY <1>2, <1>3

\* A write through the pointer to q's connection.
LEMMA ConnUpdated ==
    ASSUME NEW n \in Nat, NEW C, NULL \notin C, NEW pool \in PoolOf(n, C),
           NEW q, Connected(pool, q), NEW c \in C, c.peer = q,
           Consistent(pool), NEW t
    PROVE  Conn(Update(pool, q, c), t) = IF t = q THEN c ELSE Conn(pool, t)
<1> DEFINE new == Update(pool, q, c)
           m == Min(SlotsOf(pool, q))
<1>1. /\ new \in PoolOf(n, C)
      /\ Consistent(new)
      /\ Occupied(new) = Occupied(pool)
      /\ \A k \in Occupied(pool) :
           new.connections[k] = IF k = m THEN c ELSE pool.connections[k]
  BY UpdateSlots, UpdateConsistent
<1>2. m \in Occupied(pool) /\ pool.connections[m].peer = q
  <2>1. m \in SlotsOf(pool, q)
    BY FindInPool
  <2> HIDE DEF m
  <2> QED
    BY <2>1 DEF SlotsOf
<1> HIDE DEF new, m
<1>3. CASE t = q
  BY <1>1, <1>2, <1>3, ConnOfSlot DEF new
<1>4. CASE t # q
  <2>1. \A k \in SlotsOf(new, t) \cup SlotsOf(pool, t) :
          /\ k \in Occupied(pool) /\ k \in Occupied(new)
          /\ new.connections[k] = pool.connections[k]
    BY <1>1, <1>2, <1>4 DEF SlotsOf
  <2> QED
    BY <1>1, <1>4, <2>1, ConnKept DEF new
<1> QED
  BY <1>3, <1>4

\* The loop of handle_timeout: the connection with t is closed, replaced by
\* what the loop made of it, or left alone.
LEMMA ConnChecked ==
    ASSUME NEW n \in Nat, NEW C, NULL \notin C, NEW pool \in PoolOf(n, C),
           NEW late \in SUBSET Occupied(pool), NEW retried,
           \A k \in late \ GivenUp(pool, late) :
               /\ retried[k] \in C
               /\ retried[k].peer = pool.connections[k].peer,
           Consistent(pool), NEW t
    PROVE  LET new == Checked(pool, late, retried)
           IN  /\ ~Connected(pool, t) => Conn(new, t) = NULL
               /\ \A k \in SlotsOf(pool, t) :
                    Conn(new, t) =
                        IF k \notin late THEN Conn(pool, t)
                        ELSE IF k \in GivenUp(pool, late) THEN NULL
                        ELSE retried[k]
<1> DEFINE new == Checked(pool, late, retried)
           out == GivenUp(pool, late)
<1>1. /\ new \in PoolOf(n, C)
      /\ Occupied(new) = Occupied(pool) \ out
      /\ \A k \in Occupied(new) :
           new.connections[k] = IF k \in late THEN retried[k]
                                ELSE pool.connections[k]
  BY CheckedType, CheckedSlots
<1>2. Consistent(new)
  BY CheckedConsistent, SMTT(60)
<1>3. out \subseteq late
  BY DEF GivenUp
<1> HIDE DEF new, out
<1>4. \A k \in Occupied(new) : /\ k \in Occupied(pool)
                               /\ new.connections[k].peer = pool.connections[k].peer
  BY <1>1 DEF out
<1>5. ASSUME ~Connected(pool, t)
      PROVE  Conn(new, t) = NULL
  <2>1. SlotsOf(new, t) = {}
    BY <1>4, <1>5 DEF SlotsOf, Connected
  <2> QED
    BY <2>1 DEF Conn, Connected
<1>6. ASSUME NEW k \in SlotsOf(pool, t)
      PROVE  Conn(new, t) = IF k \notin late THEN Conn(pool, t)
                            ELSE IF k \in out THEN NULL ELSE retried[k]
  <2>1. k \in Occupied(pool) /\ pool.connections[k].peer = t
    BY <1>6 DEF SlotsOf
  <2>2. CASE k \in out
    <3>1. \A j \in Occupied(new) : new.connections[j].peer # t
      BY <1>1, <1>4, <2>1, <2>2 DEF Consistent
    <3>2. SlotsOf(new, t) = {}
      BY <3>1 DEF SlotsOf
    <3> QED
      BY <1>3, <2>2, <3>2 DEF Conn, Connected
  <2>3. CASE k \notin out
    <3>1. /\ k \in Occupied(new)
          /\ new.connections[k].peer = t
          /\ new.connections[k] = IF k \in late THEN retried[k]
                                  ELSE pool.connections[k]
      BY <1>1, <1>4, <2>1, <2>3
    <3>2. Conn(new, t) = new.connections[k] /\ Conn(pool, t) = pool.connections[k]
      BY <1>1, <1>2, <2>1, <3>1, ConnOfSlot
    <3> QED
      BY <2>3, <3>1, <3>2
  <2> QED
    BY <2>2, <2>3
<1> QED
  BY <1>5, <1>6 DEF new, out

-----------------------------------------------------------------------------
(* The steps of one peer. *)

\* All that a peer does to a download, and to an upload.
Downloads(dn, s, out, new) ==
    \/ SameDownload(dn, new) /\ NoneOf(out, {"GET", "ACK"})
    \/ Begun(dn, out, new) \/ Reminded(dn, out, new)
    \/ ReadFrom(dn, s, out, new) \/ Ended(dn, s, out, new)

Uploads(up, r, out, new) ==
    \/ SameUpload(up, new) /\ NoneOf(out, {"DATA"})
    \/ Served(r, out, new) \/ Advanced(up, r, out, new)
    \/ Repeated(up, out, new)

\* A step of the downloader keeps the link in order.
LEMMA DownloaderMoves ==
    ASSUME NEW dn \in DownloadConnection \cup {NULL},
           NEW up \in UploadConnection \cup {NULL},
           NEW r \in Seq(Packet), NEW s \in Seq(Packet), LinkOK(dn, up, r, s),
           NEW dn2, NEW r2 \in Seq(Packet), NEW s2 \in Seq(Packet), NEW asked,
           Follows(r, asked, r2), Follows(s, <<>>, s2),
           Downloads(dn, s, asked, dn2), WINDOW < CHUNK_SIZE
    PROVE  LinkOK(dn2, up, r2, s2)
<1>1. NoneOf(<<>>, {"DATA"})
  BY DEF NoneOf
<1>2. SameUpload(up, up)
  BY DEF SameUpload
<1>3. CASE SameDownload(dn, dn2) /\ NoneOf(asked, {"GET", "ACK"})
  BY <1>1, <1>2, <1>3, QuietLink
<1>4. CASE Begun(dn, asked, dn2)
  BY <1>1, <1>2, <1>4, AsksLink
<1>5. CASE Reminded(dn, asked, dn2)
  BY <1>1, <1>2, <1>5, RemindsLink
<1>6. CASE ReadFrom(dn, s, asked, dn2)
  BY <1>1, <1>2, <1>6, ReadsLink
<1>7. CASE Ended(dn, s, asked, dn2)
  BY <1>1, <1>2, <1>7, EndsLink
<1> QED
  BY <1>3, <1>4, <1>5, <1>6, <1>7 DEF Downloads

\* A step of the uploader keeps the link in order.
LEMMA UploaderMoves ==
    ASSUME NEW dn \in DownloadConnection \cup {NULL},
           NEW up \in UploadConnection \cup {NULL},
           NEW r \in Seq(Packet), NEW s \in Seq(Packet), LinkOK(dn, up, r, s),
           NEW up2, NEW r2 \in Seq(Packet), NEW s2 \in Seq(Packet), NEW sent,
           Follows(r, <<>>, r2), Follows(s, sent, s2),
           Uploads(up, r, sent, up2)
    PROVE  LinkOK(dn, up2, r2, s2)
<1>1. NoneOf(<<>>, {"GET", "ACK"})
  BY DEF NoneOf
<1>2. SameDownload(dn, dn)
  BY DEF SameDownload
<1>3. CASE SameUpload(up, up2) /\ NoneOf(sent, {"DATA"})
  BY <1>1, <1>2, <1>3, QuietLink
<1>4. CASE Served(r, sent, up2)
  BY <1>1, <1>2, <1>4, ServesLink
<1>5. CASE Advanced(up, r, sent, up2)
  BY <1>1, <1>2, <1>5, AdvancesLink
<1>6. CASE Repeated(up, sent, up2)
  BY <1>1, <1>2, <1>6, RepeatsLink
<1> QED
  BY <1>3, <1>4, <1>5, <1>6 DEF Uploads

\* A step of neither keeps the link in order.
LEMMA NobodyMoves ==
    ASSUME NEW dn \in DownloadConnection \cup {NULL},
           NEW up \in UploadConnection \cup {NULL},
           NEW r \in Seq(Packet), NEW s \in Seq(Packet), LinkOK(dn, up, r, s),
           NEW r2 \in Seq(Packet), NEW s2 \in Seq(Packet),
           Follows(r, <<>>, r2), Follows(s, <<>>, s2)
    PROVE  LinkOK(dn, up, r2, s2)
<1>1. SameUpload(up, up) /\ NoneOf(<<>>, {"DATA"})
  BY DEF SameUpload, NoneOf
<1> QED
  BY <1>1, UploaderMoves DEF Uploads

-----------------------------------------------------------------------------
(* The invariant of all links. *)

Down(d, u) == Conn(download_pool[d], u)

Up(u, d) == Conn(upload_pool[u], d)

\* Every link is in order, and nobody talks to itself.
LinksOK ==
    /\ \A d, u \in Peer : d # u =>
        LinkOK(Down(d, u), Up(u, d), net[d][u], net[u][d])
    /\ \A p \in Peer :
        net[p][p] = <<>> /\ Down(p, p) = NULL /\ Up(p, p) = NULL

\* p takes packets off the network and sends out.
Sends(p, out) ==
    \A x, y \in Peer :
        Follows(net[x][y], IF x = p THEN out[y] ELSE <<>>, net'[x][y])

\* What p tells t of its download, which becomes new: as long as p runs, it
\* acknowledges what it has read, and it closes it with the last packet only.
Confirms(p, t, out, new) ==
    /\ run'[p] = "running" /\ new # NULL =>
        \A b \in DOMAIN out :
            out[b].type = "ACK" => out[b].ack_num < new.expected_seq
    /\ Down(p, t) # NULL /\ new = NULL =>
        \E i : FinishChunk(p, t, i) \/ FinishFile(p, t, i)

\* What one step of p may do to its links.
LinkStep(p, out) ==
    /\ Sends(p, out)
    /\ out[p] = <<>> /\ Down(p, p)' = NULL /\ Up(p, p)' = NULL
    /\ \A t \in Peer \ {p} :
        /\ Downloads(Down(p, t), net[t][p], out[t], Down(p, t)')
        /\ Uploads(Up(p, t), net[t][p], out[t], Up(p, t)')
        /\ Confirms(p, t, out[t], Down(p, t)')
        /\ download_pool'[t] = download_pool[t]
        /\ upload_pool'[t] = upload_pool[t]

\* The connections and the packets of a link.
LEMMA LinkTypes ==
    ASSUME TypeOK, NEW d \in Peer, NEW u \in Peer
    PROVE  /\ Down(d, u) \in DownloadConnection \cup {NULL}
           /\ Up(u, d) \in UploadConnection \cup {NULL}
           /\ net[d][u] \in Seq(Packet)
<1>1. /\ download_pool[d] \in PoolOf(max_conn[d], DownloadConnection)
      /\ upload_pool[u] \in PoolOf(max_conn[u], UploadConnection)
      /\ net[d][u] \in Seq(Packet)
  BY DEF TypeOK, ConnOK
<1> QED
  BY <1>1, PoolConstants, ConnType DEF Down, Up

\* A step of one peer keeps all links in order.
LEMMA LinkStepOK ==
    ASSUME TypeOK, TypeOK', LinksOK, WINDOW < CHUNK_SIZE,
           NEW p \in Peer, NEW out, LinkStep(p, out)
    PROVE  LinksOK'
<1>1. ASSUME NEW d \in Peer, NEW u \in Peer, d # u
      PROVE  LinkOK(Down(d, u), Up(u, d), net[d][u], net[u][d])'
  <2> DEFINE r2 == net'[d][u]
             s2 == net'[u][d]
             dn2 == Down(d, u)'
             up2 == Up(u, d)'
  <2>1. LinkOK(Down(d, u), Up(u, d), net[d][u], net[u][d])
    BY <1>1 DEF LinksOK
  <2>2. /\ Down(d, u) \in DownloadConnection \cup {NULL}
        /\ Up(u, d) \in UploadConnection \cup {NULL}
        /\ net[d][u] \in Seq(Packet) /\ net[u][d] \in Seq(Packet)
    BY LinkTypes
  <2>3. r2 \in Seq(Packet) /\ s2 \in Seq(Packet)
    BY DEF TypeOK
  <2>4. /\ Follows(net[d][u], IF d = p THEN out[u] ELSE <<>>, r2)
        /\ Follows(net[u][d], IF u = p THEN out[d] ELSE <<>>, s2)
    BY DEF LinkStep, Sends
  <2>5. d # p => dn2 = Down(d, u)
    BY DEF LinkStep, Down
  <2>6. u # p => up2 = Up(u, d)
    BY DEF LinkStep, Up
  <2>7. d = p => Downloads(Down(d, u), net[u][d], out[u], dn2)
    BY <1>1 DEF LinkStep
  <2>8. u = p => Uploads(Up(u, d), net[d][u], out[d], up2)
    BY <1>1 DEF LinkStep
  <2> HIDE DEF r2, s2, dn2, up2
  <2>9. LinkOK(dn2, up2, r2, s2)
    <3>1. CASE d = p
      BY <1>1, <2>1, <2>2, <2>3, <2>4, <2>6, <2>7, <3>1, DownloaderMoves
    <3>2. CASE u = p
      BY <1>1, <2>1, <2>2, <2>3, <2>4, <2>5, <2>8, <3>2, UploaderMoves
    <3>3. CASE d # p /\ u # p
      BY <2>1, <2>2, <2>3, <2>4, <2>5, <2>6, <3>3, NobodyMoves
    <3> QED
      BY <3>1, <3>2, <3>3
  <2> QED
    BY <2>9 DEF r2, s2, dn2, up2
<1>2. ASSUME NEW x \in Peer
      PROVE  net'[x][x] = <<>> /\ Down(x, x)' = NULL /\ Up(x, x)' = NULL
  <2>1. net[x][x] = <<>> /\ Down(x, x) = NULL /\ Up(x, x) = NULL
    BY DEF LinksOK
  <2> DEFINE new == net'[x][x]
  <2>2. Follows(<<>>, <<>>, new)
    BY <2>1 DEF LinkStep, Sends
  <2>3. new \in Seq(Packet)
    BY DEF TypeOK
  <2> HIDE DEF new
  <2>4. \A i \in DOMAIN new : FALSE
    BY <2>2 DEF Follows
  <2>5. Len(new) = 0
    BY <2>3, <2>4
  <2>6. new = <<>>
    BY <2>3, <2>5, EmptySeq
  <2>7. Down(x, x)' = NULL /\ Up(x, x)' = NULL
    BY <2>1 DEF LinkStep, Down, Up
  <2> QED
    BY <2>6, <2>7 DEF new
<1> QED
  BY <1>1, <1>2 DEF LinksOK

-----------------------------------------------------------------------------
(* What is sent keeps the order of the links. *)

\* Posting.
LEMMA PostFollows ==
    ASSUME NEW N \in NetOf(Packet), NEW p \in Peer, NEW out \in OutOf(Packet),
           NEW reachable, NEW x \in Peer, NEW y \in Peer
    PROVE  Follows(N[x][y], IF x = p THEN out[y] ELSE <<>>,
                   Post(N, p, out, reachable)[x][y])
<1>1. N[x][y] \in Seq(Packet) /\ out[y] \in Seq(Packet)
  BY DEF NetOf, OutOf
<1>2. Post(N, p, out, reachable)[x][y]
      = IF x = p /\ y \in reachable THEN EnQ(N[x][y], out[y]) ELSE N[x][y]
  BY DEF Post, NetOf
<1> QED
  BY <1>1, <1>2, EnQFollows, NothingFollows

\* Taking a packet off the network.
LEMMA WithoutFollows ==
    ASSUME NEW N \in NetOf(Packet), NEW p \in Peer, NEW q \in Peer,
           NEW i \in DOMAIN N[q][p], NEW x \in Peer, NEW y \in Peer,
           NEW out, NEW new, Follows(Without(N, q, p, i)[x][y], out, new)
    PROVE  Follows(N[x][y], out, new)
<1>1. N[x][y] \in Seq(Packet)
  BY DEF NetOf
<1>2. Without(N, q, p, i)[x][y]
      = IF x = q /\ y = p THEN RemoveAt(N[x][y], i) ELSE N[x][y]
  BY DEF Without, NetOf
<1> QED
  BY <1>1, <1>2, RemoveAtFollows

\* Closing the socket of p.
LEMMA UnpluggedFollows ==
    ASSUME NEW N \in NetOf(Packet), NEW M \in NetOf(Packet), NEW p \in Peer,
           NEW x \in Peer, NEW y \in Peer, NEW out,
           Follows(N[x][y], out, M[x][y])
    PROVE  Follows(N[x][y], out, Unplugged(M, p)[x][y])
<1>1. Unplugged(M, p)[x][y] = IF y = p THEN <<>> ELSE M[x][y]
  BY DEF Unplugged, NetOf
<1> QED
  BY <1>1, NothingFollows

\* An answer, and what a peer sends before it crashes.
LEMMA AnswerSends ==
    ASSUME TypeOK, NEW p \in Peer, NEW q \in Peer, NEW i \in DOMAIN net[q][p],
           NEW out \in OutOf(Packet), Answer(p, q, i, out) \/ Crash(p, q, i, out)
    PROVE  Sends(p, out)
<1> DEFINE rest == Without(net, q, p, i)
           new == Post(rest, p, out, Running)
<1>1. net \in NetOf(Packet) /\ rest \in NetOf(Packet) /\ new \in NetOf(Packet)
  <2>1. net \in NetOf(Packet)
    BY DEF TypeOK, NetOf
  <2>2. rest \in NetOf(Packet)
    BY <2>1, WithoutType
  <2> QED
    BY <2>1, <2>2, PostType
<1>2. ASSUME NEW x \in Peer, NEW y \in Peer
      PROVE  Follows(net[x][y], IF x = p THEN out[y] ELSE <<>>, new[x][y])
  <2>1. Follows(rest[x][y], IF x = p THEN out[y] ELSE <<>>, new[x][y])
    BY <1>1, PostFollows
  <2> QED
    BY <1>1, <2>1, WithoutFollows
<1>3. net' = new \/ net' = Unplugged(new, p)
  BY DEF Answer, Crash
<1> HIDE DEF rest, new
<1> QED
  BY <1>1, <1>2, <1>3, UnpluggedFollows DEF Sends

\* A request, a timeout, a packet that is lost, and a peer that is killed.
LEMMA OtherSends ==
    ASSUME TypeOK, NEW p \in Peer, NEW out \in OutOf(Packet),
           \/ net' = Post(net, p, out, Running)
           \/ out = Silence /\ net' = Unplugged(net, p)
           \/ out = Silence /\ \E x, y \in Peer : \E i \in DOMAIN net[x][y] :
                                   net' = Without(net, x, y, i)
    PROVE  Sends(p, out)
<1>1. net \in NetOf(Packet)
  BY DEF TypeOK, NetOf
<1>2. CASE net' = Post(net, p, out, Running)
  BY <1>1, <1>2, PostFollows DEF Sends
<1>3. \A x, y \in Peer : (IF x = p THEN Silence[y] ELSE <<>>) = <<>>
  BY DEF Silence
<1>4. CASE out = Silence /\ net' = Unplugged(net, p)
  <2>1. \A x, y \in Peer : Follows(net[x][y], <<>>, Unplugged(net, p)[x][y])
    BY <1>1, NothingFollows, UnpluggedFollows
  <2> QED
    BY <1>3, <1>4, <2>1 DEF Sends
<1>5. ASSUME out = Silence, NEW a \in Peer, NEW b \in Peer,
             NEW i \in DOMAIN net[a][b], net' = Without(net, a, b, i)
      PROVE  Sends(p, out)
  <2>1. \A x, y \in Peer : Follows(net'[x][y], <<>>, net'[x][y])
    BY NothingFollows
  <2>2. \A x, y \in Peer : Follows(net[x][y], <<>>, net'[x][y])
    BY <1>1, <1>5, <2>1, WithoutFollows
  <2> QED
    BY <1>3, <1>5, <2>2 DEF Sends
<1> QED
  BY <1>2, <1>4, <1>5

\* The packets of a window: of the chunk, numbered from next to available.
LEMMA WindowPackets ==
    ASSUME NEW c \in UploadConnection
    PROVE  /\ \A b \in DOMAIN Window(c) :
                /\ Window(c)[b].type = "DATA"
                /\ Window(c)[b].sha1 = c.sha1
                /\ Window(c)[b].seq_num \in c.next .. c.available
           /\ \A a, b \in DOMAIN Window(c) :
                a < b => Window(c)[a].seq_num < Window(c)[b].seq_num
<1>1. c.next \in Nat \ {0} /\ c.available \in Nat
  BY CHUNK_SIZE_Assumption DEF UploadConnection
<1> DEFINE n == c.next
           m == c.available
<1>2. /\ DOMAIN Window(c) = 1 .. m - n + 1
      /\ \A b \in 1 .. m - n + 1 : Window(c)[b] = DATA(n + b - 1, c.sha1)
  BY DEF Window
<1>3. \A b \in 1 .. m - n + 1 : /\ Window(c)[b].type = "DATA"
                                /\ Window(c)[b].sha1 = c.sha1
                                /\ Window(c)[b].seq_num = n + b - 1
  BY <1>2 DEF DATA
<1>4. n \in Nat \ {0} /\ m \in Nat
  BY <1>1
<1> HIDE DEF n, m
<1>5. \A b \in 1 .. m - n + 1 : n + b - 1 \in n .. m
  BY <1>4
<1>6. \A a, b \in 1 .. m - n + 1 : a < b => n + a - 1 < n + b - 1
  BY <1>4
<1>7. \A b \in DOMAIN Window(c) : Window(c)[b].seq_num \in n .. m
  BY <1>2, <1>3, <1>5
<1>8. \A a, b \in DOMAIN Window(c) :
        a < b => Window(c)[a].seq_num < Window(c)[b].seq_num
  BY <1>2, <1>3, <1>6
<1> QED
  BY <1>2, <1>3, <1>7, <1>8 DEF n, m

-----------------------------------------------------------------------------
(* Every handler is such a step.  The network keeps the order of packets, so *)
(* that a handler takes the oldest packet of a link.                         *)

\* The packet a handler takes.
LEMMA OldestPacket ==
    ASSUME TypeOK, LinksOK, ~Reordered,
           NEW p \in Peer, NEW q \in Peer, NEW i, NEW type, Arrives(p, q, i, type)
    PROVE  /\ p # q /\ i = 1 /\ 1 \in DOMAIN net[q][p]
           /\ net[q][p][1] \in Packet
           /\ net[q][p][1].type = type
<1>1. /\ i \in DOMAIN net[q][p] /\ i = 1
      /\ net[q][p][i] \in Packet /\ net[q][p][i].type = type
  BY ArrivingPacket DEF Arrives
<1>2. \A x \in Peer : DOMAIN net[x][x] = {}
  BY DEF LinksOK
<1> QED
  BY <1>1, <1>2

\* The pools of p change into D and U, those of other peers do not.
PoolsChange(p, D, U) ==
    /\ download_pool'[p] = D /\ upload_pool'[p] = U
    /\ \A t \in Peer \ {p} : /\ download_pool'[t] = download_pool[t]
                             /\ upload_pool'[t] = upload_pool[t]

\* EXCEPT changes the pools of one peer.
LEMMA ChangedPools ==
    ASSUME TypeOK, NEW p \in Peer, NEW D, NEW U,
           \/ download_pool' = [download_pool EXCEPT ![p] = D]
           \/ D = download_pool[p] /\ UNCHANGED download_pool,
           \/ upload_pool' = [upload_pool EXCEPT ![p] = U]
           \/ U = upload_pool[p] /\ UNCHANGED upload_pool
    PROVE  PoolsChange(p, D, U)
  BY DEF TypeOK, ConnOK, PoolsChange

\* A download that stays, and nothing is acknowledged.
LEMMA NothingToConfirm ==
    ASSUME NEW p, NEW t, NEW out, NoneOf(out, {"ACK"}),
           NEW new, Down(p, t) = NULL \/ new # NULL
    PROVE  Confirms(p, t, out, new)
<1>1. \A b \in DOMAIN out : out[b].type # "ACK"
  BY DEF NoneOf
<1> QED
  BY <1>1 DEF Confirms

\* A handler that changes the connections with q at most, and whose other
\* packets are requests and offers.
LEMMA OneLinkMoves ==
    ASSUME LinksOK, NEW p \in Peer, NEW q \in Peer, p # q,
           NEW out \in OutOf(Packet), Sends(p, out), out[p] = <<>>,
           \A t \in Peer \ {p, q} : NoneOf(out[t], {"GET", "DATA", "ACK"}),
           NEW D, NEW U, PoolsChange(p, D, U),
           \A t \in Peer \ {q} : Conn(D, t) = Down(p, t) /\ Conn(U, t) = Up(p, t),
           Downloads(Down(p, q), net[q][p], out[q], Conn(D, q)),
           Uploads(Up(p, q), net[q][p], out[q], Conn(U, q)),
           Confirms(p, q, out[q], Conn(D, q))
    PROVE  LinkStep(p, out)
<1>1. \A t : Down(p, t)' = Conn(D, t) /\ Up(p, t)' = Conn(U, t)
  BY DEF PoolsChange, Down, Up
<1>2. \A x : SameDownload(x, x) /\ SameUpload(x, x)
  BY DEF SameDownload, SameUpload
<1>3. ASSUME NEW t \in Peer \ {p, q}
      PROVE  /\ Downloads(Down(p, t), net[t][p], out[t], Down(p, t)')
             /\ Uploads(Up(p, t), net[t][p], out[t], Up(p, t)')
             /\ Confirms(p, t, out[t], Down(p, t)')
  <2>1. /\ NoneOf(out[t], {"GET", "ACK"}) /\ NoneOf(out[t], {"DATA"})
        /\ NoneOf(out[t], {"ACK"})
    BY DEF NoneOf
  <2>2. Down(p, t)' = Down(p, t) /\ Up(p, t)' = Up(p, t)
    BY <1>1
  <2>3. /\ Downloads(Down(p, t), net[t][p], out[t], Down(p, t)')
        /\ Uploads(Up(p, t), net[t][p], out[t], Up(p, t)')
    BY <1>2, <2>1, <2>2, Zenon DEF Downloads, Uploads
  <2>4. Confirms(p, t, out[t], Down(p, t))
    BY <2>1, NothingToConfirm
  <2> QED
    BY <2>2, <2>3, <2>4
<1>4. Down(p, p) = NULL /\ Up(p, p) = NULL
  BY DEF LinksOK
<1> QED
  BY <1>1, <1>3, <1>4 DEF LinkStep, PoolsChange

\* A handler that leaves the pools alone and sends requests and offers.
LEMMA NoLinkMoves ==
    ASSUME LinksOK, NEW p \in Peer, NEW out, Sends(p, out), out[p] = <<>>,
           \A t \in Peer : NoneOf(out[t], {"GET", "DATA", "ACK"}),
           UNCHANGED <<download_pool, upload_pool>>
    PROVE  LinkStep(p, out)
<1>1. \A t : Down(p, t)' = Down(p, t) /\ Up(p, t)' = Up(p, t)
  BY DEF Down, Up
<1>2. \A x : SameDownload(x, x) /\ SameUpload(x, x)
  BY DEF SameDownload, SameUpload
<1>3. \A t \in Peer : NoneOf(out[t], {"GET", "ACK"}) /\ NoneOf(out[t], {"DATA"})
  BY DEF NoneOf
<1>4. \A t \in Peer : /\ Downloads(Down(p, t), net[t][p], out[t], Down(p, t)')
                      /\ Uploads(Up(p, t), net[t][p], out[t], Up(p, t)')
  BY <1>1, <1>2, <1>3, Zenon DEF Downloads, Uploads
<1>5. Down(p, p) = NULL /\ Up(p, p) = NULL
  BY DEF LinksOK
<1>6. \A t \in Peer : Confirms(p, t, out[t], Down(p, t))
  <2>1. \A t \in Peer : NoneOf(out[t], {"ACK"})
    BY DEF NoneOf
  <2> QED
    BY <2>1, NothingToConfirm
<1> QED
  BY <1>1, <1>4, <1>5, <1>6 DEF LinkStep

\* What is sent to one peer.
LEMMA SentTo ==
    ASSUME NEW p \in Peer, NEW q \in Peer, p # q, NEW packets \in Seq(Packet)
    PROVE  /\ To(q, packets) \in OutOf(Packet)
           /\ To(q, packets)[q] = packets /\ To(q, packets)[p] = <<>>
           /\ \A t \in Peer \ {p, q} :
                NoneOf(To(q, packets)[t], {"GET", "DATA", "ACK"})
           /\ Silence \in OutOf(Packet)
           /\ Silence[p] = <<>>
           /\ \A t \in Peer : \A types : NoneOf(Silence[t], types)
<1>1. \A types : NoneOf(<<>>, types)
  BY DEF NoneOf
<1> QED
  BY <1>1 DEF To, Silence, OutOf

\* The connections of p, and what NULL means.
LEMMA ConnectionsOf ==
    ASSUME TypeOK, PoolsConsistent, NEW p \in Peer, NEW q
    PROVE  /\ Down(p, q) \in DownloadConnection \cup {NULL}
           /\ Up(p, q) \in UploadConnection \cup {NULL}
           /\ Connected(download_pool[p], q) <=> Down(p, q) # NULL
           /\ Connected(upload_pool[p], q) <=> Up(p, q) # NULL
           /\ Connected(download_pool[p], q) =>
                /\ Down(p, q) = Find(download_pool[p], q)
                /\ Down(p, q) \in DownloadConnection /\ Down(p, q).peer = q
           /\ Connected(upload_pool[p], q) =>
                /\ Up(p, q) = Find(upload_pool[p], q)
                /\ Up(p, q) \in UploadConnection /\ Up(p, q).peer = q
  BY PoolsOfPeer, PoolConstants, ConnType DEF Down, Up

\* process_WHOHAS, and the packets that are ignored.
LEMMA IgnoredLink ==
    ASSUME TypeOK, PoolsConsistent, LinksOK, ~Reordered,
           NEW p \in Peer, NEW q \in Peer, NEW i,
           \/ ProcessWHOHAS(p, q, i) \/ IgnoreIHAVE(p, q, i)
           \/ CrashOnIHAVE(p, q, i) \/ IgnoreDATA(p, q, i)
           \/ IgnoreACK(p, q, i) \/ StaleACK(p, q, i)
    PROVE  \E out : LinkStep(p, out)
<1>1. /\ i \in DOMAIN net[q][p] /\ p # q
      /\ UNCHANGED <<download_pool, upload_pool>>
  <2>1. \E type : Arrives(p, q, i, type)
    BY DEF ProcessWHOHAS, IgnoreIHAVE, CrashOnIHAVE, IgnoreDATA, IgnoreACK,
           StaleACK, AckArrives
  <2>2. UNCHANGED <<download_pool, upload_pool>>
    BY DEF ProcessWHOHAS, IgnoreIHAVE, CrashOnIHAVE, IgnoreDATA, IgnoreACK,
           StaleACK, connVars
  <2> QED
    BY <2>1, <2>2, OldestPacket DEF Arrives
<1>2. CASE ProcessWHOHAS(p, q, i)
  <2> DEFINE offer == OfferFrom(chunks_IHAVE[p], net[q][p][i].chunks)
             out == IF DOMAIN offer = {} THEN Silence ELSE To(q, <<IHAVE(offer)>>)
  <2>1. Arrives(p, q, i, "WHOHAS") /\ Answer(p, q, i, out)
    BY <1>2 DEF ProcessWHOHAS
  <2>2. IHAVE(offer) \in Packet
    <3>1. net[q][p][i].chunks \in Payload
      BY <2>1, ArrivingPacket, PacketFields
    <3>2. offer \in Payload
      BY <3>1, RestrictedType DEF OfferFrom
    <3> QED
      BY <3>2, PacketTypes
  <2>3. <<IHAVE(offer)>> \in Seq(Packet)
    BY <2>2, OnePacket
  <2>4. NoneOf(<<IHAVE(offer)>>, {"GET", "DATA", "ACK"})
    BY DEF NoneOf, IHAVE
  <2>5. /\ out \in OutOf(Packet) /\ out[p] = <<>>
        /\ \A t \in Peer : NoneOf(out[t], {"GET", "DATA", "ACK"})
    <3> DEFINE packets == <<IHAVE(offer)>>
    <3>1. packets \in Seq(Packet) /\ NoneOf(packets, {"GET", "DATA", "ACK"})
      BY <2>3, <2>4
    <3>2. out = Silence \/ out = To(q, packets)
      OBVIOUS
    <3> HIDE DEF packets, out
    <3>3. NoneOf(<<>>, {"GET", "DATA", "ACK"})
      BY DEF NoneOf
    <3> QED
      BY <1>1, <3>1, <3>2, <3>3, SentTo
  <2> HIDE DEF out
  <2>6. Sends(p, out)
    BY <1>1, <2>1, <2>5, AnswerSends
  <2> QED
    BY <1>1, <2>5, <2>6, NoLinkMoves
<1>3. CASE Answer(p, q, i, Silence) \/ Crash(p, q, i, Silence)
  <2>1. /\ Silence \in OutOf(Packet) /\ Silence[p] = <<>>
        /\ \A t \in Peer : NoneOf(Silence[t], {"GET", "DATA", "ACK"})
    <3>1. <<>> \in Seq(Packet)
      OBVIOUS
    <3> QED
      BY <1>1, <3>1, SentTo
  <2>2. Sends(p, Silence)
    BY <1>1, <1>3, <2>1, AnswerSends
  <2> QED
    BY <1>1, <2>1, <2>2, NoLinkMoves
<1> QED
  BY <1>2, <1>3 DEF IgnoreIHAVE, CrashOnIHAVE, IgnoreDATA, IgnoreACK, StaleACK

\* process_IHAVE: the download begins with a GET.
LEMMA StartDownloadLink ==
    ASSUME TypeOK, PoolsConsistent, LinksOK, ~Reordered,
           NEW p \in Peer, NEW q \in Peer, NEW i,
           StartDownload(p, q, i)
    PROVE  \E out : LinkStep(p, out)
<1>1. PICK h \in Hash :
        /\ download_pool' = [download_pool EXCEPT ![p] =
               AddTo(download_pool[p], NewDownload(q, h))]
        /\ Answer(p, q, i, To(q, <<GET(h)>>))
  <2>1. PICK st :
          /\ Startable(chunks[p], st, net[q][p][i].chunks) # {}
          /\ download_pool' = [download_pool EXCEPT ![p] =
                AddTo(download_pool[p], NewDownload(q,
                    Chosen(chunks[p], st, net[q][p][i].chunks)))]
          /\ Answer(p, q, i, To(q,
                    <<GET(Chosen(chunks[p], st, net[q][p][i].chunks))>>))
    BY DEF StartDownload
  <2>2. net[q][p][i].chunks \in Payload /\ chunks[p] \in Seq(Hash)
    <3>1. Arrives(p, q, i, "IHAVE")
      BY DEF StartDownload
    <3>2. chunks[p] \in Seq(Hash)
      BY DEF TypeOK, TableOK
    <3> QED
      BY <3>1, <3>2, ArrivingPacket, PacketFields
  <2> QED
    BY <2>1, <2>2, ChosenChunk
<1> DEFINE c == NewDownload(q, h)
           D == AddTo(download_pool[p], c)
           out == To(q, <<GET(h)>>)
<1>2. p # q /\ i \in DOMAIN net[q][p] /\ UNCHANGED upload_pool
  BY OldestPacket DEF StartDownload, Arrives
<1>3. ~Connected(download_pool[p], q) /\ download_pool[p].size < max_conn[p]
  BY PoolsOfPeer DEF StartDownload, HasNoRoomFor, PoolOf
<1>4. c \in DownloadConnection /\ c.peer = q
  BY NewConnections DEF NewDownload
<1>5. \A t : Conn(D, t) = IF t = q THEN c ELSE Down(p, t)
  BY <1>3, <1>4, PoolsOfPeer, PoolConstants, ConnAdded DEF Down
<1>6. PoolsChange(p, D, upload_pool[p])
  BY <1>1, <1>2, ChangedPools
<1>7. /\ <<GET(h)>> \in Seq(Packet)
      /\ out \in OutOf(Packet) /\ out[p] = <<>> /\ out[q] = <<GET(h)>>
      /\ \A t \in Peer \ {p, q} : NoneOf(out[t], {"GET", "DATA", "ACK"})
  <2>1. <<GET(h)>> \in Seq(Packet)
    BY PacketTypes, OnePacket
  <2> QED
    BY <1>2, <2>1, SentTo
<1>8. Sends(p, out)
  BY <1>1, <1>2, <1>7, AnswerSends
<1>9. Downloads(Down(p, q), net[q][p], out[q], Conn(D, q))
  <2>1. Down(p, q) = NULL
    BY <1>3, ConnectionsOf
  <2>2. /\ c # NULL /\ c.expected_seq = 1 /\ c.intact = TRUE /\ c.sha1 = h
    BY <1>4, PoolConstants DEF NewDownload
  <2>3. NoneOf(<<GET(h)>>, {"ACK"})
    BY DEF NoneOf, GET
  <2>4. \A b \in DOMAIN <<GET(h)>> : <<GET(h)>>[b].sha1 = h
    BY DEF GET
  <2> HIDE DEF c, D, out
  <2>5. Begun(Down(p, q), out[q], Conn(D, q))
    BY <1>5, <1>7, <2>1, <2>2, <2>3, <2>4 DEF Begun
  <2> QED
    BY <2>5 DEF Downloads
<1>10. Uploads(Up(p, q), net[q][p], out[q], Conn(upload_pool[p], q))
  <2>1. NoneOf(<<GET(h)>>, {"DATA"})
    BY DEF NoneOf, GET
  <2> HIDE DEF out
  <2> QED
    BY <1>7, <2>1 DEF Uploads, SameUpload, Up
<1> HIDE DEF c, D, out
<1>11. \A t \in Peer \ {q} : /\ Conn(D, t) = Down(p, t)
                           /\ Conn(upload_pool[p], t) = Up(p, t)
  BY <1>5 DEF Up
<1>12. Confirms(p, q, out[q], Conn(D, q))
  <2>1. NoneOf(<<GET(h)>>, {"ACK"})
    BY DEF NoneOf, GET
  <2>2. Conn(D, q) # NULL
    BY <1>4, <1>5, PoolConstants
  <2> QED
    BY <1>7, <2>1, <2>2, NothingToConfirm
<1> QED
  BY <1>2, <1>6, <1>7, <1>8, <1>9, <1>10, <1>11, <1>12, OneLinkMoves

\* The download connection with q stays; the upload connection becomes c, or is
\* closed, and out is sent to q.
LEMMA UploadMoves ==
    ASSUME TypeOK, PoolsConsistent, LinksOK, ~Reordered,
           NEW p \in Peer, NEW q \in Peer, NEW i,
           p # q, i \in DOMAIN net[q][p],
           NEW packets \in Seq(Packet), Answer(p, q, i, To(q, packets)),
           UNCHANGED download_pool, NoneOf(packets, {"GET", "ACK"}),
           NEW U, upload_pool' = [upload_pool EXCEPT ![p] = U], NEW c,
           \A t : Conn(U, t) = IF t = q THEN c ELSE Up(p, t),
           Uploads(Up(p, q), net[q][p], packets, c)
    PROVE  \E out : LinkStep(p, out)
<1> DEFINE D == download_pool[p]
           out == To(q, packets)
<1>1. PoolsChange(p, D, U)
  BY ChangedPools
<1>2. /\ out \in OutOf(Packet) /\ out[p] = <<>> /\ out[q] = packets
      /\ \A t \in Peer \ {p, q} : NoneOf(out[t], {"GET", "DATA", "ACK"})
  BY SentTo
<1>3. Sends(p, out)
  BY <1>2, AnswerSends
<1>4. \A t \in Peer \ {q} : Conn(D, t) = Down(p, t) /\ Conn(U, t) = Up(p, t)
  BY DEF Down
<1>5. Downloads(Down(p, q), net[q][p], out[q], Conn(D, q))
  BY <1>2 DEF Downloads, SameDownload, Down
<1>6. Uploads(Up(p, q), net[q][p], out[q], Conn(U, q))
  BY <1>2
<1>7. Confirms(p, q, out[q], Conn(D, q))
  <2>1. NoneOf(packets, {"ACK"})
    BY DEF NoneOf
  <2>2. Confirms(p, q, packets, Down(p, q))
    BY <2>1, NothingToConfirm
  <2> QED
    BY <1>2, <2>2 DEF Down
<1> HIDE DEF D, out
<1> QED
  BY <1>1, <1>2, <1>3, <1>4, <1>5, <1>6, <1>7, OneLinkMoves

\* The upload connection stays; the download connection becomes c, or is
\* closed, and out is sent.
LEMMA DownloadMoves ==
    ASSUME TypeOK, PoolsConsistent, LinksOK, ~Reordered,
           NEW p \in Peer, NEW q \in Peer, NEW i,
           p # q, i \in DOMAIN net[q][p],
           NEW out \in OutOf(Packet), out[p] = <<>>,
           \A t \in Peer \ {p, q} : NoneOf(out[t], {"GET", "DATA", "ACK"}),
           Answer(p, q, i, out),
           UNCHANGED upload_pool, NoneOf(out[q], {"DATA"}),
           NEW D, download_pool' = [download_pool EXCEPT ![p] = D], NEW c,
           \A t : Conn(D, t) = IF t = q THEN c ELSE Down(p, t),
           Downloads(Down(p, q), net[q][p], out[q], c),
           Confirms(p, q, out[q], c)
    PROVE  \E o : LinkStep(p, o)
<1> DEFINE U == upload_pool[p]
<1>1. PoolsChange(p, D, U)
  BY ChangedPools
<1>2. Sends(p, out)
  BY AnswerSends
<1>3. \A t \in Peer \ {q} : Conn(D, t) = Down(p, t) /\ Conn(U, t) = Up(p, t)
  BY DEF Up
<1>4. Uploads(Up(p, q), net[q][p], out[q], Conn(U, q))
  BY DEF Uploads, SameUpload, Up
<1>5. /\ Downloads(Down(p, q), net[q][p], out[q], Conn(D, q))
      /\ Confirms(p, q, out[q], Conn(D, q))
  OBVIOUS
<1> HIDE DEF U
<1> QED
  BY <1>1, <1>2, <1>3, <1>4, <1>5, OneLinkMoves

\* Nothing is sent to q, and its upload connection is closed.
LEMMA ClosedLink ==
    ASSUME TypeOK, PoolsConsistent, LinksOK, ~Reordered,
           NEW p \in Peer, NEW q \in Peer, NEW i,
           RefuseGET(p, q, i) \/ FinishUpload(p, q, i)
    PROVE  \E out : LinkStep(p, out)
<1> DEFINE U == RemoveFrom(upload_pool[p], q)
<1>1. /\ upload_pool' = [upload_pool EXCEPT ![p] = U]
      /\ UNCHANGED download_pool
      /\ Answer(p, q, i, Silence)
      /\ Arrives(p, q, i, "GET") \/ Arrives(p, q, i, "ACK")
  BY DEF RefuseGET, FinishUpload
<1>2. p # q /\ i \in DOMAIN net[q][p]
  BY <1>1, OldestPacket DEF Arrives
<1>3. \A t : Conn(U, t) = IF t = q THEN NULL ELSE Up(p, t)
  BY PoolsOfPeer, PoolConstants, ConnRemoved DEF Up
<1>4. /\ <<>> \in Seq(Packet) /\ Silence = To(q, <<>>)
      /\ NoneOf(<<>>, {"GET", "ACK"}) /\ NoneOf(<<>>, {"DATA"})
  BY DEF Silence, To, NoneOf
<1>5. Uploads(Up(p, q), net[q][p], <<>>, NULL)
  BY <1>4 DEF Uploads, SameUpload
<1> HIDE DEF U
<1> QED
  BY <1>1, <1>2, <1>3, <1>4, <1>5, UploadMoves

\* process_GET: a new upload connection sends its first window.
LEMMA AcceptGETLink ==
    ASSUME TypeOK, PoolsConsistent, LinksOK, ~Reordered,
           NEW p \in Peer, NEW q \in Peer, NEW i,
           AcceptGET(p, q, i)
    PROVE  \E out : LinkStep(p, out)
<1> DEFINE h == net[q][p][1].sha1
           new == NewUpload(q, h)
           pool == RemoveFrom(upload_pool[p], q)
           U == AddTo(pool, Sent(new))
<1>1. /\ p # q /\ i = 1 /\ 1 \in DOMAIN net[q][p]
      /\ net[q][p][1] \in Packet /\ net[q][p][1].type = "GET"
  BY OldestPacket DEF AcceptGET
<1>2. /\ upload_pool' = [upload_pool EXCEPT ![p] = U]
      /\ UNCHANGED download_pool
      /\ Answer(p, q, i, To(q, Window(new)))
      /\ pool.size < max_conn[p]
  BY <1>1 DEF AcceptGET
<1>3. h \in Hash
  BY <1>1, PacketFields
<1>4. /\ new \in UploadConnection
      /\ new.next = 1 /\ new.available = WINDOW
      /\ new.sha1 = h /\ new.last_acked = 0 /\ new.peer = q
  BY <1>3, NewConnections DEF NewUpload
<1> HIDE DEF h, new
<1>5. /\ Sent(new) \in UploadConnection
      /\ Sent(new).sha1 = h /\ Sent(new).last_acked = 0 /\ Sent(new).peer = q
  <2>1. Sent(new) \in UploadConnection
    BY <1>4, SentType
  <2>2. /\ Sent(new).sha1 = new.sha1 /\ Sent(new).last_acked = new.last_acked
        /\ Sent(new).peer = new.peer
    BY <1>4 DEF Sent, UploadConnection
  <2> QED
    BY <1>4, <2>1, <2>2
<1>6. \A t : Conn(U, t) = IF t = q THEN Sent(new) ELSE Up(p, t)
  <2>1. /\ pool \in PoolOf(max_conn[p], UploadConnection)
        /\ Consistent(pool) /\ ~Connected(pool, q)
    BY PoolsOfPeer, PoolConstants, RemoveFromType, RemoveFromConsistent
  <2>2. \A t : Conn(pool, t) = IF t = q THEN NULL ELSE Up(p, t)
    BY PoolsOfPeer, PoolConstants, ConnRemoved DEF Up
  <2> HIDE DEF pool
  <2>3. \A t : Conn(U, t) = IF t = q THEN Sent(new) ELSE Conn(pool, t)
    BY <1>2, <1>5, <2>1, PoolsOfPeer, PoolConstants, ConnAdded
  <2> QED
    BY <2>2, <2>3
<1>7. Window(new) \in Seq(Packet)
  BY <1>4, WindowType
<1>8. \A b \in DOMAIN Window(new) : /\ Window(new)[b].type = "DATA"
                                  /\ Window(new)[b].sha1 = h
                                  /\ Window(new)[b].seq_num \in 1 .. WINDOW
  BY <1>4, WindowPackets
<1>9. NoneOf(Window(new), {"GET", "ACK"})
  BY <1>8 DEF NoneOf
<1>10. Uploads(Up(p, q), net[q][p], Window(new), Sent(new))
  <2>1. Sent(new) # NULL
    BY <1>5, PoolConstants
  <2>2. Served(net[q][p], Window(new), Sent(new))
    BY <1>1, <1>5, <1>8, <2>1 DEF Served, h
  <2> QED
    BY <2>2 DEF Uploads
<1> HIDE DEF U
<1> QED
  BY <1>1, <1>2, <1>6, <1>7, <1>9, <1>10, UploadMoves

\* Sequences behind each other hold what each of them holds.
LEMMA ConcatElements ==
    ASSUME NEW a \in Seq(Packet), NEW b \in Seq(Packet)
    PROVE  /\ \A i \in DOMAIN (a \o b) :
                \/ \E j \in DOMAIN a : (a \o b)[i] = a[j]
                \/ \E j \in DOMAIN b : (a \o b)[i] = b[j]
           /\ \A types : NoneOf(a, types) /\ NoneOf(b, types)
                           => NoneOf(a \o b, types)
<1> DEFINE all == a \o b
           n == Len(a)
           m == Len(b)
<1>1. /\ n \in Nat /\ m \in Nat
      /\ DOMAIN a = 1 .. n /\ DOMAIN b = 1 .. m
      /\ DOMAIN all = 1 .. n + m
      /\ \A i \in 1 .. n + m : all[i] = IF i <= n THEN a[i] ELSE b[i - n]
  BY ConcatProperties
<1> HIDE DEF all, n, m
<1>2. \A i \in DOMAIN all :
        \/ i \in DOMAIN a /\ all[i] = a[i]
        \/ i - n \in DOMAIN b /\ all[i] = b[i - n]
  BY <1>1
<1>3. \A i \in DOMAIN all : \/ \E j \in DOMAIN a : all[i] = a[j]
                            \/ \E j \in DOMAIN b : all[i] = b[j]
  BY <1>2
<1>4. \A types : NoneOf(a, types) /\ NoneOf(b, types) => NoneOf(all, types)
  BY <1>3 DEF NoneOf
<1> QED
  BY <1>3, <1>4 DEF all

\* process_DATA, a packet that is not the one expected.
LEMMA RejectDATALink ==
    ASSUME TypeOK, PoolsConsistent, LinksOK, ~Reordered,
           NEW p \in Peer, NEW q \in Peer, NEW i,
           RejectDATA(p, q, i)
    PROVE  \E out : LinkStep(p, out)
<1> DEFINE c == Find(download_pool[p], q)
           new == [c EXCEPT !.overtime_count = 0]
           D == Update(download_pool[p], q, new)
           packets == <<AckAgain(c)>>
           out == To(q, packets)
<1>1. p # q /\ i \in DOMAIN net[q][p]
  BY OldestPacket DEF RejectDATA, Arrives
<1>2. /\ Connected(download_pool[p], q)
      /\ download_pool' = [download_pool EXCEPT ![p] = D]
      /\ UNCHANGED upload_pool
      /\ Answer(p, q, i, out)
  BY DEF RejectDATA
<1>3. c \in DownloadConnection /\ c.peer = q /\ Down(p, q) = c
  BY <1>2, ConnectionsOf
<1> HIDE DEF c
<1>4. /\ new \in DownloadConnection /\ new.peer = q
      /\ SameDownload(c, new) /\ c # NULL
  BY <1>3, OVERTIME_LIMIT_Assumption, PoolConstants
     DEF DownloadConnection, SameDownload
<1> HIDE DEF new
<1>5. \A t : Conn(D, t) = IF t = q THEN new ELSE Down(p, t)
  BY <1>2, <1>4, PoolsOfPeer, PoolConstants, ConnUpdated DEF Down
<1>6. /\ packets \in Seq(Packet)
      /\ \A b \in DOMAIN packets : /\ packets[b].type = "ACK"
                                   /\ packets[b].ack_num = c.expected_seq - 1
  <2>1. c.expected_seq - 1 \in 0 .. CHUNK_SIZE
    BY <1>3, CHUNK_SIZE_Assumption DEF DownloadConnection
  <2>2. AckAgain(c) \in Packet
    BY <2>1, PacketTypes DEF AckAgain
  <2> QED
    BY <2>2, OnePacket DEF AckAgain, ACK
<1> HIDE DEF packets
<1>7. /\ out \in OutOf(Packet) /\ out[p] = <<>> /\ out[q] = packets
      /\ \A t \in Peer \ {p, q} : NoneOf(out[t], {"GET", "DATA", "ACK"})
  BY <1>1, <1>6, SentTo
<1>8. NoneOf(packets, {"DATA"})
  BY <1>6 DEF NoneOf
<1>9. Downloads(Down(p, q), net[q][p], packets, new)
  <2>1. Reminded(c, packets, new)
    BY <1>4, <1>6 DEF Reminded
  <2> QED
    BY <1>3, <2>1 DEF Downloads
<1>10. Confirms(p, q, packets, new)
  <2>1. new # NULL /\ new.expected_seq = c.expected_seq
    BY <1>4 DEF SameDownload
  <2>2. c.expected_seq \in Int
    BY <1>3, CHUNK_SIZE_Assumption DEF DownloadConnection
  <2> QED
    BY <1>6, <2>1, <2>2 DEF Confirms
<1> HIDE DEF D, out
<1> QED
  BY <1>1, <1>2, <1>5, <1>7, <1>8, <1>9, <1>10, DownloadMoves

\* process_DATA, the packet expected next.
LEMMA AcceptDATALink ==
    ASSUME TypeOK, PoolsConsistent, LinksOK, ~Reordered,
           NEW p \in Peer, NEW q \in Peer, NEW i,
           AcceptDATA(p, q, i)
    PROVE  \E out : LinkStep(p, out)
<1> DEFINE c == Find(download_pool[p], q)
           data == net[q][p][1]
           new == Received(c, data)
           D == Update(download_pool[p], q, new)
           packets == <<ACK(c.expected_seq)>>
           out == To(q, packets)
<1>1. /\ p # q /\ i = 1 /\ 1 \in DOMAIN net[q][p]
      /\ data.type = "DATA"
  BY OldestPacket DEF AcceptDATA
<1>2. /\ Connected(download_pool[p], q)
      /\ data.seq_num = c.expected_seq /\ c.expected_seq < CHUNK_SIZE
      /\ download_pool' = [download_pool EXCEPT ![p] = D]
      /\ UNCHANGED upload_pool
      /\ Answer(p, q, i, out)
  BY <1>1 DEF AcceptDATA
<1>3. c \in DownloadConnection /\ c.peer = q /\ Down(p, q) = c
  BY <1>2, ConnectionsOf
<1> HIDE DEF c, data
<1>4. /\ new \in DownloadConnection /\ new.peer = q
      /\ new.expected_seq = c.expected_seq + 1 /\ new.sha1 = c.sha1
      /\ new.intact = (c.intact /\ data.sha1 = c.sha1)
  <2>1. new \in DownloadConnection
    BY <1>2, <1>3, ReceivedType
  <2> QED
    BY <1>3, <2>1 DEF Received, DownloadConnection
<1> HIDE DEF new
<1>5. \A t : Conn(D, t) = IF t = q THEN new ELSE Down(p, t)
  BY <1>2, <1>4, PoolsOfPeer, PoolConstants, ConnUpdated DEF Down
<1>6. /\ packets \in Seq(Packet)
      /\ NoneOf(packets, {"GET"}) /\ NoneOf(packets, {"DATA"})
      /\ \A b \in DOMAIN packets : packets[b].ack_num = c.expected_seq
  <2>1. ACK(c.expected_seq) \in Packet
    BY <1>3, PacketTypes, CHUNK_SIZE_Assumption DEF DownloadConnection
  <2> QED
    BY <2>1, OnePacket DEF ACK, NoneOf
<1> HIDE DEF packets
<1>7. /\ out \in OutOf(Packet) /\ out[p] = <<>> /\ out[q] = packets
      /\ \A t \in Peer \ {p, q} : NoneOf(out[t], {"GET", "DATA", "ACK"})
  BY <1>1, <1>6, SentTo
<1>8. Downloads(Down(p, q), net[q][p], packets, new)
  <2>1. c # NULL /\ new # NULL
    BY <1>3, <1>4, PoolConstants
  <2>2. c.intact /\ data.sha1 = c.sha1 => new.intact
    BY <1>4, Zenon
  <2>3. ReadFrom(c, net[q][p], packets, new)
    BY <1>1, <1>2, <1>4, <1>6, <2>1, <2>2 DEF ReadFrom, data
  <2> QED
    BY <1>3, <2>3 DEF Downloads
<1>9. Confirms(p, q, packets, new)
  <2>1. new # NULL
    BY <1>4, PoolConstants
  <2>2. c.expected_seq \in Int
    BY <1>3, CHUNK_SIZE_Assumption DEF DownloadConnection
  <2> QED
    BY <1>4, <1>6, <2>1, <2>2 DEF Confirms
<1> HIDE DEF D, out
<1> QED
  BY <1>1, <1>2, <1>5, <1>6, <1>7, <1>8, <1>9, DownloadMoves

\* process_DATA, the last packet of the chunk.
LEMMA LastDATALink ==
    ASSUME TypeOK, PoolsConsistent, LinksOK, ~Reordered,
           NEW p \in Peer, NEW q \in Peer, NEW i,
           FinishChunk(p, q, i) \/ FinishFile(p, q, i)
    PROVE  \E out : LinkStep(p, out)
<1> DEFINE D == RemoveFrom(download_pool[p], q)
           ack == <<ACK(CHUNK_SIZE)>>
<1>1. PICK more \in OutOf(Packet) :
        /\ LastDATA(p, q, i)
        /\ download_pool' = [download_pool EXCEPT ![p] = D]
        /\ UNCHANGED upload_pool
        /\ Answer(p, q, i, Then(To(q, ack), more))
        /\ more[p] = <<>>
        /\ \A t \in Peer : NoneOf(more[t], {"GET", "DATA", "ACK"})
  <2>1. CASE FinishChunk(p, q, i)
    <3>1. PICK st :
            /\ LastDATA(p, q, i)
            /\ CompletesChunk(p, q, i, st, Request(p, chunks[p], Saved(p, q, i, st)))
            /\ UNCHANGED upload_pool
      BY <2>1 DEF FinishChunk
    <3> DEFINE m == WHOHAS(Wanted(chunks[p], Saved(p, q, i, st)))
               more == Request(p, chunks[p], Saved(p, q, i, st))
    <3>2. m \in Packet
      BY WantedType, PacketTypes DEF TypeOK, TableOK
    <3>3. /\ more \in OutOf(Packet) /\ more[p] = <<>>
          /\ \A t \in Peer : more[t] = <<>> \/ more[t] = <<m>>
      BY <3>2, OnePacketTo DEF Request, ToOthers
    <3>4. NoneOf(<<m>>, {"GET", "DATA", "ACK"}) /\ NoneOf(<<>>, {"GET", "DATA", "ACK"})
      BY DEF NoneOf, WHOHAS
    <3>5. \A t \in Peer : NoneOf(more[t], {"GET", "DATA", "ACK"})
      BY <3>3, <3>4
    <3>6. /\ download_pool' = [download_pool EXCEPT ![p] = D]
          /\ Answer(p, q, i, Then(To(q, ack), more))
      BY <3>1 DEF CompletesChunk
    <3> HIDE DEF m, more, D, ack
    <3> QED
      BY <3>1, <3>3, <3>5, <3>6
  <2>2. CASE FinishFile(p, q, i)
    <3>1. /\ LastDATA(p, q, i)
          /\ UNCHANGED upload_pool
          /\ download_pool' = [download_pool EXCEPT ![p] = D]
          /\ Answer(p, q, i, Then(To(q, ack), Silence))
      BY <2>2 DEF FinishFile, CompletesChunk
    <3>2. Silence[p] = <<>> /\ \A t \in Peer : NoneOf(Silence[t], {"GET", "DATA", "ACK"})
      BY DEF Silence, NoneOf
    <3> QED
      BY <3>1, <3>2, SilenceType
  <2> QED
    BY <2>1, <2>2
<1> DEFINE out == Then(To(q, ack), more)
           c == Down(p, q)
<1>2. /\ p # q /\ i = 1 /\ 1 \in DOMAIN net[q][p]
      /\ net[q][p][1].type = "DATA" /\ net[q][p][1].seq_num = CHUNK_SIZE
  BY <1>1, OldestPacket DEF LastDATA
<1>3. c # NULL /\ c.expected_seq = CHUNK_SIZE
  BY <1>1, ConnectionsOf DEF LastDATA
<1>4. \A t : Conn(D, t) = IF t = q THEN NULL ELSE Down(p, t)
  BY PoolsOfPeer, PoolConstants, ConnRemoved DEF Down
<1>5. ack \in Seq(Packet) /\ NoneOf(ack, {"GET"}) /\ NoneOf(ack, {"DATA"})
  <2>1. ACK(CHUNK_SIZE) \in Packet
    BY PacketTypes, CHUNK_SIZE_Assumption
  <2> QED
    BY <2>1, OnePacket DEF ACK, NoneOf
<1> HIDE DEF ack
<1>6. out \in OutOf(Packet)
  BY <1>2, <1>5, SentTo, OutTypes
<1>7. \A t \in Peer : out[t] = (IF t = q THEN ack ELSE <<>>) \o more[t]
  BY DEF Then, To
<1>8. \A t \in Peer : more[t] \in Seq(Packet)
  BY DEF OutOf
<1>9. /\ \A t \in Peer \ {q} : out[t] = more[t]
      /\ out[q] = ack \o more[q]
  <2> HIDE DEF out
  <2>1. \A t \in Peer \ {q} : out[t] = <<>> \o more[t]
    BY <1>7
  <2>2. \A t \in Peer : <<>> \o more[t] = more[t]
    BY <1>8, ConcatEmptySeq
  <2> QED
    BY <1>7, <2>1, <2>2
<1>10. NoneOf(out[q], {"GET"}) /\ NoneOf(out[q], {"DATA"})
  <2>1. NoneOf(more[q], {"GET"}) /\ NoneOf(more[q], {"DATA"})
    BY <1>1 DEF NoneOf
  <2> QED
    BY <1>5, <1>8, <1>9, <2>1, ConcatElements
<1>11. Downloads(c, net[q][p], out[q], NULL)
  <2>1. Ended(c, net[q][p], out[q], NULL)
    BY <1>2, <1>3, <1>10 DEF Ended
  <2> QED
    BY <2>1 DEF Downloads
<1>12. out[p] = <<>> /\ \A t \in Peer \ {p, q} : NoneOf(out[t], {"GET", "DATA", "ACK"})
  BY <1>1, <1>2, <1>9
<1>13. Confirms(p, q, out[q], NULL)
  BY DEF Confirms
<1> HIDE DEF D, out
<1> QED
  BY <1>1, <1>2, <1>4, <1>6, <1>10, <1>11, <1>12, <1>13, DownloadMoves DEF out

\* process_DATA, the last packet of a chunk the table cannot save any more: the
\* peer acknowledges it, as if it had read it again, and crashes.
LEMMA CrashOnDATALink ==
    ASSUME TypeOK, PoolsConsistent, LinksOK, ~Reordered, WINDOW < CHUNK_SIZE,
           NEW p \in Peer, NEW q \in Peer, NEW i,
           CrashOnDATA(p, q, i)
    PROVE  \E out : LinkStep(p, out)
<1> DEFINE ack == <<ACK(CHUNK_SIZE)>>
           out == To(q, ack)
           c == Down(p, q)
           D == download_pool[p]
           U == upload_pool[p]
<1>1. /\ LastDATA(p, q, i)
      /\ Crash(p, q, i, out)
      /\ UNCHANGED <<download_pool, upload_pool>>
  BY DEF CrashOnDATA, connVars
<1>2. p # q /\ i \in DOMAIN net[q][p]
  BY <1>1, OldestPacket DEF LastDATA, Arrives
<1>3. c # NULL /\ c.expected_seq = CHUNK_SIZE
  BY <1>1, ConnectionsOf DEF LastDATA
<1>4. ack \in Seq(Packet) /\ NoneOf(ack, {"GET"}) /\ NoneOf(ack, {"DATA"})
  <2>1. ACK(CHUNK_SIZE) \in Packet
    BY PacketTypes, CHUNK_SIZE_Assumption
  <2> QED
    BY <2>1, OnePacket DEF ACK, NoneOf
<1> HIDE DEF ack
<1>5. /\ out \in OutOf(Packet) /\ out[p] = <<>> /\ out[q] = ack
      /\ \A t \in Peer \ {p, q} : NoneOf(out[t], {"GET", "DATA", "ACK"})
  BY <1>2, <1>4, SentTo
<1>6. Sends(p, out)
  BY <1>1, <1>2, <1>5, AnswerSends
<1>7. CHUNK_SIZE # 1
  BY WINDOW_Assumption, CHUNK_SIZE_Assumption
<1>8. Downloads(c, net[q][p], ack, c)
  <2>1. SameDownload(c, c)
    BY DEF SameDownload
  <2> HIDE DEF c
  <2>2. Reminded(c, ack, c)
    BY <1>3, <1>4, <1>7, <2>1 DEF Reminded, NoneOf
  <2> QED
    BY <2>2 DEF Downloads
<1>9. Uploads(Up(p, q), net[q][p], ack, Up(p, q))
  BY <1>4 DEF Uploads, SameUpload
<1>10. PoolsChange(p, D, U)
  BY <1>1 DEF PoolsChange
<1>11. \A t : Conn(D, t) = Down(p, t) /\ Conn(U, t) = Up(p, t)
  BY DEF Down, Up
<1> HIDE DEF D, U, out, c
<1>12. Downloads(Down(p, q), net[q][p], out[q], Conn(D, q))
  BY <1>5, <1>8, <1>11 DEF c
<1>13. Uploads(Up(p, q), net[q][p], out[q], Conn(U, q))
  BY <1>5, <1>9, <1>11
<1>14. Confirms(p, q, out[q], Conn(D, q))
  <2>1. run'[p] = "crashed"
    BY <1>1 DEF Crash, TypeOK
  <2>2. Conn(D, q) # NULL
    BY <1>3, <1>11 DEF c
  <2> QED
    BY <2>1, <2>2 DEF Confirms
<1> QED
  BY <1>2, <1>5, <1>6, <1>10, <1>11, <1>12, <1>13, <1>14, OneLinkMoves

\* The window of a connection that goes back: behind what was acknowledged.
LEMMA RewoundWindow ==
    ASSUME NEW c \in UploadConnection
    PROVE  /\ Window(Rewound(c)) \in Seq(Packet)
           /\ \A b \in DOMAIN Window(Rewound(c)) :
                /\ Window(Rewound(c))[b].type = "DATA"
                /\ Window(Rewound(c))[b].sha1 = c.sha1
                /\ Window(Rewound(c))[b].seq_num
                     \in c.last_acked + 1 .. Available(c.last_acked)
           /\ Sent(Rewound(c)) \in UploadConnection
           /\ Sent(Rewound(c)).peer = c.peer
           /\ Sent(Rewound(c)).sha1 = c.sha1
           /\ Sent(Rewound(c)).last_acked = c.last_acked
<1>1. Rewound(c) \in UploadConnection
  BY RewoundType
<1>2. /\ Rewound(c).next = c.last_acked + 1
      /\ Rewound(c).available = Available(c.last_acked)
      /\ Rewound(c).sha1 = c.sha1
      /\ Rewound(c).peer = c.peer
      /\ Rewound(c).last_acked = c.last_acked
  BY DEF Rewound, UploadConnection
<1> DEFINE d == Rewound(c)
<1> HIDE DEF d
<1>3. d \in UploadConnection
  BY <1>1 DEF d
<1>4. /\ Sent(d) \in UploadConnection
      /\ Sent(d).peer = d.peer /\ Sent(d).sha1 = d.sha1
      /\ Sent(d).last_acked = d.last_acked
  BY <1>3, SentType DEF Sent, UploadConnection
<1>5. Window(d) \in Seq(Packet)
  BY <1>3, WindowType
<1>6. \A b \in DOMAIN Window(d) : /\ Window(d)[b].type = "DATA"
                                  /\ Window(d)[b].sha1 = d.sha1
                                  /\ Window(d)[b].seq_num \in d.next .. d.available
  BY <1>3, WindowPackets
<1> QED
  BY <1>2, <1>4, <1>5, <1>6 DEF d

\* process_ACK, an ACK that moves the window.
LEMMA CumulativeACKLink ==
    ASSUME TypeOK, PoolsConsistent, WindowIsSent, LinksOK, ~Reordered,
           NEW p \in Peer, NEW q \in Peer, NEW i,
           CumulativeACK(p, q, i)
    PROVE  \E out : LinkStep(p, out)
<1> DEFINE c == Find(upload_pool[p], q)
           n == net[q][p][1].ack_num
           moved == [c EXCEPT !.last_acked = n, !.duplicate_num = 0,
                              !.overtime_count = 0, !.available = Available(n)]
           U == Update(upload_pool[p], q, Sent(moved))
<1>1. /\ p # q /\ i = 1 /\ 1 \in DOMAIN net[q][p]
      /\ net[q][p][1] \in Packet /\ net[q][p][1].type = "ACK"
  BY OldestPacket DEF CumulativeACK, AckArrives
<1>2. /\ Connected(upload_pool[p], q)
      /\ n > c.last_acked /\ n # CHUNK_SIZE
      /\ upload_pool' = [upload_pool EXCEPT ![p] = U]
      /\ UNCHANGED download_pool
      /\ Answer(p, q, i, To(q, Window(moved)))
  BY <1>1 DEF CumulativeACK, AckArrives, Transmit
<1>3. c \in UploadConnection /\ c.peer = q /\ Up(p, q) = c
  BY <1>2, ConnectionsOf
<1>4. WindowSent(c)
  <2> DEFINE k == Min(SlotsOf(upload_pool[p], q))
  <2>1. k \in Occupied(upload_pool[p]) /\ c = upload_pool[p].connections[k]
    BY <1>2, PoolsOfPeer, PoolConstants, FindInPool
  <2> HIDE DEF k, c
  <2> QED
    BY <2>1 DEF WindowIsSent
<1> HIDE DEF c
<1>5. /\ n \in 0 .. CHUNK_SIZE - 1 /\ n < CHUNK_SIZE
      /\ c.last_acked \in 0 .. CHUNK_SIZE - 1
      /\ Available(n) \in 1 .. CHUNK_SIZE
      /\ c.next = Available(c.last_acked) + 1
  <2>1. n \in 0 .. CHUNK_SIZE
    BY <1>1, PacketFields
  <2>2. n \in 0 .. CHUNK_SIZE - 1 /\ n < CHUNK_SIZE
    BY <1>2, <2>1, CHUNK_SIZE_Assumption
  <2>3. Available(n) \in n + 1 .. CHUNK_SIZE
    BY <2>2, AvailableType
  <2>4. Available(n) \in 1 .. CHUNK_SIZE
    BY <2>2, <2>3, CHUNK_SIZE_Assumption
  <2> QED
    BY <1>3, <1>4, <2>2, <2>4 DEF WindowSent, UploadConnection
<1> HIDE DEF n
<1>6. /\ moved \in UploadConnection
      /\ moved.peer = q /\ moved.sha1 = c.sha1 /\ moved.last_acked = n
      /\ moved.next = c.next /\ moved.available = Available(n)
  <2>1. 0 \in 0 .. DUPLICATE_LIMIT - 1 /\ 0 \in 0 .. OVERTIME_LIMIT
    BY Limits_Assumption, OVERTIME_LIMIT_Assumption
  <2>2. moved \in UploadConnection
    BY <1>3, <1>5, <2>1 DEF UploadConnection
  <2>3. /\ moved.peer = c.peer /\ moved.sha1 = c.sha1 /\ moved.last_acked = n
        /\ moved.next = c.next /\ moved.available = Available(n)
    BY <1>3 DEF UploadConnection
  <2> QED
    BY <1>3, <2>2, <2>3
<1> HIDE DEF moved
<1>7. /\ Sent(moved) \in UploadConnection /\ Sent(moved).peer = q
      /\ Sent(moved).sha1 = c.sha1 /\ Sent(moved).last_acked = n
  BY <1>6, SentType DEF Sent, UploadConnection
<1>8. \A t : Conn(U, t) = IF t = q THEN Sent(moved) ELSE Up(p, t)
  BY <1>2, <1>7, PoolsOfPeer, PoolConstants, ConnUpdated DEF Up
<1>9. /\ Window(moved) \in Seq(Packet)
      /\ \A b \in DOMAIN Window(moved) :
           /\ Window(moved)[b].type = "DATA"
           /\ Window(moved)[b].sha1 = c.sha1
           /\ Window(moved)[b].seq_num
                \in Available(c.last_acked) + 1 .. Available(n)
      /\ \A a, b \in DOMAIN Window(moved) :
           a < b => Window(moved)[a].seq_num < Window(moved)[b].seq_num
  BY <1>5, <1>6, WindowType, WindowPackets
<1>10. NoneOf(Window(moved), {"GET", "ACK"})
  BY <1>9 DEF NoneOf
<1>11. Uploads(Up(p, q), net[q][p], Window(moved), Sent(moved))
  <2>1. Sent(moved) # NULL /\ c # NULL
    BY <1>3, <1>7, PoolConstants
  <2>2. Advanced(c, net[q][p], Window(moved), Sent(moved))
    BY <1>1, <1>2, <1>5, <1>7, <1>9, <2>1 DEF Advanced, n
  <2> QED
    BY <1>3, <2>2 DEF Uploads
<1> HIDE DEF U
<1> QED
  BY <1>1, <1>2, <1>8, <1>9, <1>10, <1>11, UploadMoves

\* process_ACK, an ACK that was there before: the last one counted, or the one
\* that has the window sent again.
LEMMA RepeatedACKLink ==
    ASSUME TypeOK, PoolsConsistent, LinksOK, ~Reordered,
           NEW p \in Peer, NEW q \in Peer, NEW i,
           DuplicateACK(p, q, i) \/ FastRetransmit(p, q, i)
    PROVE  \E out : LinkStep(p, out)
<1> DEFINE c == Find(upload_pool[p], q)
           counted == [c EXCEPT !.duplicate_num = c.duplicate_num + 1,
                                !.overtime_count = 0]
           heard == [c EXCEPT !.overtime_count = 0]
<1>1. p # q /\ i \in DOMAIN net[q][p] /\ Connected(upload_pool[p], q)
      /\ UNCHANGED download_pool
  BY OldestPacket DEF DuplicateACK, FastRetransmit, AckArrives, Arrives
<1>2. c \in UploadConnection /\ c.peer = q /\ Up(p, q) = c /\ c # NULL
  BY <1>1, ConnectionsOf
<1>3. ASSUME NEW new \in UploadConnection, NEW packets \in Seq(Packet),
             new.peer = q, NoneOf(packets, {"GET", "ACK"}),
             upload_pool' = [upload_pool EXCEPT
                                ![p] = Update(upload_pool[p], q, new)],
             Answer(p, q, i, To(q, packets)),
             Uploads(c, net[q][p], packets, new)
      PROVE  \E out : LinkStep(p, out)
  <2> DEFINE U == Update(upload_pool[p], q, new)
  <2>1. \A t : Conn(U, t) = IF t = q THEN new ELSE Up(p, t)
    BY <1>1, <1>3, PoolsOfPeer, PoolConstants, ConnUpdated DEF Up
  <2> HIDE DEF U, c
  <2> QED
    BY <1>1, <1>2, <1>3, <2>1, UploadMoves DEF U
<1>4. CASE DuplicateACK(p, q, i)
  <2>1. /\ c.duplicate_num + 1 < DUPLICATE_LIMIT
        /\ upload_pool' = [upload_pool EXCEPT
                              ![p] = Update(upload_pool[p], q, counted)]
        /\ Answer(p, q, i, Silence)
    BY <1>4 DEF DuplicateACK
  <2>2. /\ <<>> \in Seq(Packet) /\ Silence = To(q, <<>>)
        /\ NoneOf(<<>>, {"GET", "ACK"}) /\ NoneOf(<<>>, {"DATA"})
    BY DEF Silence, To, NoneOf
  <2> HIDE DEF c
  <2>3. /\ counted \in UploadConnection /\ counted.peer = q
        /\ SameUpload(c, counted)
    <3>1. /\ c.duplicate_num + 1 \in 0 .. DUPLICATE_LIMIT - 1
          /\ 0 \in 0 .. OVERTIME_LIMIT
      BY <1>2, <2>1, Limits_Assumption, OVERTIME_LIMIT_Assumption
         DEF UploadConnection
    <3>2. counted \in UploadConnection
      BY <1>2, <3>1 DEF UploadConnection
    <3>3. /\ counted.peer = c.peer /\ counted.sha1 = c.sha1
          /\ counted.last_acked = c.last_acked
      BY <1>2 DEF UploadConnection
    <3> QED
      BY <1>2, <3>2, <3>3 DEF SameUpload
  <2> HIDE DEF counted
  <2> QED
    BY <1>3, <2>1, <2>2, <2>3 DEF Uploads
<1>5. CASE FastRetransmit(p, q, i)
  <2>1. /\ upload_pool' = [upload_pool EXCEPT
                              ![p] = Update(upload_pool[p], q, Sent(Rewound(heard)))]
        /\ Answer(p, q, i, To(q, Window(Rewound(heard))))
    BY <1>5 DEF FastRetransmit, Transmit
  <2> HIDE DEF c
  <2>2. /\ heard \in UploadConnection /\ heard.peer = q
        /\ heard.sha1 = c.sha1 /\ heard.last_acked = c.last_acked
    BY <1>2, OVERTIME_LIMIT_Assumption DEF UploadConnection
  <2> HIDE DEF heard
  <2> DEFINE packets == Window(Rewound(heard))
             new == Sent(Rewound(heard))
  <2>3. /\ packets \in Seq(Packet)
        /\ \A b \in DOMAIN packets :
             /\ packets[b].type = "DATA" /\ packets[b].sha1 = c.sha1
             /\ packets[b].seq_num \in c.last_acked + 1 .. Available(c.last_acked)
        /\ new \in UploadConnection /\ new.peer = q
        /\ new.sha1 = c.sha1 /\ new.last_acked = c.last_acked
    BY <2>2, RewoundWindow
  <2> HIDE DEF packets, new
  <2>4. NoneOf(packets, {"GET", "ACK"})
    BY <2>3 DEF NoneOf
  <2>5. Uploads(c, net[q][p], packets, new)
    <3>1. Repeated(c, packets, new)
      BY <1>2, <2>3 DEF Repeated, SameUpload
    <3> QED
      BY <3>1 DEF Uploads
  <2> QED
    BY <1>3, <2>1, <2>3, <2>4, <2>5 DEF packets, new
<1> QED
  BY <1>4, <1>5

-----------------------------------------------------------------------------
(* handle_timeout, as long as it does not give up a download. *)

\* The loop over the download pool only counts.
LEMMA CountedDownload ==
    ASSUME TypeOK, PoolsConsistent, NEW p \in Peer, NEW t,
           NEW down \in SUBSET Occupied(download_pool[p]),
           GivenUp(download_pool[p], down) = {}
    PROVE  SameDownload(Down(p, t),
                        Conn(Checked(download_pool[p], down,
                                     WaitingDownloads(download_pool[p], down)), t))
<1> DEFINE D == download_pool[p]
           new == Conn(Checked(D, down, WaitingDownloads(D, down)), t)
<1>1. /\ D \in PoolOf(max_conn[p], DownloadConnection)
      /\ Consistent(D) /\ max_conn[p] \in Nat
      /\ NULL \notin DownloadConnection
  BY PoolsOfPeer, PoolConstants
<1>2. \A k \in down \ GivenUp(D, down) :
        /\ WaitingDownloads(D, down)[k] \in DownloadConnection
        /\ WaitingDownloads(D, down)[k].peer = D.connections[k].peer
  BY RetriedConnections DEF TypeOK
<1>3. /\ ~Connected(D, t) => new = NULL
      /\ \A k \in SlotsOf(D, t) :
           new = IF k \notin down THEN Conn(D, t)
                 ELSE IF k \in GivenUp(D, down) THEN NULL
                 ELSE WaitingDownloads(D, down)[k]
  BY <1>1, <1>2, ConnChecked
<1> SUFFICES SameDownload(Down(p, t), new)
  OBVIOUS
<1> HIDE DEF new
<1>4. CASE ~Connected(D, t)
  BY <1>3, <1>4 DEF SameDownload, Down, Conn
<1>5. CASE Connected(D, t)
  <2>1. PICK k \in SlotsOf(D, t) : TRUE
    BY <1>5 DEF Connected
  <2>2. k \in Occupied(D) /\ D.connections[k].peer = t
    BY <2>1 DEF SlotsOf
  <2>3. Down(p, t) = D.connections[k]
    BY <1>1, <2>2, ConnOfSlot DEF Down
  <2>4. CASE k \notin down
    <3>1. new = Down(p, t)
      BY <1>3, <2>1, <2>4 DEF Down
    <3> QED
      BY <3>1 DEF SameDownload
  <2>5. CASE k \in down
    <3> DEFINE c == D.connections[k]
    <3>1. c \in DownloadConnection
      BY <1>1, <2>2, PoolSlots
    <3>2. new = Overtime(c)
      BY <1>3, <2>1, <2>5 DEF WaitingDownloads
    <3>3. Overtime(c) \in DownloadConnection
      BY <1>2, <2>5 DEF WaitingDownloads
    <3> HIDE DEF c
    <3>4. /\ Overtime(c).sha1 = c.sha1
          /\ Overtime(c).expected_seq = c.expected_seq
          /\ Overtime(c).intact = c.intact
      BY <3>1 DEF Overtime, DownloadConnection
    <3>5. SameDownload(c, new)
      BY <1>1, <3>1, <3>2, <3>3, <3>4 DEF SameDownload
    <3> QED
      BY <2>3, <3>5 DEF c
  <2> QED
    BY <2>4, <2>5
<1> QED
  BY <1>4, <1>5

\* The loop over the upload pool closes connections, or sends their windows
\* again.
LEMMA ResentUpload ==
    ASSUME TypeOK, PoolsConsistent, NEW p \in Peer, NEW t,
           NEW up \in SUBSET Occupied(upload_pool[p])
    PROVE  SameUpload(Up(p, t),
                      Conn(Checked(upload_pool[p], up,
                                   ResentUploads(upload_pool[p], up)), t))
<1> DEFINE U == upload_pool[p]
           new == Conn(Checked(U, up, ResentUploads(U, up)), t)
<1>1. /\ U \in PoolOf(max_conn[p], UploadConnection)
      /\ Consistent(U) /\ max_conn[p] \in Nat
      /\ NULL \notin UploadConnection
  BY PoolsOfPeer, PoolConstants
<1>2. \A k \in up \ GivenUp(U, up) :
        /\ ResentUploads(U, up)[k] \in UploadConnection
        /\ ResentUploads(U, up)[k].peer = U.connections[k].peer
  BY RetriedConnections DEF TypeOK
<1>3. /\ ~Connected(U, t) => new = NULL
      /\ \A k \in SlotsOf(U, t) :
           new = IF k \notin up THEN Conn(U, t)
                 ELSE IF k \in GivenUp(U, up) THEN NULL
                 ELSE ResentUploads(U, up)[k]
  BY <1>1, <1>2, ConnChecked
<1> SUFFICES SameUpload(Up(p, t), new)
  OBVIOUS
<1> HIDE DEF new
<1>4. CASE new = NULL
  BY <1>4 DEF SameUpload
<1>5. CASE new # NULL
  <2>1. PICK k \in SlotsOf(U, t) : TRUE
    BY <1>3, <1>5 DEF Connected
  <2>2. k \in Occupied(U) /\ U.connections[k].peer = t
    BY <2>1 DEF SlotsOf
  <2>3. Up(p, t) = U.connections[k]
    BY <1>1, <2>2, ConnOfSlot DEF Up
  <2>4. CASE k \notin up
    <3>1. new = Up(p, t)
      BY <1>3, <2>1, <2>4 DEF Up
    <3> QED
      BY <1>5, <3>1 DEF SameUpload
  <2>5. CASE k \in up \ GivenUp(U, up)
    <3> DEFINE c == U.connections[k]
               d == Overtime(c)
    <3>1. c \in UploadConnection
      BY <1>1, <2>2, PoolSlots
    <3>2. new = Sent(Rewound(d))
      BY <1>3, <2>1, <2>5 DEF ResentUploads
    <3>3. d \in UploadConnection
      BY <2>5, <3>1, OvertimeType
    <3>4. d.sha1 = c.sha1 /\ d.last_acked = c.last_acked
      BY <3>1 DEF Overtime, UploadConnection
    <3> HIDE DEF c, d
    <3>5. new.sha1 = c.sha1 /\ new.last_acked = c.last_acked
      BY <3>2, <3>3, <3>4, RewoundWindow
    <3>6. c # NULL
      BY <1>1, <3>1
    <3>7. SameUpload(c, new)
      BY <3>5, <3>6 DEF SameUpload
    <3> QED
      BY <2>3, <3>7 DEF c
  <2>6. CASE k \in up /\ k \in GivenUp(U, up)
    BY <1>3, <1>5, <2>1, <2>6
  <2> QED
    BY <2>4, <2>5, <2>6
<1> QED
  BY <1>4, <1>5

\* A packet that the loops may send to t: of the window of t's upload, the
\* reminder for t's download, or a request.
MayRemind(p, t, m) ==
    \/ /\ Up(p, t) # NULL
       /\ m.type = "DATA" /\ m.sha1 = Up(p, t).sha1
       /\ m.seq_num \in Up(p, t).last_acked + 1 .. Available(Up(p, t).last_acked)
    \/ Down(p, t) # NULL /\ m = Reminder(Down(p, t))
    \/ m.type = "WHOHAS"

\* What is transmitted again is the window of t's upload.
LEMMA RetransmissionPackets ==
    ASSUME TypeOK, PoolsConsistent, NEW p \in Peer, NEW t \in Peer, NEW up
    PROVE  /\ Retransmission(p, t, up) \in Seq(Packet)
           /\ \A b \in DOMAIN Retransmission(p, t, up) :
                MayRemind(p, t, Retransmission(p, t, up)[b])
           /\ Up(p, t) = NULL => Retransmission(p, t, up) = <<>>
<1> DEFINE c == Find(upload_pool[p], t)
           R == Retransmission(p, t, up)
<1>1. R \in Seq(Packet)
  BY RetransmissionType DEF TypeOK
<1>2. CASE R = <<>>
  BY <1>1, <1>2
<1>3. CASE R # <<>>
  <2>1. /\ R = Window(Rewound(c))
        /\ Connected(upload_pool[p], t)
    BY <1>3 DEF Retransmission, Connected
  <2>2. c \in UploadConnection /\ Up(p, t) = c /\ c # NULL
    BY <2>1, ConnectionsOf
  <2> HIDE DEF c, R
  <2>3. \A b \in DOMAIN R : /\ R[b].type = "DATA" /\ R[b].sha1 = c.sha1
                            /\ R[b].seq_num \in c.last_acked + 1
                                                 .. Available(c.last_acked)
    BY <2>1, <2>2, RewoundWindow
  <2> QED
    BY <1>1, <2>2, <2>3 DEF MayRemind, R
<1> QED
  BY <1>2, <1>3

\* As nothing is given up, the other loop sends reminders.
LEMMA SignalPackets ==
    ASSUME TypeOK, PoolsConsistent, NEW p \in Peer, NEW t \in Peer, NEW st,
           NEW down \in SUBSET Occupied(download_pool[p]),
           GivenUp(download_pool[p], down) = {}
    PROVE  /\ DownloadSignals(p, t, down, st) \in Seq(Packet)
           /\ \A b \in DOMAIN DownloadSignals(p, t, down, st) :
                MayRemind(p, t, DownloadSignals(p, t, down, st)[b])
<1> DEFINE pool == download_pool[p]
           speaking == {} \cup (down \cap SlotsOf(pool, t))
           S == DownloadSignals(p, t, down, st)
<1>1. S \in Seq(Packet)
  BY DownloadSignalsType DEF TypeOK
<1>2. S = [n \in 1 .. Cardinality(speaking) |->
             LET k == Kth(speaking, n)
             IN  IF k \in {}
                 THEN WHOHAS(Wanted(chunks[p],
                          Reopened(p, st, {j \in {} : j <= k})))
                 ELSE Reminder(Find(pool, t))]
  BY DEF DownloadSignals
<1>3. S = [n \in 1 .. Cardinality(speaking) |-> Reminder(Find(pool, t))]
  BY <1>2
<1>4. ASSUME NEW b \in DOMAIN S
      PROVE  MayRemind(p, t, S[b])
  <2>1. b \in 1 .. Cardinality(speaking) /\ S[b] = Reminder(Find(pool, t))
    BY <1>3
  <2>2. speaking # {}
    <3>1. Cardinality({}) = 0
      BY FS_EmptySet
    <3> QED
      BY <2>1, <3>1
  <2>3. Connected(pool, t)
    BY <2>2 DEF Connected
  <2>4. Down(p, t) # NULL /\ Down(p, t) = Find(pool, t)
    BY <2>3, ConnectionsOf
  <2> QED
    BY <2>1, <2>4 DEF MayRemind
<1> QED
  BY <1>1, <1>4

\* Such packets only remind and repeat.
LEMMA RemindersKeepLink ==
    ASSUME NEW p, NEW t, NEW out, NEW dn2, NEW up2, NEW r, NEW s,
           \A b \in DOMAIN out : MayRemind(p, t, out[b]),
           SameDownload(Down(p, t), dn2), SameUpload(Up(p, t), up2),
           Down(p, t) # NULL => Down(p, t).expected_seq \in Int
    PROVE  /\ Downloads(Down(p, t), s, out, dn2)
           /\ Uploads(Up(p, t), r, out, up2)
           /\ Confirms(p, t, out, dn2)
<1> DEFINE dn == Down(p, t)
           up == Up(p, t)
<1>1. \A b \in DOMAIN out :
        \/ /\ up # NULL
           /\ out[b].type = "DATA" /\ out[b].sha1 = up.sha1
           /\ out[b].seq_num \in up.last_acked + 1 .. Available(up.last_acked)
        \/ dn # NULL /\ out[b] = Reminder(dn)
        \/ out[b].type = "WHOHAS"
  BY DEF MayRemind
<1>2. /\ SameDownload(dn, dn2) /\ SameUpload(up, up2)
  OBVIOUS
<1>3. /\ Reminder(dn).type \in {"GET", "ACK"}
      /\ Reminder(dn).type = "GET" =>
           dn.expected_seq = 1 /\ Reminder(dn).sha1 = dn.sha1
      /\ Reminder(dn).type = "ACK" =>
           dn.expected_seq # 1 /\ Reminder(dn).ack_num = dn.expected_seq - 1
  BY DEF Reminder, GET, ACK, AckAgain
<1>4. dn # NULL => dn.expected_seq \in Int
  OBVIOUS
<1> DEFINE m == Reminder(dn)
<1> HIDE DEF dn, up, m
<1>5. Downloads(dn, s, out, dn2)
  <2>1. CASE dn = NULL
    <3>1. NoneOf(out, {"GET", "ACK"})
      BY <1>1, <2>1 DEF NoneOf
    <3> QED
      BY <1>2, <3>1 DEF Downloads
  <2>2. CASE dn # NULL
    <3>1. Reminded(dn, out, dn2)
      BY <1>1, <1>2, <1>3, <2>2 DEF Reminded
    <3> QED
      BY <3>1 DEF Downloads
  <2> QED
    BY <2>1, <2>2
<1>6. Uploads(up, r, out, up2)
  <2>1. CASE up = NULL
    <3>1. NoneOf(out, {"DATA"})
      BY <1>1, <1>3, <2>1 DEF NoneOf
    <3> QED
      BY <1>2, <3>1 DEF Uploads
  <2>2. CASE up # NULL
    <3>1. Repeated(up, out, up2)
      BY <1>1, <1>2, <1>3, <2>2 DEF Repeated
    <3> QED
      BY <3>1 DEF Uploads
  <2> QED
    BY <2>1, <2>2
<1>7. Confirms(p, t, out, dn2)
  <2>1. ASSUME dn2 # NULL, NEW b \in DOMAIN out, out[b].type = "ACK"
        PROVE  out[b].ack_num < dn2.expected_seq
    <3>1. /\ dn # NULL /\ dn2.expected_seq = dn.expected_seq
          /\ out[b].ack_num = dn.expected_seq - 1
      BY <1>1, <1>2, <1>3, <2>1 DEF SameDownload, m
    <3> QED
      BY <1>4, <3>1
  <2>2. dn # NULL => dn2 # NULL
    BY <1>2 DEF SameDownload
  <2> QED
    BY <2>1, <2>2 DEF Confirms, dn
<1> QED
  BY <1>5, <1>6, <1>7 DEF dn, up

\* handle_timeout.
LEMMA HandleTimeoutLink ==
    ASSUME TypeOK, PoolsConsistent, LinksOK, NEW p \in Peer,
           NEW up \in SUBSET Occupied(upload_pool[p]),
           NEW down \in SUBSET Occupied(download_pool[p]),
           HandleTimeout(p, up, down), GivenUp(download_pool[p], down) = {}
    PROVE  \E out : LinkStep(p, out)
<1> DEFINE retry == /\ Occupied(upload_pool'[p])
                         \cup Occupied(download_pool'[p]) = {}
                    /\ ~is_download_done[p]
           U == Checked(upload_pool[p], up, ResentUploads(upload_pool[p], up))
           D == Checked(download_pool[p], down,
                        WaitingDownloads(download_pool[p], down))
<1>1. PICK st \in Readings(p) :
        LET after == Reopened(p, st, {})
            sent == [t \in Peer |->
                        Retransmission(p, t, up)
                        \o IF t = p THEN <<>>
                           ELSE DownloadSignals(p, t, down, st)]
        IN  net' = Post(net, p,
                        IF retry THEN Then(sent, Request(p, chunks[p], after))
                        ELSE sent,
                        Running)
  BY DEF HandleTimeout
<1> DEFINE request == Request(p, chunks[p], Reopened(p, st, {}))
           m == WHOHAS(Wanted(chunks[p], Reopened(p, st, {})))
           first == [t \in Peer |-> Retransmission(p, t, up)]
           second == [t \in Peer |->
                         IF t = p THEN <<>> ELSE DownloadSignals(p, t, down, st)]
           sent == [t \in Peer |-> first[t] \o second[t]]
           out == IF retry THEN Then(sent, request) ELSE sent
<1>2. /\ upload_pool' = [upload_pool EXCEPT ![p] = U]
      /\ download_pool' = [download_pool EXCEPT ![p] = D]
      /\ net' = Post(net, p, out, Running)
      /\ out = sent \/ out = Then(sent, request)
  <2>1. sent = [t \in Peer |->
                   Retransmission(p, t, up)
                   \o IF t = p THEN <<>> ELSE DownloadSignals(p, t, down, st)]
    OBVIOUS
  <2> HIDE DEF sent
  <2> QED
    BY <1>1, <2>1 DEF HandleTimeout
<1> HIDE DEF out
<1>3. \A t \in Peer : /\ first[t] \in Seq(Packet)
                      /\ \A b \in DOMAIN first[t] : MayRemind(p, t, first[t][b])
                      /\ Up(p, t) = NULL => first[t] = <<>>
  BY RetransmissionPackets
<1>4. \A t \in Peer : /\ second[t] \in Seq(Packet)
                      /\ \A b \in DOMAIN second[t] : MayRemind(p, t, second[t][b])
                      /\ t = p => second[t] = <<>>
  <2>1. \A t \in Peer \ {p} :
          /\ second[t] \in Seq(Packet)
          /\ \A b \in DOMAIN second[t] : MayRemind(p, t, second[t][b])
    BY SignalPackets
  <2>2. second[p] = <<>> /\ <<>> \in Seq(Packet)
    OBVIOUS
  <2> HIDE DEF second
  <2>3. \A b \in DOMAIN <<>> : MayRemind(p, p, <<>>[b])
    OBVIOUS
  <2> QED
    BY <2>1, <2>2, <2>3
<1> HIDE DEF first, second
<1>5. \A t \in Peer : /\ sent[t] \in Seq(Packet)
                      /\ \A b \in DOMAIN sent[t] : MayRemind(p, t, sent[t][b])
                      /\ t = p => sent[t] = <<>>
  <2>1. ASSUME NEW t \in Peer
        PROVE  /\ sent[t] \in Seq(Packet)
               /\ \A b \in DOMAIN sent[t] : MayRemind(p, t, sent[t][b])
    <3> DEFINE a == first[t]
               z == second[t]
    <3>1. /\ a \in Seq(Packet) /\ z \in Seq(Packet)
          /\ \A b \in DOMAIN a : MayRemind(p, t, a[b])
          /\ \A b \in DOMAIN z : MayRemind(p, t, z[b])
          /\ sent[t] = a \o z
      BY <1>3, <1>4
    <3> HIDE DEF a, z, sent
    <3>2. a \o z \in Seq(Packet)
      BY <3>1, ConcatProperties
    <3>3. \A i \in DOMAIN (a \o z) : \/ \E j \in DOMAIN a : (a \o z)[i] = a[j]
                                     \/ \E j \in DOMAIN z : (a \o z)[i] = z[j]
      BY <3>1, ConcatElements
    <3> QED
      BY <3>1, <3>2, <3>3
  <2>2. sent[p] = <<>>
    <3>1. Up(p, p) = NULL
      BY DEF LinksOK
    <3>2. first[p] = <<>> /\ second[p] = <<>>
      BY <1>3, <1>4, <3>1
    <3>3. sent[p] = <<>> \o <<>>
      BY <3>2
    <3> QED
      BY <3>3
  <2> QED
    BY <2>1, <2>2
<1> HIDE DEF sent
<1>6. sent \in OutOf(Packet)
  <2>1. sent = [t \in Peer |-> sent[t]]
    BY DEF sent
  <2> QED
    BY <1>5, <2>1 DEF OutOf
<1>7. m \in Packet /\ m.type = "WHOHAS"
  <2>1. m \in Packet
    BY WantedType, PacketTypes DEF TypeOK, TableOK
  <2> QED
    BY <2>1 DEF WHOHAS
<1>8. /\ request \in OutOf(Packet) /\ request[p] = <<>>
      /\ \A t \in Peer : request[t] = <<>> \/ request[t] = <<m>>
  BY <1>7, OnePacketTo DEF Request, ToOthers
<1> HIDE DEF m, request
<1>9. /\ Then(sent, request) \in OutOf(Packet)
      /\ \A t \in Peer : Then(sent, request)[t] = sent[t] \o request[t]
  BY <1>6, <1>8, ConcatProperties DEF Then, OutOf
<1>10. /\ out \in OutOf(Packet)
       /\ out[p] = <<>>
       /\ \A t \in Peer : \A b \in DOMAIN out[t] : MayRemind(p, t, out[t][b])
  <2>1. CASE out = sent
    BY <1>5, <1>6, <2>1
  <2>2. CASE out = Then(sent, request)
    <3>1. out = Then(sent, request)
      BY <2>2
    <3>2. out[p] = <<>>
      <4>1. out[p] = <<>> \o <<>>
        BY <1>5, <1>8, <1>9, <3>1
      <4> QED
        BY <4>1
    <3>3. ASSUME NEW t \in Peer
          PROVE  \A b \in DOMAIN out[t] : MayRemind(p, t, out[t][b])
      <4> DEFINE a == sent[t]
                 z == request[t]
      <4>1. /\ a \in Seq(Packet) /\ z \in Seq(Packet)
            /\ \A b \in DOMAIN a : MayRemind(p, t, a[b])
            /\ out[t] = a \o z
            /\ z = <<>> \/ z = <<m>>
        BY <1>5, <1>8, <1>9, <3>1 DEF OutOf
      <4> HIDE DEF a, z
      <4>2. \A b \in DOMAIN z : z[b].type = "WHOHAS"
        BY <1>7, <4>1
      <4>3. \A i \in DOMAIN (a \o z) : \/ \E j \in DOMAIN a : (a \o z)[i] = a[j]
                                       \/ \E j \in DOMAIN z : (a \o z)[i] = z[j]
        BY <4>1, ConcatElements
      <4> QED
        BY <4>1, <4>2, <4>3 DEF MayRemind
    <3> QED
      BY <1>9, <3>1, <3>2, <3>3
  <2> QED
    BY <1>2, <2>1, <2>2
<1>11. Sends(p, out)
  BY <1>2, <1>10, OtherSends
<1>12. PoolsChange(p, D, U)
  BY <1>2, ChangedPools
<1>13. \A t : SameDownload(Down(p, t), Conn(D, t)) /\ SameUpload(Up(p, t), Conn(U, t))
  BY CountedDownload, ResentUpload
<1> HIDE DEF D, U
<1>14. \A t : Down(p, t)' = Conn(D, t) /\ Up(p, t)' = Conn(U, t)
  BY <1>12 DEF PoolsChange, Down, Up
<1>15. \A t \in Peer : /\ Downloads(Down(p, t), net[t][p], out[t], Down(p, t)')
                       /\ Uploads(Up(p, t), net[t][p], out[t], Up(p, t)')
                       /\ Confirms(p, t, out[t], Down(p, t)')
  <2>1. \A t \in Peer : Down(p, t) # NULL => Down(p, t).expected_seq \in Int
    BY LinkTypes, CHUNK_SIZE_Assumption DEF DownloadConnection
  <2>2. \A t \in Peer : /\ Downloads(Down(p, t), net[t][p], out[t], Conn(D, t))
                        /\ Uploads(Up(p, t), net[t][p], out[t], Conn(U, t))
                        /\ Confirms(p, t, out[t], Conn(D, t))
    BY <1>10, <1>13, <2>1, RemindersKeepLink
  <2> QED
    BY <1>14, <2>2
<1>16. Down(p, p)' = NULL /\ Up(p, p)' = NULL
  BY <1>13, <1>14 DEF LinksOK, SameDownload, SameUpload
<1> QED
  BY <1>10, <1>11, <1>12, <1>15, <1>16 DEF LinkStep, PoolsChange

-----------------------------------------------------------------------------
(* Commands, faults and the theorem. *)

\* process_get asks everyone for the chunks of the file.
LEMMA UserGetLink ==
    ASSUME TypeOK, LinksOK, NEW p \in Peer, NEW file, UserGet(p, file)
    PROVE  \E out : LinkStep(p, out)
<1> DEFINE fresh == [j \in DOMAIN file |-> "NOT_DOWNLOADED"]
           m == WHOHAS(Wanted(file, fresh))
           out == Request(p, file, fresh)
<1>1. /\ file \in ChunkFiles[p]
      /\ net' = Post(net, p, out, Running)
      /\ UNCHANGED <<download_pool, upload_pool>>
  BY DEF UserGet
<1>2. m \in Packet
  <2>1. file \in Seq(Hash) /\ Len(file) <= MAX_CHUNKS_NUM
    BY <1>1, Peers_Assumption DEF ChunkFile
  <2> HIDE DEF fresh
  <2> QED
    BY <2>1, WantedType, PacketTypes
<1>3. m.type = "WHOHAS"
  BY DEF WHOHAS
<1>4. /\ out \in OutOf(Packet) /\ out[p] = <<>>
      /\ \A t \in Peer : out[t] = <<>> \/ out[t] = <<m>>
  BY <1>2, OnePacketTo DEF Request, ToOthers
<1> HIDE DEF m, out, fresh
<1>5. \A t \in Peer : NoneOf(out[t], {"GET", "DATA", "ACK"})
  BY <1>3, <1>4 DEF NoneOf
<1>6. Sends(p, out)
  BY <1>1, <1>4, OtherSends
<1> QED
  BY <1>1, <1>4, <1>5, <1>6, NoLinkMoves

\* A packet is lost, or a peer is killed.
LEMMA FaultLink ==
    ASSUME TypeOK, LinksOK, NEW p \in Peer,
           Die(p) \/ \E q \in Peer : \E i \in DOMAIN net[q][p] : Lose(p, q, i)
    PROVE  \E out : LinkStep(p, out)
<1>1. UNCHANGED <<download_pool, upload_pool>>
  BY DEF Die, Lose, connVars
<1>2. \/ net' = Unplugged(net, p)
      \/ \E q \in Peer : \E i \in DOMAIN net[q][p] : net' = Without(net, q, p, i)
  BY DEF Die, Lose
<1>3. /\ Silence \in OutOf(Packet) /\ Silence[p] = <<>>
      /\ \A t \in Peer : NoneOf(Silence[t], {"GET", "DATA", "ACK"})
  BY SilenceType DEF Silence, NoneOf
<1>4. Sends(p, Silence)
  BY <1>2, <1>3, OtherSends
<1> QED
  BY <1>1, <1>3, <1>4, NoLinkMoves

\* A handler.
LEMMA ReceiveLink ==
    ASSUME TypeOK, PoolsConsistent, WindowIsSent, LinksOK,
           ~Reordered, WINDOW < CHUNK_SIZE,
           NEW p \in Peer, NEW q \in Peer, NEW i, ProcessPACKET(p, q, i)
    PROVE  \E out : LinkStep(p, out)
<1>1. CASE \/ ProcessWHOHAS(p, q, i) \/ IgnoreIHAVE(p, q, i)
           \/ CrashOnIHAVE(p, q, i) \/ IgnoreDATA(p, q, i)
           \/ IgnoreACK(p, q, i) \/ StaleACK(p, q, i)
  BY <1>1, IgnoredLink
<1>2. CASE StartDownload(p, q, i)
  BY <1>2, StartDownloadLink
<1>3. CASE RefuseGET(p, q, i) \/ FinishUpload(p, q, i)
  BY <1>3, ClosedLink
<1>4. CASE AcceptGET(p, q, i)
  BY <1>4, AcceptGETLink
<1>5. CASE RejectDATA(p, q, i)
  BY <1>5, RejectDATALink
<1>6. CASE AcceptDATA(p, q, i)
  BY <1>6, AcceptDATALink
<1>7. CASE FinishChunk(p, q, i) \/ FinishFile(p, q, i)
  BY <1>7, LastDATALink
<1>8. CASE CrashOnDATA(p, q, i)
  BY <1>8, CrashOnDATALink
<1>9. CASE CumulativeACK(p, q, i)
  BY <1>9, CumulativeACKLink
<1>10. CASE DuplicateACK(p, q, i) \/ FastRetransmit(p, q, i)
  BY <1>10, RepeatedACKLink
<1> QED
  BY <1>1, <1>2, <1>3, <1>4, <1>5, <1>6, <1>7, <1>8, <1>9, <1>10
     DEF ProcessPACKET

\* p gives up a download: the GET and the DATA packets of it may still come,
\* in the next download from the same peer.
GivesUp(p) ==
    \E up \in SUBSET Occupied(upload_pool[p]),
       down \in SUBSET Occupied(download_pool[p]) :
        HandleTimeout(p, up, down) /\ GivenUp(download_pool[p], down) # {}

\* Nobody gives up a download, or forgets one because it is started again, and
\* the network duplicates nothing.
Undisturbed ==
    /\ \A p \in Peer : ~GivesUp(p) /\ ~Restart(p)
    /\ \A p, q \in Peer : \A i \in DOMAIN net[q][p] : ~Duplicate(p, q, i)

\* Such a step is a step of one peer.
LEMMA NextLinkStep ==
    ASSUME TypeOK, PoolsConsistent, WindowIsSent, LinksOK,
           ~Reordered, WINDOW < CHUNK_SIZE, Next, Undisturbed
    PROVE  \E p \in Peer : \E out : LinkStep(p, out)
<1>1. ASSUME NEW p \in Peer, NEW q \in Peer, Receive(p, q)
      PROVE  \E out : LinkStep(p, out)
  BY <1>1, ReceiveLink DEF Receive
<1>2. ASSUME NEW p \in Peer, SIGALRM(p)
      PROVE  \E out : LinkStep(p, out)
  <2>1. PICK up \in SUBSET Occupied(upload_pool[p]),
             down \in SUBSET Occupied(download_pool[p]) :
          HandleTimeout(p, up, down)
    BY <1>2 DEF SIGALRM
  <2>2. GivenUp(download_pool[p], down) = {}
    BY <2>1 DEF Undisturbed, GivesUp
  <2> QED
    BY <2>1, <2>2, HandleTimeoutLink
<1>3. ASSUME NEW p \in Peer, Command(p)
      PROVE  \E out : LinkStep(p, out)
  BY <1>3, UserGetLink DEF Command
<1>4. CASE Fault
  BY <1>4, FaultLink DEF Fault, Undisturbed
<1> QED
  BY <1>1, <1>2, <1>3, <1>4 DEF Next

\* It keeps all links in order.
LEMMA NextLinks ==
    ASSUME TypeOK, TypeOK', PoolsConsistent, WindowIsSent, LinksOK,
           ~Reordered, WINDOW < CHUNK_SIZE, [Next]_vars, [Undisturbed]_vars
    PROVE  LinksOK'
<1>1. CASE \E p \in Peer : \E out : LinkStep(p, out)
  BY <1>1, LinkStepOK
<1>2. CASE UNCHANGED vars
  <2>1. UNCHANGED <<download_pool, upload_pool, net>>
    BY <1>2 DEF vars, connVars
  <2> QED
    BY <2>1 DEF LinksOK, Down, Up
<1> QED
  BY <1>1, <1>2, NextLinkStep

\* Nothing is connected, and nothing on its way.
LEMMA InitLinks == Init => LinksOK
<1> SUFFICES ASSUME Init
             PROVE  LinksOK
  OBVIOUS
<1>1. \A p \in Peer : Occupied(EmptyPool(max_conn[p])) = {}
  BY PoolConstants, EmptyPoolType
<1>2. \A p \in Peer : /\ Occupied(download_pool[p]) = {}
                      /\ Occupied(upload_pool[p]) = {}
  BY <1>1 DEF Init
<1>3. \A p, q \in Peer : Down(p, q) = NULL /\ Up(p, q) = NULL
  BY <1>2 DEF Down, Up, Conn, Connected, SlotsOf
<1>4. \A p, q \in Peer : net[p][q] = <<>>
  BY DEF Init
<1>5. NoDownload(NULL, <<>>, <<>>)
  BY DEF NoDownload
<1> QED
  BY <1>3, <1>4, <1>5 DEF LinksOK, LinkOK

\* Links in order: every download has read its own chunk only.
LEMMA LinksAreIntact ==
    ASSUME TypeOK, PoolsConsistent, LinksOK
    PROVE  NothingMixed
<1> SUFFICES ASSUME NEW p \in Peer, NEW k \in Occupied(download_pool[p])
             PROVE  download_pool[p].connections[k].intact
  BY DEF NothingMixed
<1> DEFINE c == download_pool[p].connections[k]
           t == c.peer
<1>1. c \in DownloadConnection
  BY PoolsOfPeer, PoolConstants, PoolSlots
<1>2. Down(p, t) = c
  BY PoolsOfPeer, PoolConstants, ConnOfSlot DEF Down
<1>3. c # NULL /\ t \in Peer
  BY <1>1, PoolConstants DEF DownloadConnection
<1> HIDE DEF c
<1>4. p # t
  BY <1>2, <1>3 DEF LinksOK
<1>5. LinkOK(c, Up(t, p), net[p][t], net[t][p])
  BY <1>2, <1>3, <1>4 DEF LinksOK
<1>6. c.intact
  BY <1>3, <1>5 DEF LinkOK
<1> QED
  BY <1>6 DEF c

\* As long as packets are neither reordered nor duplicated, nobody gives up a
\* download or is started again, and a window is less than a chunk (64 and 512
\* packets), a chunk downloaded is the chunk asked for, whatever packets of
\* earlier downloads are on their way: process_DATA need not look whose chunk
\* a packet is from, and what save_data hashes is right.
THEOREM NothingEverMixed ==
    ASSUME ~Reordered, WINDOW < CHUNK_SIZE
    PROVE  Spec /\ [][Undisturbed]_vars => []NothingMixed
<1> DEFINE Inv == TypeOK /\ PoolsConsistent /\ WindowIsSent /\ LinksOK
<1>1. Init => Inv
  BY InitType, InitPools, InitWindow, InitLinks
<1>2. Inv /\ [Next]_vars /\ [Undisturbed]_vars => Inv'
  BY NextType, NextPools, NextWindow, NextLinks
<1>3. Inv => NothingMixed
  BY LinksAreIntact
<1> QED
  BY <1>1, <1>2, <1>3, PTL DEF Spec
-----------------------------------------------------------------------------
(* AckedIsReceived.  What an uploader counts as acknowledged has been read:  *)
(* the counters of two peers, and the ACKs between them, are compared.       *)

\* The chunks of a file that are DONE.
DoneIn(file, st) ==
    {h \in Hash : Listed(file, h) /\ st[IndexOf(file, h)] = "DONE"}

\* The connections dn and up of a link, the packets r on their way to the
\* uploader, and the chunks the downloader has saved: an upload is of a chunk
\* that is saved, or behind the download of it, and so is every ACK that is on
\* its way once the download has begun to read.
AckOK(dn, up, r, saved) ==
    /\ up # NULL => IF dn # NULL /\ dn.sha1 = up.sha1
                    THEN up.last_acked < dn.expected_seq
                    ELSE up.sha1 \in saved
    /\ dn # NULL /\ dn.expected_seq # 1 =>
        \A i \in DOMAIN r : r[i].type = "ACK" => r[i].ack_num < dn.expected_seq

\* A step of the downloader.  Whoever reads the first packet has been seen by
\* the uploader, and no ACK of another chunk is on its way any more.
LEMMA DownloaderAcks ==
    ASSUME NEW dn \in DownloadConnection \cup {NULL},
           NEW up \in UploadConnection \cup {NULL},
           NEW r \in Seq(Packet), NEW s \in Seq(Packet), LinkOK(dn, up, r, s),
           NEW saved, AckOK(dn, up, r, saved),
           NEW dn2 \in DownloadConnection \cup {NULL}, NEW r2 \in Seq(Packet),
           NEW asked, Follows(r, asked, r2), Downloads(dn, s, asked, dn2),
           dn2 # NULL => \A b \in DOMAIN asked :
               asked[b].type = "ACK" => asked[b].ack_num < dn2.expected_seq,
           NEW saved2, saved \subseteq saved2,
           dn2 # NULL => dn2.sha1 \notin saved2,
           dn # NULL /\ dn2 = NULL => dn.sha1 \in saved2
    PROVE  AckOK(dn2, up, r2, saved2)
<1>1. CASE SameDownload(dn, dn2) \/ Reminded(dn, asked, dn2)
  <2>1. dn = NULL => dn2 = NULL
    BY <1>1 DEF SameDownload, Reminded
  <2>2. dn # NULL => /\ dn2 # NULL
                     /\ dn2.sha1 = dn.sha1 /\ dn2.expected_seq = dn.expected_seq
    BY <1>1 DEF SameDownload, Reminded
  <2>3. up # NULL => IF dn2 # NULL /\ dn2.sha1 = up.sha1
                     THEN up.last_acked < dn2.expected_seq
                     ELSE up.sha1 \in saved2
    BY <2>1, <2>2 DEF AckOK
  <2>4. ASSUME dn2 # NULL, dn2.expected_seq # 1,
               NEW i \in DOMAIN r2, r2[i].type = "ACK"
        PROVE  r2[i].ack_num < dn2.expected_seq
    <3>1. dn # NULL /\ dn2.expected_seq = dn.expected_seq
      BY <2>1, <2>2, <2>4
    <3> QED
      BY <2>4, <3>1 DEF AckOK, Follows
  <2> QED
    BY <2>3, <2>4 DEF AckOK
<1>2. CASE Begun(dn, asked, dn2)
  BY <1>2 DEF Begun, AckOK
<1>3. CASE ReadFrom(dn, s, asked, dn2)
  <2>1. /\ dn # NULL /\ dn2 # NULL /\ dn2.sha1 = dn.sha1
        /\ dn2.expected_seq = dn.expected_seq + 1
        /\ 1 \in DOMAIN s /\ s[1].type = "DATA" /\ s[1].seq_num = dn.expected_seq
    BY <1>3 DEF ReadFrom
  <2>2. dn.expected_seq \in Nat \ {0}
    BY <2>1, CHUNK_SIZE_Assumption DEF DownloadConnection
  <2>3. up # NULL => up.last_acked \in Nat
    BY CHUNK_SIZE_Assumption DEF UploadConnection
  <2>4. up # NULL => IF dn2.sha1 = up.sha1
                     THEN up.last_acked < dn2.expected_seq
                     ELSE up.sha1 \in saved2
    BY <2>1, <2>2, <2>3 DEF AckOK
  <2>5. ASSUME NEW a \in DOMAIN r, r[a].type = "ACK"
        PROVE  r[a].ack_num < dn2.expected_seq
    <3>1. r[a].ack_num \in Nat
      BY <2>5, LinkFields, CHUNK_SIZE_Assumption
    <3>2. CASE dn.expected_seq = 1
      <4>1. Asking(dn, up, r, s)
        BY <2>1, <3>2 DEF LinkOK
      <4>2. Seen(dn, up, r)
        BY <2>1, <3>2, <4>1 DEF Asking, NotSeen
      <4> QED
        BY <2>1, <2>5, <3>2, <4>2 DEF Seen
    <3>3. CASE dn.expected_seq # 1
      <4>1. r[a].ack_num < dn.expected_seq
        BY <2>1, <2>5, <3>3 DEF AckOK
      <4> QED
        BY <2>1, <2>2, <3>1, <4>1
    <3> QED
      BY <3>2, <3>3
  <2>6. \A i \in DOMAIN r2 : r2[i].type = "ACK" => r2[i].ack_num < dn2.expected_seq
    BY <2>1, <2>5 DEF Follows
  <2> QED
    BY <2>1, <2>4, <2>6 DEF AckOK
<1>4. CASE Ended(dn, s, asked, dn2)
  BY <1>4 DEF Ended, AckOK
<1> QED
  BY <1>1, <1>2, <1>3, <1>4 DEF Downloads

\* A step of the uploader.  An ACK that moves the window is not of a chunk
\* before: those are on their way only while nothing of this one is sent.
LEMMA UploaderAcks ==
    ASSUME NEW dn \in DownloadConnection \cup {NULL},
           NEW up \in UploadConnection \cup {NULL},
           NEW r \in Seq(Packet), NEW s \in Seq(Packet), LinkOK(dn, up, r, s),
           NEW saved, AckOK(dn, up, r, saved),
           NEW up2, NEW r2 \in Seq(Packet), NEW sent,
           Follows(r, <<>>, r2), Uploads(up, r, sent, up2),
           NEW saved2, saved \subseteq saved2
    PROVE  AckOK(dn, up2, r2, saved2)
<1>1. dn # NULL /\ dn.expected_seq # 1 =>
        \A i \in DOMAIN r2 : r2[i].type = "ACK" => r2[i].ack_num < dn.expected_seq
  BY DEF Follows, AckOK
<1>2. dn # NULL => dn.expected_seq \in Nat \ {0}
  BY CHUNK_SIZE_Assumption DEF DownloadConnection
<1>3. CASE SameUpload(up, up2) \/ Repeated(up, sent, up2)
  BY <1>1, <1>3 DEF SameUpload, Repeated, AckOK
<1>4. CASE Served(r, sent, up2)
  <2>1. up2 # NULL /\ up2.sha1 = r[1].sha1 /\ up2.last_acked = 0
    BY <1>4 DEF Served
  <2>2. dn # NULL /\ r[1].sha1 = dn.sha1
    BY <1>4 DEF Served, LinkOK, NoDownload, Asking, Reading
  <2> QED
    BY <1>1, <1>2, <2>1, <2>2 DEF AckOK
<1>5. CASE Advanced(up, r, sent, up2)
  <2>1. /\ up # NULL /\ up2 # NULL /\ up2.sha1 = up.sha1
        /\ 1 \in DOMAIN r /\ r[1].type = "ACK" /\ r[1].ack_num > up.last_acked
        /\ up2.last_acked = r[1].ack_num
    BY <1>5 DEF Advanced
  <2>2. CASE dn # NULL /\ dn.sha1 = up.sha1
    <3>1. dn.expected_seq # 1
      <4> SUFFICES ASSUME dn.expected_seq = 1
                   PROVE  FALSE
        OBVIOUS
      <4>1. Asking(dn, up, r, s)
        BY <2>2 DEF LinkOK
      <4>2. up.last_acked \in Nat /\ up.last_acked < 1
        BY <2>1, <2>2, CHUNK_SIZE_Assumption DEF AckOK, UploadConnection
      <4>3. Seen(dn, up, r)
        BY <2>1, <4>1, <4>2 DEF Asking, NotSeen
      <4>4. r[1].ack_num = 0
        BY <2>1, <4>3 DEF Seen
      <4> QED
        BY <2>1, <4>2, <4>4
    <3>2. up2.last_acked < dn.expected_seq
      BY <2>1, <2>2, <3>1 DEF AckOK
    <3> QED
      BY <1>1, <2>1, <2>2, <3>2 DEF AckOK
  <2>3. CASE ~(dn # NULL /\ dn.sha1 = up.sha1)
    BY <1>1, <2>1, <2>3 DEF AckOK
  <2> QED
    BY <2>2, <2>3
<1> QED
  BY <1>3, <1>4, <1>5 DEF Uploads
\* A download of a pool that agrees with the table is of a chunk not DONE.
LEMMA FreshDownload ==
    ASSUME NEW n \in Nat, NEW pool \in PoolOf(n, DownloadConnection),
           NEW file \in Seq(Hash), NEW st, Agrees(pool, file, st),
           \A k \in Occupied(pool) : Listed(file, pool.connections[k].sha1),
           NEW t, Conn(pool, t) # NULL
    PROVE  Conn(pool, t).sha1 \notin DoneIn(file, st)
<1> DEFINE m == Min(SlotsOf(pool, t))
           h == Conn(pool, t).sha1
           j == IndexOf(file, h)
<1>1. Connected(pool, t)
  BY PoolConstants, ConnType
<1>2. m \in Occupied(pool) /\ pool.connections[m].sha1 = h
  BY <1>1, PoolConstants, FindInPool DEF Conn
<1>3. Listed(file, h)
  BY <1>2
<1>4. j \in DOMAIN file
  BY <1>3, IndexOfHash
<1>5. m \in Fetching(pool, file, j)
  BY <1>2, <1>3 DEF Fetching
<1> HIDE DEF m
<1>6. st[j] = "DOWNLOADING"
  BY <1>4, <1>5 DEF Agrees
<1> QED
  BY <1>6 DEF DoneIn

\* The chunks q has saved.
Done(q) == DoneIn(chunks[q], statuses[q])

AcksOK ==
    \A q \in Running : \A p \in Peer \ {q} :
        AckOK(Down(q, p), Up(p, q), net[q][p], Done(q))

\* Who downloads has a table in use, and downloads chunks of it.
InUse ==
    \A p \in Peer : Occupied(download_pool[p]) # {} =>
        /\ table[p] = "live"
        /\ \A k \in Occupied(download_pool[p]) :
            Listed(chunks[p], download_pool[p].connections[k].sha1)

\* An offer that comes after the file was written starts nothing, and a user
\* does not ask for the next file before the ACKs of the last have closed the
\* uploads to this peer.
Settled ==
    \A p \in Peer :
        /\ table[p] = "freed" =>
            Occupied(download_pool'[p]) \subseteq Occupied(download_pool[p])
        /\ gets'[p] # gets[p] => \A q \in Peer : ~Connected(upload_pool[q], p)

\* What a step does to the table keeps it in use while there are downloads.
LEMMA NextInUse ==
    ASSUME TypeOK, PoolsConsistent, DownloadingIffConnected, Unfinished, InUse,
           ~Overlap, [Next]_vars, [Settled]_vars
    PROVE  InUse'
<1> SUFFICES ASSUME NEW p \in Peer, Occupied(download_pool'[p]) # {}
             PROVE  /\ table'[p] = "live"
                    /\ \A k \in Occupied(download_pool'[p]) :
                        Listed(chunks'[p], download_pool'[p].connections[k].sha1)
  BY DEF InUse
<1> DEFINE pool == download_pool[p]
           new == download_pool'[p]
           file == chunks[p]
<1>1. /\ max_conn[p] \in Nat
      /\ pool \in PoolOf(max_conn[p], DownloadConnection)
      /\ Consistent(pool)
      /\ file \in Seq(Hash)
      /\ statuses[p] \in [DOMAIN file -> Status]
      /\ table[p] \in {"none", "live", "freed"}
      /\ table[p] = "none" => file = <<>>
      /\ NULL \notin DownloadConnection
  BY PoolsOfPeer, PoolConstants DEF TypeOK, TableOK, Unfinished
<1>2. Occupied(pool) # {} =>
        /\ table[p] = "live"
        /\ \A k \in Occupied(pool) : Listed(file, pool.connections[k].sha1)
  BY DEF InUse
<1>3. table[p] = "live" => Agrees(pool, file, statuses[p])
  BY AgreesIsInvariant
<1>4. CASE Untouched(p)
  BY <1>2, <1>4 DEF Untouched, TableKept
<1>5. CASE Starts(p)
  <2>1. PICK q \in Peer, h \in Hash :
          /\ TableKept(p)
          /\ table[p] # "freed" => Listed(file, h)
          /\ ~Connected(pool, q) /\ pool.size < max_conn[p]
          /\ new = AddTo(pool, NewDownload(q, h))
    BY <1>5 DEF Starts
  <2> DEFINE c == NewDownload(q, h)
             f == Min(FreeSlots(pool))
  <2>2. c \in DownloadConnection /\ c.peer = q /\ c.sha1 = h
    BY NewConnections DEF NewDownload
  <2> HIDE DEF c
  <2>3. /\ f \notin Occupied(pool)
        /\ Occupied(new) = Occupied(pool) \cup {f}
        /\ new.connections[f] = c
        /\ \A k \in Occupied(pool) : new.connections[k] = pool.connections[k]
    BY <1>1, <2>1, <2>2, AddToConsistent DEF c
  <2>4. table[p] # "freed"
    <3>1. Occupied(new) # Occupied(pool)
      BY <2>3
    <3>2. ~UNCHANGED vars
      BY <3>1 DEF vars, connVars
    <3> QED
      BY <2>3, <3>2 DEF Settled
  <2>5. table[p] # "none"
    BY <1>1, <2>1, <2>4 DEF Listed, IndicesOf
  <2>6. table'[p] = "live" /\ chunks'[p] = file
    BY <1>1, <2>1, <2>4, <2>5 DEF TableKept
  <2>7. \A k \in Occupied(new) : Listed(file, new.connections[k].sha1)
    <3>1. \A k \in Occupied(pool) : Listed(file, pool.connections[k].sha1)
      BY <1>2
    <3>2. Listed(file, c.sha1)
      BY <2>1, <2>2, <2>4
    <3> HIDE DEF pool, new, file, f
    <3> QED
      BY <2>3, <3>1, <3>2
  <2> QED
    BY <2>6, <2>7
<1>6. CASE Writes(p)
  <2>1. PICK q \in Peer, c \in DownloadConnection :
          /\ TableKept(p)
          /\ Connected(pool, q)
          /\ c.sha1 = Find(pool, q).sha1
          /\ new = Update(pool, q, c)
    BY <1>6 DEF Writes
  <2>2. /\ Occupied(new) = Occupied(pool)
        /\ \A k \in Occupied(pool) :
             new.connections[k].sha1 = pool.connections[k].sha1
    BY <1>1, <2>1, UpdateSlots DEF Find
  <2> QED
    BY <1>2, <2>1, <2>2 DEF TableKept
<1>7. CASE Finishes(p)
  <2>1. PICK q \in Peer, s \in {"DONE", "NOT_DOWNLOADED"} :
          /\ Connected(pool, q)
          /\ new = RemoveFrom(pool, q)
          /\ chunks'[p] = file
          /\ table'[p] \in {table[p], "freed"}
          /\ table[p] # "freed" =>
              /\ statuses'[p] = WithStatus(file, statuses[p], Find(pool, q).sha1, s)
              /\ table'[p] = "freed" <=> AllDone(statuses'[p])
    BY <1>7 DEF Finishes
  <2>2. /\ Occupied(new) \subseteq Occupied(pool)
        /\ \A k \in Occupied(new) : new.connections[k] = pool.connections[k]
    BY <1>1, <2>1, RemoveFromConsistent
  <2>3. /\ table[p] = "live"
        /\ \A k \in Occupied(new) : Listed(file, new.connections[k].sha1)
    BY <1>2, <2>2
  <2>4. Agrees(new, file, statuses'[p])
    <3>1. s # "DOWNLOADING" /\ Agrees(pool, file, statuses[p])
      BY <1>3, <2>3
    <3>2. Agrees(RemoveFrom(pool, q), file,
                 WithStatus(file, statuses[p], Find(pool, q).sha1, s))
      BY <1>1, <2>1, <3>1, FinishAgrees
    <3> QED
      BY <2>1, <2>3, <3>2
  <2>5. ~AllDone(statuses'[p])
    <3>1. PICK k \in Occupied(new) : TRUE
      OBVIOUS
    <3> DEFINE j == IndexOf(file, new.connections[k].sha1)
    <3>2. j \in DOMAIN file
      BY <1>1, <2>3, IndexOfHash
    <3>3. k \in Fetching(new, file, j)
      BY <2>3 DEF Fetching
    <3>4. statuses'[p][j] = "DOWNLOADING"
      BY <2>4, <3>2, <3>3 DEF Agrees
    <3>5. j \in DOMAIN statuses'[p]
      BY <2>1, <2>3, <3>2, <1>1 DEF WithStatus
    <3> QED
      BY <3>4, <3>5 DEF AllDone
  <2> QED
    BY <2>1, <2>3, <2>5
<1>8. CASE TimesOut(p)
  <2>1. PICK down \in SUBSET Occupied(pool) :
          /\ TableKept(p)
          /\ new = Checked(pool, down, WaitingDownloads(pool, down))
    BY <1>8 DEF TimesOut
  <2>2. /\ Occupied(new) \subseteq Occupied(pool)
        /\ \A k \in Occupied(new) :
             new.connections[k].sha1 = pool.connections[k].sha1
    BY <2>1, TimeoutSlots
  <2> QED
    BY <1>2, <2>1, <2>2 DEF TableKept
<1>9. CASE Asks(p)
  <2>1. pool.size = 0 /\ new = pool
    BY <1>9 DEF Asks
  <2>2. Occupied(pool) = {}
    <3>1. IsFiniteSet(Occupied(pool)) /\ Cardinality(Occupied(pool)) = 0
      BY <1>1, <2>1, PoolSlots DEF Consistent
    <3> QED
      BY <3>1, FS_EmptySet
  <2> QED
    BY <2>1, <2>2
<1>10. CASE Begins(p)
  <2>1. new = EmptyPool(max_conn[p])
    BY <1>10 DEF Begins, Restart, TypeOK, ConnOK
  <2> QED
    BY <1>1, <2>1, EmptyPoolType
<1> QED
  BY <1>4, <1>5, <1>6, <1>7, <1>8, <1>9, <1>10, NextTableStep DEF TableStep
\* Only a command asks for a file, and it touches no upload.
LEMMA CommandGets ==
    ASSUME [Next]_vars, NEW q, gets'[q] # gets[q]
    PROVE  UNCHANGED upload_pool
<1>1. ASSUME NEW p \in Peer, NEW t \in Peer, NEW i, ProcessPACKET(p, t, i)
      PROVE  UNCHANGED gets
  <2>1. UNCHANGED envVars
    BY <1>1
       DEF ProcessPACKET, ProcessWHOHAS, IgnoreIHAVE, StartDownload,
           CrashOnIHAVE, RefuseGET, AcceptGET, IgnoreDATA, RejectDATA,
           AcceptDATA, FinishChunk, FinishFile, CrashOnDATA, IgnoreACK,
           FinishUpload, CumulativeACK, DuplicateACK, FastRetransmit, StaleACK
  <2> QED
    BY <2>1 DEF envVars
<1>2. ASSUME NEW p \in Peer, SIGALRM(p)
      PROVE  UNCHANGED gets
  BY <1>2 DEF SIGALRM, HandleTimeout, envVars
<1>3. CASE Fault
  BY <1>3 DEF Fault, Lose, Duplicate, Die, Restart, envVars
<1>4. ASSUME NEW p \in Peer, Command(p)
      PROVE  UNCHANGED upload_pool
  BY <1>4 DEF Command, UserGet
<1>5. CASE UNCHANGED vars
  BY <1>5 DEF vars, envVars
<1> QED
  BY <1>1, <1>2, <1>3, <1>4, <1>5 DEF Next, Receive

\* Who is not started again has run before.
LEMMA StaysRunning ==
    ASSUME TypeOK, [Next]_vars, NEW q \in Peer, ~Restart(q), run'[q] = "running"
    PROVE  run[q] = "running"
<1>1. run \in [Peer -> {"running", "crashed", "killed"}]
  BY DEF TypeOK
<1>2. CASE UNCHANGED run
  BY <1>2
<1>3. ASSUME NEW p \in Peer, NEW t \in Peer, NEW i, ProcessPACKET(p, t, i)
      PROVE  UNCHANGED run \/ run' = [run EXCEPT ![p] = "crashed"]
  BY <1>3
     DEF ProcessPACKET, ProcessWHOHAS, IgnoreIHAVE, StartDownload,
         CrashOnIHAVE, RefuseGET, AcceptGET, IgnoreDATA, RejectDATA,
         AcceptDATA, FinishChunk, FinishFile, CrashOnDATA, IgnoreACK,
         FinishUpload, CumulativeACK, DuplicateACK, FastRetransmit, StaleACK,
         Crash
<1>4. ASSUME NEW p \in Peer, SIGALRM(p) \/ Command(p)
      PROVE  UNCHANGED run
  BY <1>4 DEF SIGALRM, HandleTimeout, Command, UserGet
<1>5. CASE Fault
  <2>1. ASSUME NEW p \in Peer, Die(p)
        PROVE  run[q] = "running"
    BY <1>1, <2>1 DEF Die
  <2>2. ASSUME NEW p \in Peer, Restart(p)
        PROVE  run[q] = "running"
    BY <1>1, <2>2 DEF Restart
  <2>3. ASSUME NEW p, NEW t, NEW i, Lose(p, t, i) \/ Duplicate(p, t, i)
        PROVE  UNCHANGED run
    BY <2>3 DEF Lose, Duplicate
  <2> QED
    BY <1>2, <1>5, <2>1, <2>2, <2>3 DEF Fault
<1>6. CASE UNCHANGED vars
  BY <1>2, <1>6 DEF vars
<1> QED
  BY <1>1, <1>2, <1>3, <1>4, <1>5, <1>6 DEF Next, Receive

\* What was saved stays saved until the next command.
LEMMA DoneKept ==
    ASSUME TypeOK, DownloadingIffConnected, Unfinished, [Next]_vars,
           NEW q \in Peer, gets'[q] = gets[q], run'[q] = run[q]
    PROVE  Done(q) \subseteq Done(q)'
<1>1. /\ chunks[q] \in Seq(Hash)
      /\ table[q] \in {"none", "live", "freed"}
      /\ table[q] = "none" => chunks[q] = <<>>
  BY DEF TypeOK, TableOK, Unfinished
<1>2. ~Asks(q) /\ ~Begins(q)
  BY DEF Asks, Begins
<1>3. chunks'[q] = chunks[q]
  BY <1>2, NextTableStep
     DEF TableStep, Untouched, Starts, Writes, Finishes, TimesOut, TableKept
<1>4. CASE table[q] = "none"
  BY <1>1, <1>4 DEF Done, DoneIn, Listed, IndicesOf
<1>5. CASE table[q] = "freed"
  <2>1. statuses'[q] = statuses[q]
    BY <1>2, <1>5, NextTableStep
       DEF TableStep, Untouched, Starts, Writes, Finishes, TimesOut
  <2> QED
    BY <1>3, <2>1 DEF Done
<1>6. CASE table[q] = "live"
  <2>1. \A j \in DOMAIN chunks[q] :
          statuses[q][j] = "DONE" => statuses'[q][j] = "DONE"
    BY <1>6, NextFinal
  <2>2. \A h : Listed(chunks[q], h) => IndexOf(chunks[q], h) \in DOMAIN chunks[q]
    BY <1>1, IndexOfHash
  <2> QED
    BY <1>3, <2>1, <2>2 DEF Done, DoneIn
<1> QED
  BY <1>1, <1>4, <1>5, <1>6

\* The last packet of a chunk saves it: it was not mixed with another.
LEMMA FinishSaves ==
    ASSUME TypeOK, PoolsConsistent, LinksOK, InUse,
           ~Reordered, WINDOW < CHUNK_SIZE,
           NEW p \in Peer, NEW q \in Peer, NEW i,
           FinishChunk(p, q, i) \/ FinishFile(p, q, i)
    PROVE  Down(p, q).sha1 \in Done(p)'
<1> DEFINE c == Down(p, q)
           data == net[q][p][i]
           h == c.sha1
<1>1. LastDATA(p, q, i)
  BY DEF FinishChunk, FinishFile
<1>2. /\ p # q /\ i = 1 /\ i \in DOMAIN net[q][p]
      /\ data.type = "DATA" /\ data.seq_num = CHUNK_SIZE
  BY <1>1, OldestPacket DEF LastDATA
<1>3. /\ Connected(download_pool[p], q)
      /\ c = Find(download_pool[p], q) /\ c # NULL
      /\ c \in DownloadConnection /\ c.expected_seq = CHUNK_SIZE
  BY <1>1, ConnectionsOf DEF LastDATA
<1>4. c.intact /\ data.sha1 = h
  <2>1. c.expected_seq # 1
    BY <1>3, WINDOW_Assumption, CHUNK_SIZE_Assumption
  <2>2. LinkOK(c, Up(q, p), net[p][q], net[q][p])
    BY <1>2 DEF LinksOK
  <2> QED
    BY <1>2, <1>3, <2>1, <2>2 DEF LinkOK, Reading
<1>5. /\ table[p] = "live"
      /\ Listed(chunks[p], h)
      /\ chunks[p] \in Seq(Hash) /\ h \in Hash
      /\ statuses[p] \in [DOMAIN chunks[p] -> Status]
      /\ DOMAIN statuses = Peer
  <2>1. /\ Min(SlotsOf(download_pool[p], q)) \in Occupied(download_pool[p])
        /\ c = download_pool[p].connections[Min(SlotsOf(download_pool[p], q))]
    BY <1>3, PoolsOfPeer, PoolConstants, FindInPool
  <2>2. table[p] = "live" /\ Listed(chunks[p], h)
    BY <2>1 DEF InUse
  <2>3. h \in Hash
    BY <1>3 DEF DownloadConnection
  <2> QED
    BY <2>2, <2>3 DEF TypeOK, TableOK
<1>6. /\ Received(c, data).sha1 = h
      /\ Received(c, data).intact = TRUE
  BY <1>3, <1>4 DEF Received, DownloadConnection
<1>7. /\ chunks' = chunks
      /\ statuses' = [statuses EXCEPT ![p] = Saved(p, q, i, statuses[p])]
  BY <1>5 DEF FinishChunk, FinishFile, CompletesChunk, Readings
<1>8. Saved(p, q, i, statuses[p]) = WithStatus(chunks[p], statuses[p], h, "DONE")
  BY <1>3, <1>6 DEF Saved, SavedStatus
<1> HIDE DEF c, data, h
<1>9. statuses'[p][IndexOf(chunks[p], h)] = "DONE"
  BY <1>5, <1>7, <1>8, IndexOfHash DEF WithStatus
<1>10. h \in Done(p)'
  BY <1>5, <1>7, <1>9 DEF Done, DoneIn
<1> QED
  BY <1>10 DEF h, c
\* Every step of one peer keeps the counters of every link in order.
LEMMA NextAcks ==
    ASSUME TypeOK, TypeOK', PoolsConsistent, WindowIsSent, LinksOK,
           DownloadingIffConnected, DownloadingIffConnected', Unfinished,
           InUse, InUse', AcksOK, ~Reordered, WINDOW < CHUNK_SIZE,
           Next, Undisturbed, [Settled]_vars
    PROVE  AcksOK'
<1> SUFFICES ASSUME NEW q \in Peer, run'[q] = "running", NEW p \in Peer, p # q
             PROVE  AckOK(Down(q, p)', Up(p, q)', net'[q][p], Done(q)')
  BY DEF AcksOK, Running
<1>1. PICK a \in Peer : \E out : LinkStep(a, out)
  BY NextLinkStep
<1>2. PICK out : LinkStep(a, out)
  BY <1>1
<1> DEFINE dn == Down(q, p)
           up == Up(p, q)
           r == net[q][p]
           s == net[p][q]
           dn2 == Down(q, p)'
           up2 == Up(p, q)'
           r2 == net'[q][p]
           saved == IF gets'[q] = gets[q] THEN Done(q) ELSE {}
           saved2 == Done(q)'
<1>3. run[q] = "running" /\ run'[q] = run[q]
  BY StaysRunning DEF Undisturbed
<1>4. /\ dn \in DownloadConnection \cup {NULL}
      /\ up \in UploadConnection \cup {NULL}
      /\ r \in Seq(Packet) /\ s \in Seq(Packet)
      /\ dn2 \in DownloadConnection \cup {NULL}
      /\ r2 \in Seq(Packet)
  <2>1. dn2 \in DownloadConnection \cup {NULL}
    <3>1. download_pool'[q] \in PoolOf(max_conn[q], DownloadConnection)
      BY DEF TypeOK, ConnOK
    <3> QED
      BY <3>1, PoolConstants, ConnType DEF Down
  <2>2. r2 \in Seq(Packet)
    BY DEF TypeOK
  <2> QED
    BY <2>1, <2>2, LinkTypes
<1>5. LinkOK(dn, up, r, s)
  BY DEF LinksOK
<1>6. Follows(r, IF q = a THEN out[p] ELSE <<>>, r2)
  BY <1>2 DEF LinkStep, Sends
<1>7. q # a => dn2 = dn
  BY <1>2 DEF LinkStep, Down
<1>8. p # a => up2 = up
  BY <1>2 DEF LinkStep, Up
<1>9. q = a => /\ Downloads(dn, s, out[p], dn2)
               /\ Confirms(q, p, out[p], dn2)
  BY <1>2 DEF LinkStep
<1>10. p = a => Uploads(up, r, out[q], up2)
  BY <1>2 DEF LinkStep
<1>11. AckOK(dn, up, r, saved) /\ saved \subseteq saved2
  <2>1. AckOK(dn, up, r, Done(q))
    BY <1>3 DEF AcksOK, Running
  <2>2. CASE gets'[q] = gets[q]
    BY <1>3, <2>1, <2>2, DoneKept
  <2>3. CASE gets'[q] # gets[q]
    <3>1. ~UNCHANGED vars
      BY <2>3 DEF vars, envVars
    <3>2. ~Connected(upload_pool[p], q)
      BY <2>3, <3>1 DEF Settled
    <3>3. up = NULL
      BY <3>2 DEF Up, Conn
    <3> QED
      BY <2>1, <2>3, <3>3 DEF AckOK
  <2> QED
    BY <2>2, <2>3
<1>12. dn2 # NULL => dn2.sha1 \notin saved2
  <2> SUFFICES ASSUME dn2 # NULL
               PROVE  dn2.sha1 \notin saved2
    OBVIOUS
  <2> DEFINE pool == download_pool'[q]
             file == chunks'[q]
             st == statuses'[q]
  <2>1. /\ pool \in PoolOf(max_conn[q], DownloadConnection)
        /\ max_conn[q] \in Nat
        /\ file \in Seq(Hash)
    BY PoolConstants DEF TypeOK, TableOK, ConnOK
  <2>2. dn2 = Conn(pool, p)
    BY DEF Down
  <2>3. Occupied(pool) # {}
    BY <2>1, <2>2, PoolConstants, ConnType, FindInPool
  <2>4. /\ table'[q] = "live"
        /\ \A k \in Occupied(pool) : Listed(file, pool.connections[k].sha1)
    BY <2>3 DEF InUse
  <2>5. Agrees(pool, file, st)
    BY <2>4 DEF DownloadingIffConnected, Downloading, Agrees, Fetching
  <2>6. saved2 = DoneIn(file, st)
    BY DEF Done
  <2> HIDE DEF pool, file, st, dn2, saved2
  <2> QED
    BY <2>1, <2>2, <2>4, <2>5, <2>6, FreshDownload
<1>13. dn # NULL /\ dn2 = NULL => dn.sha1 \in saved2
  <2> SUFFICES ASSUME dn # NULL, dn2 = NULL
               PROVE  dn.sha1 \in saved2
    OBVIOUS
  <2>1. PICK i : FinishChunk(q, p, i) \/ FinishFile(q, p, i)
    BY <1>7, <1>9 DEF Confirms
  <2> QED
    BY <2>1, FinishSaves
<1>14. q = a /\ dn2 # NULL => \A b \in DOMAIN out[p] :
         out[p][b].type = "ACK" => out[p][b].ack_num < dn2.expected_seq
  BY <1>9 DEF Confirms
<1> HIDE DEF dn, up, r, s, dn2, up2, r2, saved, saved2
<1>15. AckOK(dn2, up2, r2, saved2)
  <2>1. CASE q = a
    BY <1>4, <1>5, <1>6, <1>8, <1>9, <1>11, <1>12, <1>13, <1>14, <2>1,
       DownloaderAcks
  <2>2. CASE p = a
    BY <1>4, <1>5, <1>6, <1>7, <1>10, <1>11, <2>2, UploaderAcks
  <2>3. CASE q # a /\ p # a
    <3>1. Uploads(up, r, <<>>, up)
      BY DEF Uploads, SameUpload, NoneOf
    <3> QED
      BY <1>4, <1>5, <1>6, <1>7, <1>8, <1>11, <2>3, <3>1, UploaderAcks
  <2> QED
    BY <2>1, <2>2, <2>3
<1> QED
  BY <1>15 DEF dn2, up2, r2, saved2

\* Nothing is connected, and nothing on its way.
LEMMA InitAcks == Init => AcksOK /\ InUse
<1> SUFFICES ASSUME Init
             PROVE  AcksOK /\ InUse
  OBVIOUS
<1>1. \A p \in Peer : Occupied(EmptyPool(max_conn[p])) = {}
  BY PoolConstants, EmptyPoolType
<1>2. \A p \in Peer : /\ Occupied(download_pool[p]) = {}
                      /\ Occupied(upload_pool[p]) = {}
  BY <1>1 DEF Init
<1>3. \A p, q \in Peer : Down(p, q) = NULL /\ Up(p, q) = NULL
  BY <1>2 DEF Down, Up, Conn, Connected, SlotsOf
<1>4. AcksOK
  BY <1>3 DEF AcksOK, AckOK, Running
<1>5. InUse
  BY <1>2 DEF InUse
<1> QED
  BY <1>4, <1>5

\* Counters in order, and what is saved is intact.
LEMMA AcksAreReceived ==
    ASSUME TypeOK, PoolsConsistent, LinksOK, DoneIsIntact, AcksOK
    PROVE  AckedIsReceived
<1> SUFFICES ASSUME NEW p \in Running, NEW q \in Running,
                    Connected(upload_pool[p], q)
             PROVE  LET c == Find(upload_pool[p], q)
                        j == IndexOf(chunks[q], c.sha1)
                    IN  IF Connected(download_pool[q], p)
                           /\ Find(download_pool[q], p).sha1 = c.sha1
                        THEN c.last_acked < Find(download_pool[q], p).expected_seq
                        ELSE chunks_data[q][j] = "intact"
  BY DEF AckedIsReceived
<1>1. p \in Peer /\ q \in Peer
  BY DEF Running
<1>2. Up(p, q) = Find(upload_pool[p], q) /\ Up(p, q) # NULL
  BY <1>1, ConnectionsOf
<1>3. p # q
  BY <1>1, <1>2 DEF LinksOK
<1>4. /\ Connected(download_pool[q], p) <=> Down(q, p) # NULL
      /\ Connected(download_pool[q], p) => Down(q, p) = Find(download_pool[q], p)
  BY <1>1, ConnectionsOf
<1> DEFINE c == Find(upload_pool[p], q)
           d == Find(download_pool[q], p)
           j == IndexOf(chunks[q], c.sha1)
<1>5. IF Connected(download_pool[q], p) /\ d.sha1 = c.sha1
      THEN c.last_acked < d.expected_seq
      ELSE c.sha1 \in Done(q)
  <2>1. AckOK(Down(q, p), Up(p, q), net[q][p], Done(q))
    BY <1>1, <1>3 DEF AcksOK
  <2> HIDE DEF c, d
  <2>2. c = Up(p, q) /\ (Down(q, p) # NULL => d = Down(q, p))
    BY <1>2, <1>4 DEF c, d
  <2> QED
    BY <1>2, <1>4, <2>1, <2>2 DEF AckOK
<1>6. c.sha1 \in Done(q) => chunks_data[q][j] = "intact"
  <2>1. chunks[q] \in Seq(Hash)
    BY <1>1 DEF TypeOK, TableOK
  <2> HIDE DEF c
  <2>2. c.sha1 \in Done(q) => j \in DOMAIN chunks[q] /\ statuses[q][j] = "DONE"
    BY <2>1, IndexOfHash DEF Done, DoneIn
  <2> QED
    BY <1>1, <2>2 DEF DoneIsIntact
<1> HIDE DEF c, d, j
<1>7. IF Connected(download_pool[q], p) /\ d.sha1 = c.sha1
      THEN c.last_acked < d.expected_seq
      ELSE chunks_data[q][j] = "intact"
  BY <1>5, <1>6
<1> QED
  BY <1>7 DEF c, d, j

\* Under the same conditions, and as long as users ask for a file when the last
\* one is written and acknowledged, every packet an uploader of process_ACK
\* takes for acknowledged was read by process_DATA: by the connection that
\* downloads its chunk, or into the chunk that save_data has accepted.  No ACK
\* of one chunk moves the window of another.
THEOREM AckedAlwaysReceived ==
    ASSUME ~Reordered, ~Overlap, WINDOW < CHUNK_SIZE
    PROVE  Spec /\ [][Undisturbed /\ Settled]_vars => []AckedIsReceived
<1> DEFINE Inv == /\ TypeOK /\ PoolsConsistent /\ WindowIsSent /\ LinksOK
                  /\ DownloadingIffConnected /\ DoneIsIntact /\ Unfinished
                  /\ InUse /\ AcksOK
           Calm == Undisturbed /\ Settled
<1>1. Init => Inv
  BY InitType, InitPools, InitWindow, InitLinks, InitDownloading, InitIntact,
     InitUnfinished, InitAcks
<1>2. ASSUME Inv, [Next]_vars, [Calm]_vars
      PROVE  Inv'
  <2>1. TypeOK' /\ PoolsConsistent' /\ WindowIsSent'
    BY <1>2, NextType, NextPools, NextWindow
  <2>2. [Undisturbed]_vars /\ [Settled]_vars
    BY <1>2
  <2>3. LinksOK'
    BY <1>2, <2>1, <2>2, NextLinks
  <2>4. DownloadingIffConnected' /\ DoneIsIntact' /\ Unfinished'
    BY <1>2, NextDownloading, NextIntact, NextUnfinished
  <2>5. InUse'
    BY <1>2, <2>2, NextInUse
  <2>6. AcksOK'
    <3>1. CASE Next /\ Undisturbed
      BY <1>2, <2>1, <2>2, <2>4, <2>5, <3>1, NextAcks
    <3>2. CASE UNCHANGED vars
      BY <1>2, <3>2
         DEF vars, tableVars, connVars, AcksOK, Running, Down, Up, Done
    <3> QED
      BY <1>2, <3>1, <3>2
  <2> QED
    BY <2>1, <2>3, <2>4, <2>5, <2>6
<1>3. Inv => AckedIsReceived
  BY AcksAreReceived
<1> HIDE DEF Inv
<1>4. Spec /\ [][Calm]_vars => []AckedIsReceived
  BY <1>1, <1>2, <1>3, PTL DEF Spec
<1> QED
  BY <1>4 DEF Calm
=============================================================================
