------------------------- MODULE RouteJourneyProofs --------------------------
(***************************************************************************)
(* Theorems about packets on their way through a mesh, for any repeaters,  *)
(* links, routes and texts.                                                *)
(***************************************************************************)
EXTENDS RouteJourney, SequenceTheorems, FiniteSetTheorems, TLAPS

(* Sequences, first: the parts of a packet.                                *)
\* The part of a sequence from m to n.
LEMMA PartFacts ==
  ASSUME NEW S, NEW s \in Seq(S), NEW m \in Nat \ {0}, NEW n \in 0..Len(s)
  PROVE  /\ SubSeq(s, m, n) \in Seq(S)
         /\ Len(SubSeq(s, m, n)) = IF m <= n THEN n - m + 1 ELSE 0
         /\ \A i \in 1..(n - m + 1) : SubSeq(s, m, n)[i] = s[m + i - 1]
<1>1. /\ m \in Int /\ n \in Int /\ Len(s) \in Nat
      /\ \A i \in m..n : s[i] \in S
  OBVIOUS
<1> QED
  BY <1>1, SubSeqProperties

\* Two sequences, one after the other.
LEMMA JoinFacts ==
  ASSUME NEW S, NEW s \in Seq(S), NEW t \in Seq(S)
  PROVE  /\ s \o t \in Seq(S)
         /\ Len(s \o t) = Len(s) + Len(t) /\ Len(s) \in Nat /\ Len(t) \in Nat
OBVIOUS

\* What stands first in a joined sequence.
LEMMA FirstFacts ==
  ASSUME NEW S, NEW s \in Seq(S), NEW t \in Seq(S), Len(s) > 0
  PROVE  SubSeq(s \o t, 1, Len(s)) = s
<1>1. 1 \in 1..Len(s) /\ Len(s) \in 1..Len(s)
  OBVIOUS
<1>2. SubSeq(s \o t, 1, Len(s)) = SubSeq(s, 1, Len(s))
  BY <1>1, SubSeqOfConcat1
<1> QED
  BY <1>2, SubSeqFull

\* What follows the first part of a sequence.
LEMMA RestFacts ==
  ASSUME NEW S, NEW s \in Seq(S), NEW t \in Seq(S)
  PROVE  SubSeq(s \o t, Len(s) + 1, Len(s \o t)) = t
<1>1. /\ s \o t \in Seq(S) /\ Len(s \o t) = Len(s) + Len(t)
      /\ Len(s) \in Nat /\ Len(t) \in Nat
  OBVIOUS
<1>2. CASE Len(t) = 0
  <2>1. t = <<>>
    BY <1>2
  <2>2. Len(s \o t) < Len(s) + 1 /\ Len(s) + 1 \in Int /\ Len(s \o t) \in Int
    BY <1>1, <1>2
  <2> QED
    BY <2>1, <2>2, SubSeqEmpty
<1>3. CASE Len(t) > 0
  <2>1. /\ Len(s) + 1 \in (Len(s) + 1)..(Len(s) + Len(t))
        /\ Len(s \o t) \in (Len(s) + 1)..(Len(s) + Len(t))
        /\ Len(s) + 1 - Len(s) = 1 /\ Len(s \o t) - Len(s) = Len(t)
    BY <1>1, <1>3
  <2>2. SubSeq(s \o t, Len(s) + 1, Len(s \o t)) = SubSeq(t, 1, Len(t))
    BY <2>1, SubSeqOfConcat2
  <2> QED
    BY <2>2, SubSeqFull
<1> QED
  BY <1>1, <1>2, <1>3

\* A sequence over a set is one over a larger set.
LEMMA WiderFacts ==
  ASSUME NEW S, NEW T, S \subseteq T, NEW s \in Seq(S)
  PROVE  s \in Seq(T)
OBVIOUS

\* A sequence between two elements.
LEMMA BetweenFacts ==
  ASSUME NEW S, NEW a \in S, NEW s \in Seq(S), NEW b \in S,
         NEW w, w = <<a>> \o s \o <<b>>
  PROVE  /\ w \in Seq(S) /\ Len(w) = Len(s) + 2 /\ Len(s) \in Nat
         /\ w[1] = a /\ w[Len(s) + 2] = b
         /\ \A i \in 1..Len(s) : w[i + 1] = s[i]
<1>1. PICK x : x = <<a>>
  OBVIOUS
<1>2. PICK y : y = <<b>>
  OBVIOUS
<1>3. x \in Seq(S) /\ Len(x) = 1 /\ x[1] = a
  BY <1>1
<1>4. y \in Seq(S) /\ Len(y) = 1 /\ y[1] = b
  BY <1>2
<1>5. PICK z : z = x \o s
  OBVIOUS
<1>6. z \in Seq(S) /\ Len(z) = Len(s) + 1 /\ Len(s) \in Nat
  <2>1. z \in Seq(S) /\ Len(z) = Len(x) + Len(s) /\ Len(s) \in Nat
    BY <1>3, <1>5, JoinFacts
  <2> QED
    BY <1>3, <2>1
<1>7. z[1] = a /\ \A i \in 1..Len(s) : z[i + 1] = s[i]
  BY <1>3, <1>5, <1>6
<1>8. w = z \o y
  BY <1>1, <1>2, <1>5
<1>9. w \in Seq(S) /\ Len(w) = Len(s) + 2
  <2>1. w \in Seq(S) /\ Len(w) = Len(z) + Len(y)
    BY <1>4, <1>6, <1>8, JoinFacts
  <2> QED
    BY <1>4, <1>6, <2>1
<1>10. PICK n \in Nat : n = Len(s)
  BY <1>6
<1>11. w[n + 2] = b /\ \A i \in 1..(n + 1) : w[i] = z[i]
  BY <1>4, <1>6, <1>8, <1>9, <1>10
<1> QED
  BY <1>6, <1>7, <1>9, <1>10, <1>11

-----------------------------------------------------------------------------
(* Packets.                                                                *)

\* Bytes, as arithmetic knows them.
LEMMA ByteFacts == \A b : b \in Bytes <=> b \in Nat /\ b < 256
BY DEF Bytes

\* Bytes are numbers.
LEMMA BytesAreNumbers ==
  ASSUME NEW s \in Seq(Bytes)
  PROVE  s \in Seq(Nat)
<1>1. Bytes \subseteq Nat
  BY ByteFacts
<1> QED
  BY <1>1, WiderFacts

\* A 16-bit number is its two bytes.
LEMMA WordFacts ==
  ASSUME NEW c \in Nat, c < 65536
  PROVE  c % 256 \in Bytes /\ c \div 256 \in Bytes /\ (c % 256) + 256 * (c \div 256) = c
BY ByteFacts

\* And the other way round: what two bytes make, and two such numbers.
Word(a, b) == a + 256 * b
Words      == {w \in Nat : w < 65536}

LEMMA WordOfBytes ==
  ASSUME NEW a \in Bytes, NEW b \in Bytes
  PROVE  Word(a, b) \in Words
BY ByteFacts DEF Word, Words

LEMMA WordPair ==
  ASSUME NEW x \in Words, NEW y \in Words, NEW c, c = <<x, y>>
  PROVE  c \in Codes
BY DEF Words, Codes

\* The bytes in front of the path.
Lead(p) == <<p.header>> \o (IF HasTransportCodes(p.header) THEN CodeBytes(p.codes) ELSE <<>>)
                        \o <<p.lenByte>>

LeadLen(header) == IF HasTransportCodes(header) THEN 6 ELSE 2

\* A pair is its two elements.
LEMMA PairFacts ==
  ASSUME NEW c \in Seq(Nat), Len(c) = 2
  PROVE  c[1] \in Nat /\ c[2] \in Nat /\ c = <<c[1], c[2]>>
OBVIOUS

\* The two transport codes, written little-endian in four bytes and read back.
LEMMA CodesFacts ==
  ASSUME NEW c \in Codes
  PROVE  /\ CodeBytes(c) \in Seq(Bytes) /\ Len(CodeBytes(c)) = 4
         /\ CodeBytes(c)[1] + 256 * CodeBytes(c)[2] = c[1]
         /\ CodeBytes(c)[3] + 256 * CodeBytes(c)[4] = c[2]
         /\ c = <<c[1], c[2]>>
<1>1. c \in Seq(Nat) /\ Len(c) = 2 /\ c[1] < 65536 /\ c[2] < 65536
  BY DEF Codes
<1>2. c[1] \in Nat /\ c[2] \in Nat /\ c = <<c[1], c[2]>>
  BY <1>1, PairFacts
<1>3. /\ c[1] % 256 \in Bytes /\ c[1] \div 256 \in Bytes /\ (c[1] % 256) + 256 * (c[1] \div 256) = c[1]
      /\ c[2] % 256 \in Bytes /\ c[2] \div 256 \in Bytes /\ (c[2] % 256) + 256 * (c[2] \div 256) = c[2]
  BY <1>1, <1>2, WordFacts
<1>4. ASSUME NEW a \in Bytes, NEW b \in Bytes, NEW d \in Bytes, NEW e \in Bytes,
             NEW s, s = <<a, b, d, e>>
      PROVE  s \in Seq(Bytes) /\ Len(s) = 4 /\ s[1] = a /\ s[2] = b /\ s[3] = d /\ s[4] = e
  BY <1>4
<1> QED
  BY <1>2, <1>3, <1>4 DEF CodeBytes

\* They are two or six, and say all that stands before the path.
LEMMA LeadFacts ==
  ASSUME NEW p \in Packets
  PROVE  /\ Lead(p) \in Seq(Bytes)
         /\ Len(Lead(p)) = LeadLen(p.header)
         /\ Lead(p)[1] = p.header
         /\ Lead(p)[LeadLen(p.header)] = p.lenByte
         /\ HasTransportCodes(p.header) =>
              /\ Lead(p)[2] + 256 * Lead(p)[3] = p.codes[1]
              /\ Lead(p)[4] + 256 * Lead(p)[5] = p.codes[2]
<1>1. p.header \in Bytes /\ p.lenByte \in Bytes /\ p.codes \in Codes
  BY DEF Packets
<1>2. PICK w : w = Lead(p)
  OBVIOUS
<1>0. PICK h \in Bytes, b \in Bytes : h = p.header /\ b = p.lenByte
  BY <1>1
<1>3. CASE HasTransportCodes(p.header)
  <2>1. PICK s : s = CodeBytes(p.codes)
    OBVIOUS
  <2>2. /\ s \in Seq(Bytes) /\ Len(s) = 4
        /\ s[1] + 256 * s[2] = p.codes[1] /\ s[3] + 256 * s[4] = p.codes[2]
    BY <1>1, <2>1, CodesFacts
  <2>3. w = <<h>> \o s \o <<b>>
    BY <1>0, <1>2, <1>3, <2>1 DEF Lead
  <2>4. /\ w \in Seq(Bytes) /\ Len(w) = Len(s) + 2
        /\ w[1] = h /\ w[Len(s) + 2] = b
        /\ \A i \in 1..Len(s) : w[i + 1] = s[i]
    <3>1. s \in Seq(Bytes)
      BY <2>2
    <3> QED
      BY ONLY h \in Bytes, b \in Bytes, <3>1, <2>3, BetweenFacts
  <2>5. Len(w) = 6 /\ w[6] = b /\ w[2] = s[1] /\ w[3] = s[2] /\ w[4] = s[3] /\ w[5] = s[4]
    BY <2>2, <2>4
  <2> QED
    BY <1>0, <1>2, <1>3, <2>2, <2>4, <2>5 DEF LeadLen
<1>4. CASE ~HasTransportCodes(p.header)
  <2>1. PICK s : s = <<>>
    OBVIOUS
  <2>2. s \in Seq(Bytes) /\ Len(s) = 0
    BY <2>1
  <2>3. w = <<h>> \o s \o <<b>>
    BY <1>0, <1>2, <1>4, <2>1 DEF Lead
  <2>4. w \in Seq(Bytes) /\ Len(w) = Len(s) + 2 /\ w[1] = h /\ w[Len(s) + 2] = b
    BY <2>2, <2>3, BetweenFacts
  <2> QED
    BY <1>0, <1>2, <1>4, <2>2, <2>4 DEF LeadLen
<1> QED
  BY <1>3, <1>4

\* What to_bytes makes of a packet: these, the path and the payload.
IsLaidOut(p, k, e, data) ==
  /\ data \in Seq(Nat) /\ Len(data) = e + Len(p.payload)
  /\ k \in {2, 6} /\ k <= e /\ e \in Nat
  /\ \A i \in 1..k : data[i] = Lead(p)[i]
  /\ SubSeq(data, k + 1, e) = p.path
  /\ SubSeq(data, e + 1, Len(data)) = p.payload

\* Where to_bytes puts each field.
LEMMA ToBytesFacts ==
  ASSUME NEW p \in Packets
  PROVE  IsLaidOut(p, LeadLen(p.header), LeadLen(p.header) + Len(p.path), ToBytes(p))
<1>a. PICK k : k = LeadLen(p.header)
  OBVIOUS
<1>b. PICK e : e = k + Len(p.path)
  OBVIOUS
<1>c. PICK data : data = ToBytes(p)
  OBVIOUS
<1>1. PICK f : f = Lead(p)
  OBVIOUS
<1>2. PICK g : g = f \o p.path
  OBVIOUS
<1>3. data = g \o p.payload
  BY <1>1, <1>2, <1>c DEF ToBytes, Lead
<1>4. f \in Seq(Nat) /\ Len(f) = k /\ k \in {2, 6}
  <2>1. f \in Seq(Bytes) /\ Len(f) = k
    BY <1>1, <1>a, LeadFacts
  <2> QED
    BY <2>1, <1>a, BytesAreNumbers DEF LeadLen
<1>5. p.path \in Seq(Nat) /\ p.payload \in Seq(Nat)
  BY BytesAreNumbers DEF Packets
<1>6. g \in Seq(Nat) /\ Len(g) = e /\ Len(p.path) \in Nat /\ e \in Nat /\ k <= e
  <2>1. g \in Seq(Nat) /\ Len(g) = Len(f) + Len(p.path) /\ Len(p.path) \in Nat
    BY <1>2, <1>4, <1>5, JoinFacts
  <2> QED
    BY <1>4, <1>b, <2>1
<1>7. data \in Seq(Nat) /\ Len(data) = e + Len(p.payload)
  BY <1>3, <1>5, <1>6, JoinFacts
<1>8. SubSeq(data, e + 1, Len(data)) = p.payload
  BY <1>3, <1>5, <1>6, RestFacts
<1>9. \A i \in 1..e : data[i] = g[i]
  BY <1>3, <1>5, <1>6
<1>10. \A i \in 1..k : data[i] = f[i]
  BY <1>2, <1>4, <1>5, <1>6, <1>9
<1>11. SubSeq(data, k + 1, e) = SubSeq(g, k + 1, e)
  <2>1. CASE p.path = <<>>
    <3>1. e < k + 1 /\ k + 1 \in Int /\ e \in Int
      BY <1>4, <1>6, <1>b, <2>1
    <3> QED
      BY <3>1, SubSeqEmpty
  <2>2. CASE p.path # <<>>
    <3>1. Len(p.path) > 0
      BY <1>5, <2>2
    <3>2. k + 1 \in 1..Len(g) /\ e \in 1..Len(g)
      BY <1>4, <1>6, <1>b, <3>1
    <3> QED
      BY <1>3, <1>5, <1>6, <3>2, SubSeqOfConcat1
  <2> QED
    BY <2>1, <2>2
<1>12. SubSeq(g, k + 1, e) = p.path
  BY <1>2, <1>4, <1>5, <1>6, RestFacts
<1>13. IsLaidOut(p, k, e, data)
  BY <1>1, <1>4, <1>6, <1>7, <1>8, <1>10, <1>11, <1>12 DEF IsLaidOut
<1> QED
  BY <1>a, <1>b, <1>c, <1>13

\* parse gives back what to_bytes wrote, for every packet whose fields agree.
THEOREM ParseOfToBytes ==
  ASSUME NEW p \in Packets, IsPacket(p)
  PROVE  Parse(ToBytes(p)) = p
<1>1. PICK k : k = LeadLen(p.header)
  OBVIOUS
<1>2. PICK e : e = k + Len(p.path)
  OBVIOUS
<1>3. PICK data : data = ToBytes(p)
  OBVIOUS
<1>4. /\ data \in Seq(Nat) /\ Len(data) = e + Len(p.payload)
      /\ k \in {2, 6} /\ k <= e /\ e \in Nat
      /\ \A i \in 1..k : data[i] = Lead(p)[i]
      /\ SubSeq(data, k + 1, e) = p.path
      /\ SubSeq(data, e + 1, Len(data)) = p.payload
  <2>1. IsLaidOut(p, k, e, data)
    BY <1>1, <1>2, <1>3, ToBytesFacts
  <2> QED
    BY <2>1 DEF IsLaidOut
<1>5. data[1] = p.header /\ data[k] = p.lenByte
  <2>1. 1 \in 1..k /\ k \in 1..k
    BY <1>4
  <2>2. data[1] = Lead(p)[1] /\ data[k] = Lead(p)[k]
    BY <1>4, <2>1
  <2> QED
    BY <1>1, <2>2, LeadFacts
<1>6. PathLenAt(data) = k /\ PathEnd(data) = e
  BY <1>1, <1>2, <1>5 DEF PathLenAt, PathEnd, LeadLen, IsPacket
<1>7. /\ Len(p.payload) \in 1..MAX_PACKET_PAYLOAD /\ Len(p.payload) \in Nat
      /\ IsValidPathLen(p.lenByte)
  BY CodecAssumption DEF IsPacket, Packets
<1>8. /\ ~(Len(data) < 2) /\ ~(k > Len(data)) /\ Len(data) - e = Len(p.payload)
  <2>1. PICK n \in Nat : n = Len(p.payload)
    BY <1>7
  <2>2. n >= 1 /\ Len(data) = e + n /\ k >= 2 /\ k \in Nat /\ k <= e /\ e \in Nat
    BY <1>4, <1>7, <2>1
  <2> QED
    BY <2>1, <2>2
<1>9. IF HasTransportCodes(p.header)
      THEN <<data[2] + 256 * data[3], data[4] + 256 * data[5]>> = p.codes
      ELSE NoCodes = p.codes
  <2>1. CASE HasTransportCodes(p.header)
    <3>1. k = 6
      BY <1>1, <2>1 DEF LeadLen
    <3>2. /\ data[2] = Lead(p)[2] /\ data[3] = Lead(p)[3]
          /\ data[4] = Lead(p)[4] /\ data[5] = Lead(p)[5]
      BY <1>4, <3>1
    <3>3. p.codes = <<p.codes[1], p.codes[2]>>
      BY CodesFacts DEF Packets
    <3> QED
      BY <2>1, <3>2, <3>3, LeadFacts
  <2>2. CASE ~HasTransportCodes(p.header)
    BY <2>2 DEF IsPacket
  <2> QED
    BY <2>1, <2>2
<1>10. p = [header |-> p.header, codes |-> p.codes, lenByte |-> p.lenByte,
            path |-> p.path, payload |-> p.payload]
  BY DEF Packets
<1> QED
  BY <1>3, <1>4, <1>5, <1>6, <1>7, <1>8, <1>9, <1>10 DEF Parse, IsPayloadLen

\* Sequences that agree in three parts are equal.
LEMMA SameParts ==
  ASSUME NEW S, NEW s \in Seq(S), NEW t \in Seq(S), Len(s) = Len(t),
         NEW k \in Nat, NEW e \in Nat, k <= e, e <= Len(s),
         \A i \in 1..k : s[i] = t[i],
         SubSeq(s, k + 1, e) = SubSeq(t, k + 1, e),
         SubSeq(s, e + 1, Len(s)) = SubSeq(t, e + 1, Len(t))
  PROVE  s = t
<1>1. PICK n \in Nat : n = Len(s)
  OBVIOUS
<1>2. ASSUME NEW m \in Nat \ {0}, NEW l \in 0..n, SubSeq(s, m, l) = SubSeq(t, m, l),
             NEW i \in m..l
      PROVE  s[i] = t[i]
  <2>1. /\ \A j \in 1..(l - m + 1) : SubSeq(s, m, l)[j] = s[m + j - 1]
        /\ \A j \in 1..(l - m + 1) : SubSeq(t, m, l)[j] = t[m + j - 1]
    <3>1. l \in 0..Len(s) /\ l \in 0..Len(t) /\ m \in Nat \ {0}
      BY <1>1
    <3>2. \A j \in 1..(l - m + 1) : SubSeq(s, m, l)[j] = s[m + j - 1]
      BY ONLY s \in Seq(S), <3>1, PartFacts
    <3>3. \A j \in 1..(l - m + 1) : SubSeq(t, m, l)[j] = t[m + j - 1]
      BY ONLY t \in Seq(S), <3>1, PartFacts
    <3> QED
      BY <3>2, <3>3
  <2>2. PICK j \in 1..(l - m + 1) : i = m + j - 1
    <3>1. i - m + 1 \in 1..(l - m + 1) /\ i = m + (i - m + 1) - 1
      OBVIOUS
    <3> QED
      BY <3>1
  <2> QED
    BY <1>2, <2>1, <2>2
<1>3. ASSUME NEW i \in 1..n
      PROVE  s[i] = t[i]
  <2>1. CASE i <= k
    BY <2>1
  <2>2. CASE k < i /\ i <= e
    <3>1. k + 1 \in Nat \ {0} /\ e \in 0..n /\ i \in (k + 1)..e
      BY <1>1, <2>2
    <3> QED
      BY <1>2, <3>1
  <2>3. CASE e < i
    <3>1. e + 1 \in Nat \ {0} /\ n \in 0..n /\ i \in (e + 1)..n
      BY <1>1, <2>3
    <3>2. SubSeq(s, e + 1, n) = SubSeq(t, e + 1, n)
      BY <1>1
    <3> QED
      BY <1>2, <3>1, <3>2
  <2> QED
    BY <2>1, <2>2, <2>3
<1> QED
  BY <1>1, <1>3, SeqEqual

\* What parse makes of bytes it takes: a packet, which is one way to cut them,
\* and whose bytes they are.
LEMMA ParseFacts ==
  ASSUME NEW data \in Seq(Bytes), Parse(data) # Malformed
  PROVE  /\ Parse(data) \in Packets /\ IsPacket(Parse(data))
         /\ ToBytes(Parse(data)) = data /\ Parse(data) \in Cuts(data)
<1>1. PICK k : k = PathLenAt(data)
  OBVIOUS
<1>2. PICK e : e = PathEnd(data)
  OBVIOUS
<1>3. PICK n \in Nat : n = Len(data)
  OBVIOUS
<1>4. PICK q : q = Parse(data)
  OBVIOUS
<1>5. PICK codes : codes = IF HasTransportCodes(data[1])
                           THEN <<data[2] + 256 * data[3], data[4] + 256 * data[5]>>
                           ELSE NoCodes
  OBVIOUS
<1>6. /\ n >= 2 /\ ~(k > n) /\ IsValidPathLen(data[k]) /\ n - e \in 1..MAX_PACKET_PAYLOAD
      /\ q = [header |-> data[1], codes |-> codes, lenByte |-> data[k],
              path |-> SubSeq(data, k + 1, e), payload |-> SubSeq(data, e + 1, n)]
  BY <1>1, <1>2, <1>3, <1>4, <1>5 DEF Parse, IsPayloadLen
<1>7. /\ q.header = data[1] /\ q.codes = codes /\ q.lenByte = data[k]
      /\ q.path = SubSeq(data, k + 1, e) /\ q.payload = SubSeq(data, e + 1, n)
  BY <1>6
<1>8. k = LeadLen(data[1]) /\ k \in {2, 6} /\ k \in 1..n
  BY <1>1, <1>3, <1>6 DEF PathLenAt, LeadLen
<1>9. \A i \in 1..n : data[i] \in Bytes /\ data[i] \in Nat /\ data[i] < 256
  BY <1>3, ByteFacts
<1>10. PathByteLen(data[k]) \in Nat /\ e = k + PathByteLen(data[k])
  <2>1. data[k] \in Nat
    BY <1>8, <1>9
  <2>2. data[k] % 64 \in Nat /\ data[k] \div 64 \in Nat
    BY <2>1
  <2> QED
    BY <1>1, <1>2, <2>2 DEF PathEnd, PathByteLen, HashCount, HashSize
<1>11. e \in Nat /\ k <= e /\ e < n /\ n - e <= MAX_PACKET_PAYLOAD
  <2>1. e \in Nat /\ k <= e
    BY <1>8, <1>10
  <2>2. MAX_PACKET_PAYLOAD \in Nat /\ n - e \in 1..MAX_PACKET_PAYLOAD
    BY <1>6, CodecAssumption, ByteFacts
  <2> QED
    BY <2>1, <2>2
<1>12. q.path \in Seq(Bytes) /\ Len(q.path) = PathByteLen(data[k])
  <2>1. /\ SubSeq(data, k + 1, e) \in Seq(Bytes)
        /\ Len(SubSeq(data, k + 1, e)) = IF k + 1 <= e THEN e - (k + 1) + 1 ELSE 0
    <3>1. k + 1 \in Nat \ {0} /\ e \in 0..Len(data)
      BY <1>3, <1>8, <1>11
    <3> QED
      BY <3>1, PartFacts
  <2>2. Len(SubSeq(data, k + 1, e)) = e - k
    BY <1>8, <1>11, <2>1
  <2> QED
    BY <1>7, <1>8, <1>10, <2>1, <2>2, SMTT(30)
<1>13. q.payload \in Seq(Bytes) /\ Len(q.payload) = n - e
  <2>1. /\ SubSeq(data, e + 1, n) \in Seq(Bytes)
        /\ Len(SubSeq(data, e + 1, n)) = IF e + 1 <= n THEN n - (e + 1) + 1 ELSE 0
    <3>1. e + 1 \in Nat \ {0} /\ n \in 0..Len(data)
      BY <1>3, <1>11
    <3> QED
      BY <3>1, PartFacts
  <2>2. Len(SubSeq(data, e + 1, n)) = n - e
    BY <1>11, <2>1
  <2> QED
    BY <1>7, <2>1, <2>2
<1>14. codes \in Codes
  <2>1. CASE HasTransportCodes(data[1])
    <3>1. k = 6
      BY <1>8, <2>1 DEF LeadLen
    <3>2. 2 \in 1..n /\ 3 \in 1..n /\ 4 \in 1..n /\ 5 \in 1..n
      BY <1>8, <3>1
    <3>3. data[2] \in Bytes /\ data[3] \in Bytes /\ data[4] \in Bytes /\ data[5] \in Bytes
      BY <1>9, <3>2
    <3>4. Word(data[2], data[3]) \in Words /\ Word(data[4], data[5]) \in Words
      BY ONLY <3>3, WordOfBytes
    <3>5. codes = <<Word(data[2], data[3]), Word(data[4], data[5])>>
      BY <1>5, <2>1 DEF Word
    <3> QED
      BY ONLY <3>4, <3>5, WordPair
  <2>2. CASE ~HasTransportCodes(data[1])
    <3>1. 0 \in Words /\ codes = <<0, 0>>
      BY <1>5, <2>2 DEF NoCodes, Words
    <3> QED
      BY ONLY <3>1, WordPair
  <2> QED
    BY <2>1, <2>2
<1>15. q \in Packets
  <2>1. 1 \in 1..n
    BY <1>6
  <2>2. data[1] \in Bytes /\ data[k] \in Bytes
    BY <1>8, <1>9, <2>1
  <2>3. q.payload \in Seq(Nat)
    BY <1>13, BytesAreNumbers
  <2> QED
    BY <1>6, <1>7, <1>12, <1>14, <2>2, <2>3 DEF Packets
<1>16. IsPacket(q)
  BY <1>5, <1>6, <1>7, <1>11, <1>12, <1>13, CodecAssumption DEF IsPacket
<1>17. ToBytes(q) = data
  <2>1. PICK copy : copy = ToBytes(q)
    OBVIOUS
  <2>2. LeadLen(q.header) = k /\ k + Len(q.path) = e
    BY <1>7, <1>8, <1>10, <1>12
  <2>3. IsLaidOut(q, k, e, copy)
    BY <1>15, <2>1, <2>2, ToBytesFacts
  <2>4. copy \in Seq(Nat) /\ Len(copy) = n /\ \A i \in 1..k : copy[i] = Lead(q)[i]
    BY <1>11, <1>13, <2>3 DEF IsLaidOut
  <2>5. SubSeq(copy, k + 1, e) = SubSeq(data, k + 1, e) /\ SubSeq(copy, e + 1, n) = SubSeq(data, e + 1, n)
    BY <1>7, <2>3, <2>4 DEF IsLaidOut
  <2>6. \A i \in 1..k : copy[i] = data[i]
    <3>1. /\ Lead(q)[1] = data[1] /\ Lead(q)[k] = data[k]
          /\ Lead(q) \in Seq(Bytes) /\ Len(Lead(q)) = k
          /\ HasTransportCodes(data[1]) =>
               Lead(q)[2] + 256 * Lead(q)[3] = codes[1] /\ Lead(q)[4] + 256 * Lead(q)[5] = codes[2]
      BY <1>7, <1>15, <2>2, LeadFacts
    <3>2. CASE HasTransportCodes(data[1])
      <4>1. k = 6
        BY <1>8, <3>2 DEF LeadLen
      <4>2. codes[1] = data[2] + 256 * data[3] /\ codes[2] = data[4] + 256 * data[5]
        BY <1>5, <3>2
      <4>3. ASSUME NEW a \in Bytes, NEW b \in Bytes, NEW c \in Bytes, NEW d \in Bytes,
                   a + 256 * b = c + 256 * d
            PROVE  a = c /\ b = d
        BY <4>3, ByteFacts, SMTT(30)
      <4>4. /\ 2 \in 1..k /\ 3 \in 1..k /\ 4 \in 1..k /\ 5 \in 1..k
            /\ 2 \in 1..n /\ 3 \in 1..n /\ 4 \in 1..n /\ 5 \in 1..n
        BY <1>8, <4>1
      <4>5. /\ Lead(q)[2] \in Bytes /\ Lead(q)[3] \in Bytes /\ Lead(q)[4] \in Bytes /\ Lead(q)[5] \in Bytes
            /\ data[2] \in Bytes /\ data[3] \in Bytes /\ data[4] \in Bytes /\ data[5] \in Bytes
        BY <1>9, <3>1, <4>4
      <4>6. /\ Lead(q)[2] + 256 * Lead(q)[3] = data[2] + 256 * data[3]
            /\ Lead(q)[4] + 256 * Lead(q)[5] = data[4] + 256 * data[5]
        BY <3>1, <3>2, <4>2
      <4>7. /\ Lead(q)[2] = data[2] /\ Lead(q)[3] = data[3]
            /\ Lead(q)[4] = data[4] /\ Lead(q)[5] = data[5]
        BY ONLY <4>3, <4>5, <4>6
      <4> QED
        BY <2>4, <3>1, <4>1, <4>7
    <3>3. CASE ~HasTransportCodes(data[1])
      <4>1. k = 2
        BY <1>8, <3>3 DEF LeadLen
      <4> QED
        BY <2>4, <3>1, <4>1
    <3> QED
      BY <3>2, <3>3
  <2>7. data \in Seq(Nat) /\ k \in Nat /\ k <= e /\ e <= n
    BY <1>8, <1>11, BytesAreNumbers
  <2>8. /\ copy \in Seq(Nat) /\ data \in Seq(Nat) /\ Len(copy) = Len(data) /\ e <= Len(copy)
        /\ k \in Nat /\ e \in Nat /\ k <= e
        /\ SubSeq(copy, e + 1, Len(copy)) = SubSeq(data, e + 1, Len(data))
    BY <1>3, <1>11, <2>4, <2>5, <2>7
  <2>9. copy = data
    BY ONLY <2>5, <2>6, <2>8, SameParts
  <2> QED
    BY <2>1, <2>9
<1>18. q \in Cuts(data)
  <2>1. k \in {2, 6} \cap 1..n /\ e \in 2..n
    BY <1>8, <1>11
  <2>2. codes = IF k = 2 THEN NoCodes ELSE <<data[2] + 256 * data[3], data[4] + 256 * data[5]>>
    BY <1>5, <1>8 DEF LeadLen
  <2> DEFINE Cut(i, j) ==
        [header |-> data[1],
         codes |-> IF i = 2 THEN NoCodes
                   ELSE <<data[2] + 256 * data[3], data[4] + 256 * data[5]>>,
         lenByte |-> data[i], path |-> SubSeq(data, i + 1, j),
         payload |-> SubSeq(data, j + 1, Len(data))]
  <2>3. q = Cut(k, e)
    BY <1>3, <1>6, <2>2
  <2>4. k \in {2, 6} \cap 1..Len(data) /\ e \in 2..Len(data)
    BY <1>3, <2>1
  <2>5. Cuts(data) = {Cut(i, j) : i \in {2, 6} \cap 1..Len(data), j \in 2..Len(data)}
    BY DEF Cuts
  <2> HIDE DEF Cut
  <2> QED
    BY ONLY <2>3, <2>4, <2>5
<1> QED
  BY <1>4, <1>15, <1>16, <1>17, <1>18

\* However bytes are cut, the pieces are a packet's.
LEMMA CutsArePackets ==
  ASSUME NEW data \in Seq(Bytes), NEW p \in Cuts(data)
  PROVE  p \in Packets
<1> DEFINE Codes2(i) == IF i = 2 THEN NoCodes
                        ELSE <<data[2] + 256 * data[3], data[4] + 256 * data[5]>>
           Cut(i, j) ==
             [header |-> data[1], codes |-> Codes2(i), lenByte |-> data[i],
              path |-> SubSeq(data, i + 1, j), payload |-> SubSeq(data, j + 1, Len(data))]
<1>1. Cuts(data) = {Cut(i, j) : i \in {2, 6} \cap 1..Len(data), j \in 2..Len(data)}
  BY DEF Cuts
<1> HIDE DEF Cut
<1>2. PICK i \in {2, 6} \cap 1..Len(data), j \in 2..Len(data) : p = Cut(i, j)
  BY <1>1
<1> HIDE DEF Codes2
<1>3. /\ p = [header |-> data[1], codes |-> Codes2(i), lenByte |-> data[i],
              path |-> SubSeq(data, i + 1, j), payload |-> SubSeq(data, j + 1, Len(data))]
  BY <1>2 DEF Cut
<1>4. \A l \in 1..Len(data) : data[l] \in Bytes /\ data[l] \in Nat /\ data[l] < 256
  BY ByteFacts
<1>5. Codes2(i) \in Codes
  <2>1. CASE i = 2
    <3>1. 0 \in Words /\ Codes2(i) = <<0, 0>>
      BY <2>1 DEF NoCodes, Codes2, Words
    <3> QED
      BY ONLY <3>1, WordPair
  <2>2. CASE i = 6
    <3>1. data[2] \in Bytes /\ data[3] \in Bytes /\ data[4] \in Bytes /\ data[5] \in Bytes
      <4>1. 2 \in 1..Len(data) /\ 3 \in 1..Len(data) /\ 4 \in 1..Len(data) /\ 5 \in 1..Len(data)
        BY <2>2
      <4> QED
        BY <1>4, <4>1
    <3>2. Word(data[2], data[3]) \in Words /\ Word(data[4], data[5]) \in Words
      BY ONLY <3>1, WordOfBytes
    <3>3. Codes2(i) = <<Word(data[2], data[3]), Word(data[4], data[5])>>
      BY <2>2 DEF Codes2, Word
    <3> QED
      BY ONLY <3>2, <3>3, WordPair
  <2> QED
    BY <1>2, <2>1, <2>2
<1>6. SubSeq(data, i + 1, j) \in Seq(Bytes) /\ SubSeq(data, j + 1, Len(data)) \in Seq(Bytes)
  <2>1. i + 1 \in Nat \ {0} /\ j \in 0..Len(data) /\ j + 1 \in Nat \ {0} /\ Len(data) \in 0..Len(data)
    BY <1>2
  <2> QED
    BY <2>1, PartFacts
<1>7. data[1] \in Bytes /\ data[i] \in Bytes
  <2>1. 1 \in 1..Len(data) /\ i \in 1..Len(data)
    BY <1>2
  <2> QED
    BY <1>4, <2>1
<1>8. SubSeq(data, j + 1, Len(data)) \in Seq(Nat)
  BY <1>6, BytesAreNumbers
<1> QED
  BY <1>3, <1>5, <1>6, <1>7, <1>8 DEF Packets

\* So parse takes what to_bytes wrote, and nothing else.
LEMMA ParseInverts ==
  ASSUME NEW data \in Seq(Bytes)
  PROVE  {p \in Cuts(data) : IsPacket(p) /\ ToBytes(p) = data}
           = IF Parse(data) = Malformed THEN {} ELSE {Parse(data)}
<1>1. ASSUME NEW p \in Cuts(data), IsPacket(p), ToBytes(p) = data
      PROVE  Parse(data) = p /\ p # Malformed
  <2>1. p \in Packets
    BY CutsArePackets
  <2> QED
    BY <1>1, <2>1, ParseOfToBytes, MalformedPacket
<1>2. CASE Parse(data) = Malformed
  BY <1>1, <1>2
<1>3. CASE Parse(data) # Malformed
  <2>1. Parse(data) \in Cuts(data) /\ IsPacket(Parse(data)) /\ ToBytes(Parse(data)) = data
    BY <1>3, ParseFacts
  <2> QED
    BY <1>1, <1>3, <2>1
<1> QED
  BY <1>2, <1>3

\* What waits for parse came from another sender.
QueueIsForeign == rxQueue = <<>> \/ rxQueue \in Foreign

\* Whatever arrives, parse takes exactly the packets to_bytes can have written.
THEOREM ParseAndToBytesAgree == Spec => []ParseInvertsToBytes
<1>1. Init => QueueIsForeign
  BY DEF Init, QueueIsForeign
<1>2. QueueIsForeign /\ [Next]_vars => QueueIsForeign'
  BY DEF QueueIsForeign, Next, vars, ourVars, theirVars, SendDm, SendGroupText, ResendDm, Relay,
         HandleDm, HandleGroupText, HandlePath, HandleAck, HearForeign, IgnoreForeign, Restart
<1>3. QueueIsForeign => ParseInvertsToBytes
  <2> SUFFICES ASSUME rxQueue \in Foreign PROVE ParseInvertsToBytes
    BY DEF QueueIsForeign, ParseInvertsToBytes
  <2>1. rxQueue \in Seq(Bytes)
    BY JourneyAssumption
  <2> QED
    BY <2>1, ParseInverts DEF ParseInvertsToBytes
<1> QED
  BY <1>1, <1>2, <1>3, PTL DEF Spec

-----------------------------------------------------------------------------
(* Payloads.                                                               *)

\* A number is its last byte and the rest.
LEMMA KeyAndByte ==
  ASSUME NEW key \in Nat, NEW b \in Nat, b < 256
  PROVE  (256 * key + b) \div 256 = key /\ (256 * key + b) % 256 = b
OBVIOUS

\* Positions of two sequences, one after the other.
LEMMA JoinedFacts ==
  ASSUME NEW S, NEW s \in Seq(S), NEW t \in Seq(S), NEW w, w = s \o t
  PROVE  /\ \A i \in 1..Len(s) : w[i] = s[i]
         /\ \A i \in 1..Len(t) : w[Len(s) + i] = t[i]
         /\ Len(s) > 0 => w[1] = s[1]
OBVIOUS

\* Keys and bytes with keys, as arithmetic knows them.
LEMMA WireFacts == Keys \subseteq Nat /\ WireBytes \subseteq Nat /\ Bytes \subseteq WireBytes
<1>1. Keys \subseteq Nat /\ 0 \in Keys
  BY DEF Keys, Clear, PairKey, ChannelKey
<1>2. ASSUME NEW key \in Keys, NEW b \in Bytes
      PROVE  256 * key + b \in Nat
  BY <1>1, ByteFacts
<1>3. ASSUME NEW b \in Bytes
      PROVE  b \in WireBytes
  <2>1. b = 256 * 0 + b
    BY ByteFacts
  <2> QED
    BY <1>1, <2>1 DEF WireBytes
<1> QED
  BY <1>1, <1>2, <1>3 DEF WireBytes

\* What is written under a key is read again, and tells the key.
LEMMA WrittenFacts ==
  ASSUME NEW key \in Keys, NEW s \in Seq(Bytes)
  PROVE  /\ Written(key, s) \in Seq(WireBytes) /\ Len(Written(key, s)) = Len(s)
         /\ \A i \in 1..Len(s) : /\ Written(key, s)[i] = 256 * key + s[i]
                                 /\ KeyOf(Written(key, s)[i]) = key
         /\ Read(Written(key, s)) = s
<1>1. PICK n \in Nat : n = Len(s)
  OBVIOUS
<1>2. PICK w : w = Written(key, s)
  OBVIOUS
<1>3. \A i \in 1..n : s[i] \in Nat /\ s[i] < 256
  BY <1>1, ByteFacts
<1>4. w = [i \in 1..n |-> 256 * key + s[i]]
  BY <1>1, <1>2 DEF Written
<1>5. \A i \in 1..n : w[i] \in WireBytes
  BY <1>1, <1>4 DEF WireBytes
<1>9. PICK k \in Nat : k = key
  BY WireFacts
<1>6. w \in Seq(WireBytes) /\ Len(w) = n
  BY <1>4, <1>5
<1>7. ASSUME NEW i \in 1..n
      PROVE  w[i] = 256 * key + s[i] /\ KeyOf(w[i]) = key /\ w[i] % 256 = s[i]
  <2>1. PICK b \in Nat : b = s[i] /\ b < 256
    BY <1>3
  <2>2. w[i] = 256 * key + b
    BY <1>4, <2>1
  <2>3. (256 * k + b) \div 256 = k /\ (256 * k + b) % 256 = b
    BY <2>1, KeyAndByte
  <2> QED
    BY <1>9, <2>1, <2>2, <2>3 DEF KeyOf
<1>8. Read(w) = s
  <2>1. Read(w) = [i \in 1..n |-> s[i]]
    BY <1>6, <1>7 DEF Read
  <2> QED
    BY <1>1, <2>1
<1> QED
  BY <1>1, <1>2, <1>6, <1>7, <1>8

\* The padding is all zeros.
LEMMA ZerosFacts ==
  ASSUME NEW n \in Nat
  PROVE  /\ Zeros(n) \in Seq(Bytes) /\ Len(Zeros(n)) = n
         /\ \A i \in 1..n : Zeros(n)[i] = 0
<1>1. 0 \in Bytes
  BY ByteFacts
<1> QED
  BY <1>1 DEF Zeros

\* A rest modulo b.
LEMMA RestIsSmall ==
  ASSUME NEW n \in Int, NEW b \in Nat \ {0}
  PROVE  n % b \in Nat /\ n % b < b /\ n = (b * (n \div b)) + (n % b)
OBVIOUS

\* A multiple of the block size leaves no remainder.
LEMMA MultipleFacts ==
  ASSUME NEW b \in Nat \ {0}, NEW k \in Int, NEW q \in Int, NEW r \in Nat, r < b,
         b * k = (b * q) + r
  PROVE  r = 0
<1>1. r = b * (k - q)
  OBVIOUS
<1>2. CASE k - q >= 1
  <2>1. b * (k - q) >= b
    BY <1>2, SMTT(30)
  <2> QED
    BY <1>1, <2>1
<1>3. CASE k - q <= -1
  <2>1. b * (k - q) <= -b
    BY <1>3, SMTT(30)
  <2> QED
    BY <1>1, <2>1
<1>4. CASE k - q = 0
  BY <1>1, <1>4
<1> QED
  BY <1>2, <1>3, <1>4

\* What fills up the last block.
LEMMA FillFacts ==
  ASSUME NEW n \in Nat, NEW b \in Nat \ {0}
  PROVE  /\ (-n) % b \in Nat /\ (-n) % b < b
         /\ (n + ((-n) % b)) % b = 0
         /\ n > 0 => n + ((-n) % b) >= b
<1>1. PICK z : z = (-n) % b
  OBVIOUS
<1>2. PICK k : k = (-n) \div b
  OBVIOUS
<1>3. z \in Nat /\ z < b /\ -n = (b * k) + z /\ k \in Int
  BY <1>1, <1>2, RestIsSmall
<1>4. PICK q : q = (n + z) \div b
  OBVIOUS
<1>5. PICK r : r = (n + z) % b
  OBVIOUS
<1>6. r \in Nat /\ r < b /\ n + z = (b * q) + r /\ q \in Int
  BY <1>3, <1>4, <1>5, RestIsSmall
<1>7. n + z = b * (-k)
  <2>1. PICK m \in Int : m = b * k
    BY <1>3
  <2>2. b * (-k) = -m
    BY <1>3, <2>1
  <2> QED
    BY <1>3, <2>1, <2>2
<1>8. r = 0
  <2>1. PICK j \in Int : j = -k
    BY <1>3
  <2>2. b * j = (b * q) + r
    BY <1>6, <1>7, <2>1
  <2> QED
    BY ONLY b \in Nat \ {0}, j \in Int, <1>6, <2>2, MultipleFacts
<1>9. ASSUME n > 0
      PROVE  n + z >= b
  <2>1. -k >= 1
    <3>1. b * (-k) > 0
      BY <1>3, <1>7, <1>9
    <3>2. CASE -k <= 0
      <4>1. b * (-k) <= 0
        BY <1>3, <3>2, SMTT(30)
      <4> QED
        BY <1>3, <3>1, <4>1
    <3> QED
      BY <1>3, <3>2
  <2>2. b * (-k) >= b
    BY <1>3, <2>1, SMTT(30)
  <2> QED
    BY <1>7, <2>2
<1> QED
  BY <1>1, <1>3, <1>5, <1>8, <1>9

\* A plaintext is filled up with zeros to whole blocks.
LEMMA PaddedFacts ==
  ASSUME NEW s \in Seq(Bytes)
  PROVE  \E z \in Nat :
           /\ Padded(s) = s \o Zeros(z) /\ z < CIPHER_BLOCK_SIZE
           /\ Padded(s) \in Seq(Bytes) /\ Len(Padded(s)) = Len(s) + z
           /\ Len(Padded(s)) % CIPHER_BLOCK_SIZE = 0
           /\ s # <<>> => Len(Padded(s)) >= CIPHER_BLOCK_SIZE
<1>1. PICK b \in Nat \ {0} : b = CIPHER_BLOCK_SIZE
  BY BlockAssumption
<1>2. PICK n \in Nat : n = Len(s)
  OBVIOUS
<1>3. PICK z : z = (-n) % b
  OBVIOUS
<1>4. z \in Nat /\ z < b /\ (n + z) % b = 0 /\ (n > 0 => n + z >= b)
  BY <1>3, FillFacts
<1>5. Padded(s) = s \o Zeros(z)
  BY <1>1, <1>2, <1>3 DEF Padded
<1>6. Padded(s) \in Seq(Bytes) /\ Len(Padded(s)) = n + z
  BY <1>2, <1>4, <1>5, ZerosFacts, JoinFacts
<1>7. s # <<>> => n > 0
  BY <1>2
<1> QED
  BY <1>1, <1>2, <1>4, <1>5, <1>6, <1>7, SMTT(30)

\* What was sealed with a key is opened with it, padding included.
LEMMA SealedFacts ==
  ASSUME NEW key \in Keys, NEW s \in Seq(Bytes), s # <<>>
  PROVE  /\ EncryptThenMac(key, s) \in Seq(WireBytes)
         /\ Len(EncryptThenMac(key, s)) = 2 + Len(Padded(s))
         /\ MacThenDecrypt(key, EncryptThenMac(key, s)) = Padded(s)
<1>1. PICK t : t = Padded(s)
  OBVIOUS
<1>2. /\ t \in Seq(Bytes) /\ Len(t) % CIPHER_BLOCK_SIZE = 0 /\ Len(t) \in Nat \ {0}
  BY <1>1, PaddedFacts, BlockAssumption
<1>3. PICK mac : mac = Written(key, Zeros(2))
  OBVIOUS
<1>4. PICK cipher : cipher = Written(key, t)
  OBVIOUS
<1>5. PICK w : w = EncryptThenMac(key, s)
  OBVIOUS
<1>6. w = mac \o cipher
  BY <1>1, <1>3, <1>4, <1>5 DEF EncryptThenMac, CIPHER_MAC_SIZE
<1>7. mac \in Seq(WireBytes) /\ Len(mac) = 2 /\ KeyOf(mac[1]) = key
  <2>1. PICK z : z = Zeros(2)
    OBVIOUS
  <2>2. z \in Seq(Bytes) /\ Len(z) = 2
    BY <2>1, ZerosFacts
  <2>3. mac = Written(key, z)
    BY <1>3, <2>1
  <2>4. /\ Written(key, z) \in Seq(WireBytes) /\ Len(Written(key, z)) = Len(z)
        /\ \A i \in 1..Len(z) : KeyOf(Written(key, z)[i]) = key
    <3>1. z \in Seq(Bytes) /\ key \in Keys
      BY <2>2
    <3>2. /\ Written(key, z) \in Seq(WireBytes) /\ Len(Written(key, z)) = Len(z)
          /\ \A i \in 1..Len(z) : /\ Written(key, z)[i] = 256 * key + z[i]
                                  /\ KeyOf(Written(key, z)[i]) = key
      BY ONLY <3>1, WrittenFacts, ZenonT(30)
    <3> QED
      BY <3>2
  <2>5. 1 \in 1..Len(z)
    BY <2>2
  <2> QED
    BY <2>2, <2>3, <2>4, <2>5
<1>8. cipher \in Seq(WireBytes) /\ Len(cipher) = Len(t) /\ Read(cipher) = t
  BY <1>2, <1>4, WrittenFacts
<1>9. w \in Seq(WireBytes) /\ Len(w) = 2 + Len(t)
  <2>1. w \in Seq(WireBytes) /\ Len(w) = Len(mac) + Len(cipher)
    BY ONLY <1>6, <1>7, <1>8, JoinFacts
  <2> QED
    BY <1>7, <1>8, <2>1
<1>10. SubSeq(w, 2 + 1, Len(w)) = cipher
  BY <1>6, <1>7, <1>8, RestFacts
<1>11. w[1] = mac[1]
  <2>1. mac \in Seq(WireBytes) /\ cipher \in Seq(WireBytes) /\ Len(mac) = 2
    BY <1>7, <1>8
  <2>2. Len(mac) > 0
    BY <2>1
  <2> QED
    BY ONLY <1>6, <2>1, <2>2, JoinedFacts, Zenon
<1>12. cipher # <<>>
  BY <1>2, <1>8
<1>13. MacThenDecrypt(key, w) = t
  BY <1>2, <1>7, <1>8, <1>10, <1>11, <1>12 DEF MacThenDecrypt, CIPHER_MAC_SIZE
<1> QED
  BY <1>1, <1>5, <1>9, <1>13

\* A pair of bytes, a byte.
LEMMA TwoBytes ==
  ASSUME NEW S, NEW a \in S, NEW b \in S, NEW s, s = <<a, b>>
  PROVE  s \in Seq(S) /\ Len(s) = 2 /\ s[1] = a /\ s[2] = b
OBVIOUS

\* A sequence of one element.
LEMMA OneByte ==
  ASSUME NEW S, NEW a \in S, NEW s, s = <<a>>
  PROVE  s \in Seq(S) /\ Len(s) = 1 /\ s[1] = a
OBVIOUS

\* What is in the clear.
LEMMA ClearFacts ==
  ASSUME NEW s \in Seq(Bytes)
  PROVE  Written(Clear, s) = s /\ s \in Seq(WireBytes)
<1>1. \A i \in 1..Len(s) : 256 * 0 + s[i] = s[i]
  BY ByteFacts
<1>2. Written(Clear, s) = [i \in 1..Len(s) |-> s[i]]
  BY <1>1 DEF Written, Clear
<1>3. s \in Seq(WireBytes)
  BY WireFacts, WiderFacts
<1> QED
  BY <1>2, <1>3

\* The recipient of an envelope opens it with the key of the sender.
LEMMA EnvelopeFacts ==
  ASSUME NEW key \in Keys, NEW dst \in Bytes, NEW src \in Bytes,
         NEW s \in Seq(Bytes), s # <<>>
  PROVE  /\ Envelope(key, dst, src, s) \in Seq(WireBytes)
         /\ Len(Envelope(key, dst, src, s)) = 4 + Len(Padded(s))
         /\ Envelope(key, dst, src, s)[1] = dst
         /\ Opened(Envelope(key, dst, src, s), key, dst) = Padded(s)
<1>1. PICK head : head = <<dst, src>>
  OBVIOUS
<1>2. head \in Seq(Bytes) /\ Len(head) = 2 /\ head[1] = dst
  BY <1>1, TwoBytes
<1>3. head \in Seq(WireBytes) /\ Written(Clear, head) = head
  BY <1>2, ClearFacts
<1>4. PICK sealed : sealed = EncryptThenMac(key, s)
  OBVIOUS
<1>5. PICK t : t = Padded(s)
  OBVIOUS
<1>6. PICK w : w = Envelope(key, dst, src, s)
  OBVIOUS
<1>7. w = head \o sealed
  BY <1>1, <1>3, <1>4, <1>6 DEF Envelope
<1>8. sealed \in Seq(WireBytes) /\ Len(sealed) = 2 + Len(t) /\ MacThenDecrypt(key, sealed) = t
  BY <1>4, <1>5, SealedFacts
<1>9. t \in Seq(Bytes) /\ Len(t) >= CIPHER_BLOCK_SIZE /\ Len(t) \in Nat
  BY <1>5, PaddedFacts
<1>10. w \in Seq(WireBytes) /\ Len(w) = 4 + Len(t)
  <2>1. w \in Seq(WireBytes) /\ Len(w) = Len(head) + Len(sealed)
    BY ONLY <1>3, <1>7, <1>8, JoinFacts
  <2> QED
    BY <1>2, <1>8, <1>9, <2>1
<1>11. w[1] = dst
  <2>1. Len(head) > 0
    BY <1>2
  <2>2. w[1] = head[1]
    BY ONLY <1>3, <1>7, <1>8, <2>1, JoinedFacts
  <2> QED
    BY <1>2, <2>2
<1>12. SubSeq(w, 3, Len(w)) = sealed
  <2>1. Len(head) + 1 = 3
    BY <1>2
  <2>2. SubSeq(w, Len(head) + 1, Len(w)) = sealed
    BY ONLY <1>3, <1>7, <1>8, RestFacts
  <2> QED
    BY ONLY <2>1, <2>2
<1>13. Opened(w, key, dst) = t
  <2>1. ~(Len(w) < 2 + 2 + CIPHER_BLOCK_SIZE)
    BY <1>9, <1>10, BlockAssumption
  <2> QED
    BY <1>8, <1>11, <1>12, <2>1 DEF Opened, CIPHER_MAC_SIZE
<1> QED
  BY <1>5, <1>6, <1>10, <1>11, <1>13

\* What a sequence starts with, if anything.
LEMMA PrefixFacts ==
  ASSUME NEW S, NEW s \in Seq(S), NEW t \in Seq(S), NEW w, w = s \o t
  PROVE  SubSeq(w, 1, Len(s)) = s
<1>1. CASE Len(s) > 0
  BY <1>1, FirstFacts
<1>2. CASE Len(s) = 0
  <2>1. s = <<>> /\ SubSeq(w, 1, Len(s)) = <<>>
    BY <1>2, EmptySeq, SubSeqEmpty
  <2> QED
    BY <2>1
<1>3. Len(s) \in Nat
  OBVIOUS
<1> QED
  BY <1>1, <1>2, <1>3

\* The smallest of a set of numbers.
LEMMA MinFacts ==
  ASSUME NEW S, S \subseteq Nat, NEW m \in S, \A i \in S : m <= i
  PROVE  Min(S) = m
<1>1. \A x \in S : (\A y \in S : x <= y) => x = m
  OBVIOUS
<1> QED
  BY <1>1 DEF Min

\* Texts have no zeros.
LEMMA TextFacts == TextBytes \subseteq Bytes /\ 0 \notin TextBytes
BY DEF TextBytes

\* A text ends where its padding starts.
LEMMA BeforeNulFacts ==
  ASSUME NEW s \in Seq(TextBytes), NEW z \in Nat
  PROVE  BeforeNul(s \o Zeros(z)) = s
<1>1. PICK n \in Nat : n = Len(s)
  OBVIOUS
<1>2. PICK t : t = Zeros(z)
  OBVIOUS
<1>3. PICK w : w = s \o t
  OBVIOUS
<1>4. t \in Seq(Bytes) /\ Len(t) = z /\ \A i \in 1..z : t[i] = 0
  BY <1>2, ZerosFacts
<1>5. s \in Seq(Bytes) /\ \A i \in 1..n : s[i] # 0
  BY <1>1, TextFacts, WiderFacts
<1>6. w \in Seq(Bytes) /\ Len(w) = n + z
  BY <1>1, <1>3, <1>4, <1>5, JoinFacts
<1>7. /\ \A i \in 1..n : w[i] = s[i]
      /\ \A i \in 1..z : w[n + i] = t[i]
  BY ONLY <1>1, <1>3, <1>4, <1>5, JoinedFacts
<1> DEFINE I == {i \in 1..Len(w) : w[i] = 0}
<1>8. CASE z = 0
  <2>1. I = {}
    BY <1>5, <1>6, <1>7, <1>8
  <2>2. BeforeNul(w) = w
    BY <2>1 DEF BeforeNul, SelectInSeq
  <2>3. t = <<>>
    BY <1>4, <1>8
  <2> QED
    BY <1>2, <1>3, <2>2, <2>3
<1>9. CASE z > 0
  <2>1. n + 1 \in I /\ I \subseteq Nat
    BY <1>4, <1>6, <1>7, <1>9
  <2>2. \A i \in I : n + 1 <= i
    BY <1>5, <1>6, <1>7
  <2>3. Min(I) = n + 1 /\ I # {}
    <3> HIDE DEF I
    <3> QED
      BY <2>1, <2>2, MinFacts
  <2>4. BeforeNul(w) = SubSeq(w, 1, n)
    <3>1. SelectInSeq(w, LAMBDA b : b = 0) = n + 1
      BY <2>3 DEF SelectInSeq
    <3>2. n + 1 # 0 /\ (n + 1) - 1 = n
      OBVIOUS
    <3> QED
      BY <3>1, <3>2 DEF BeforeNul
  <2>5. SubSeq(w, 1, Len(s)) = s
    BY ONLY <1>3, <1>4, <1>5, PrefixFacts
  <2> QED
    BY <1>1, <1>2, <1>3, <2>4, <2>5
<1> QED
  BY <1>8, <1>9

\* A timestamp that fits two bytes is found again in its four.
LEMMA TwoByteStamp ==
  ASSUME NEW ts \in Nat, ts < 65536
  PROVE  /\ StampBytes(ts) \in Seq(Bytes) /\ Len(StampBytes(ts)) = 4
         /\ StampBytes(ts)[1] = ts % 256
         /\ StampOf(StampBytes(ts)) = ts
<1>1. /\ StampBytes(ts)[1] = ts % 256 /\ StampBytes(ts)[2] = (ts \div 256) % 256
  BY DEF StampBytes
<1>2. StampBytes(ts)[3] = 0 /\ StampBytes(ts)[4] = 0
  BY DEF StampBytes
<1>3. (ts \div 256) % 256 = ts \div 256
  OBVIOUS
<1>4. (ts % 256) + 256 * (ts \div 256) = ts /\ ts % 256 \in Bytes /\ ts \div 256 \in Bytes /\ 0 \in Bytes
  BY ByteFacts
<1>5. StampBytes(ts) \in Seq(Bytes) /\ Len(StampBytes(ts)) = 4
  <2>1. PICK w : w = StampBytes(ts)
    OBVIOUS
  <2>2. \A i \in 1..4 : w[i] \in Bytes
    BY <1>1, <1>2, <1>3, <1>4, <2>1
  <2>3. w = [i \in 1..4 |-> w[i]]
    BY <2>1 DEF StampBytes
  <2> QED
    BY <2>1, <2>2, <2>3
<1> QED
  BY <1>1, <1>2, <1>3, <1>4, <1>5 DEF StampOf

\* Timestamps of two bytes, the range in which the model counts seconds.
ShortStamps == {ts \in Nat : ts < 65536}

\* The four bytes of a timestamp, read back, are the timestamp.
LEMMA StampFacts ==
  ASSUME NEW ts \in ShortStamps
  PROVE  /\ StampBytes(ts) \in Seq(Bytes) /\ Len(StampBytes(ts)) = 4
         /\ StampBytes(ts)[1] = ts % 256
         /\ StampOf(StampBytes(ts)) = ts
BY TwoByteStamp DEF ShortStamps

\* The part of a sequence between two others.
LEMMA MiddleFacts ==
  ASSUME NEW S, NEW a \in Seq(S), NEW b \in Seq(S), NEW c \in Seq(S), NEW w, w = (a \o b) \o c
  PROVE  SubSeq(w, Len(a) + 1, Len(a) + Len(b)) = b
<1>1. PICK v : v = a \o b
  OBVIOUS
<1>2. v \in Seq(S) /\ Len(v) = Len(a) + Len(b) /\ Len(a) \in Nat /\ Len(b) \in Nat
  BY <1>1, JoinFacts
<1>3. w = v \o c
  BY <1>1
<1>4. CASE Len(b) = 0
  <2>1. b = <<>>
    BY <1>4, EmptySeq
  <2>2. /\ Len(a) + Len(b) < Len(a) + 1 /\ Len(a) + 1 \in Int /\ Len(a) + Len(b) \in Int
    BY <1>2, <1>4
  <2> QED
    BY <2>1, <2>2, SubSeqEmpty
<1>5. CASE Len(b) > 0
  <2>1. Len(a) + 1 \in 1..Len(v) /\ Len(v) \in 1..Len(v)
    BY <1>2, <1>5
  <2>2. SubSeq(w, Len(a) + 1, Len(v)) = SubSeq(v, Len(a) + 1, Len(v))
    BY <1>2, <1>3, <2>1, SubSeqOfConcat1
  <2>3. SubSeq(v, Len(a) + 1, Len(v)) = b
    BY ONLY a \in Seq(S), b \in Seq(S), <1>1, RestFacts
  <2> QED
    BY <1>2, <2>2, <2>3
<1> QED
  BY <1>2, <1>4, <1>5

\* Three sequences, one after the other.
LEMMA Regrouped ==
  ASSUME NEW S, NEW a \in Seq(S), NEW b \in Seq(S), NEW c \in Seq(S),
         NEW ab, ab = a \o b, NEW bc, bc = b \o c
  PROVE  ab \o c = a \o bc /\ ab \in Seq(S) /\ bc \in Seq(S)
BY ConcatAssociative, JoinFacts, SMTT(30)

\* What a plaintext starts with: a timestamp and a byte.
LEMMA StampedFacts ==
  ASSUME NEW ts \in ShortStamps, NEW x \in Seq(Bytes), Len(x) = 1,
         NEW w, w = StampBytes(ts) \o x
  PROVE  /\ w \in Seq(Bytes) /\ Len(w) = 5 /\ w[1] = StampBytes(ts)[1] /\ w[5] = x[1]
         /\ StampOf(w) = ts
<1>1. PICK s : s = StampBytes(ts)
  OBVIOUS
<1>2. s \in Seq(Bytes) /\ Len(s) = 4 /\ StampOf(s) = ts
  BY <1>1, StampFacts
<1>4. x \in Seq(Bytes) /\ Len(x) = 1
  OBVIOUS
<1>5. w = s \o x
  BY <1>1
<1>6. w \in Seq(Bytes) /\ Len(w) = 5
  <2>1. w \in Seq(Bytes) /\ Len(w) = Len(s) + Len(x)
    BY ONLY <1>2, <1>4, <1>5, JoinFacts
  <2> QED
    BY <1>2, <1>4, <2>1
<1>7. /\ \A i \in 1..Len(s) : w[i] = s[i]
      /\ \A i \in 1..Len(x) : w[Len(s) + i] = x[i]
  <2>1. s \in Seq(Bytes) /\ x \in Seq(Bytes)
    BY <1>2, <1>4
  <2> QED
    BY ONLY <1>5, <2>1, JoinedFacts
<1>8. w[1] = s[1] /\ w[2] = s[2] /\ w[3] = s[3] /\ w[4] = s[4] /\ w[5] = x[1]
  <2>1. /\ 1 \in 1..Len(s) /\ 2 \in 1..Len(s) /\ 3 \in 1..Len(s) /\ 4 \in 1..Len(s)
        /\ 1 \in 1..Len(x) /\ Len(s) + 1 = 5
    BY <1>2, <1>4
  <2> QED
    BY <1>7, <2>1
<1> QED
  BY <1>1, <1>2, <1>4, <1>6, <1>8 DEF StampOf

\* What a decoder finds in a plaintext that was filled up: the first five bytes,
\* and the text that follows them.
IsFilled(plain, head, body) ==
  /\ plain \in Seq(Bytes)
  /\ \A i \in 1..5 : plain[i] = head[i]
  /\ SubSeq(plain, 1, 5) = head
  /\ BeforeNul(SubSeq(plain, 6, Len(plain))) = body

LEMMA BodyFacts ==
  ASSUME NEW head \in Seq(Bytes), Len(head) = 5, NEW body \in Seq(TextBytes),
         NEW core, core = head \o body, NEW plain, plain = Padded(core)
  PROVE  IsFilled(plain, head, body)
<1>1. body \in Seq(Bytes)
  BY TextFacts, WiderFacts
<1>2. core = head \o body
  OBVIOUS
<1>3. core \in Seq(Bytes)
  BY <1>1, <1>2, JoinFacts
<1>4. PICK z \in Nat : plain = core \o Zeros(z) /\ plain \in Seq(Bytes)
  BY <1>3, PaddedFacts
<1>5. PICK fill : fill = Zeros(z)
  OBVIOUS
<1>6. fill \in Seq(Bytes)
  BY <1>5, ZerosFacts
<1>7. PICK rest : rest = body \o fill
  OBVIOUS
<1>8. rest \in Seq(Bytes)
  BY <1>1, <1>6, <1>7, JoinFacts
<1>9. plain = head \o rest
  <2>1. plain = core \o fill
    BY <1>4, <1>5
  <2>2. core \o fill = head \o rest
    BY ONLY head \in Seq(Bytes), <1>1, <1>2, <1>6, <1>7, Regrouped, SMTT(30)
  <2> QED
    BY <2>1, <2>2
<1>10. \A i \in 1..Len(head) : plain[i] = head[i]
  BY ONLY head \in Seq(Bytes), <1>8, <1>9, JoinedFacts
<1>11. SubSeq(plain, 1, 5) = head
  <2>1. Len(head) > 0
    OBVIOUS
  <2>2. SubSeq(plain, 1, Len(head)) = head
    BY ONLY head \in Seq(Bytes), <1>8, <1>9, <2>1, FirstFacts
  <2> QED
    BY <2>2
<1>12. SubSeq(plain, 6, Len(plain)) = rest
  <2>1. SubSeq(plain, Len(head) + 1, Len(plain)) = rest
    BY ONLY head \in Seq(Bytes), <1>8, <1>9, RestFacts
  <2>2. Len(head) + 1 = 6
    OBVIOUS
  <2> QED
    BY <2>1, <2>2
<1>13. BeforeNul(rest) = body
  BY <1>5, <1>7, BeforeNulFacts
<1> QED
  BY <1>4, <1>10, <1>11, <1>12, <1>13 DEF IsFilled

\* What two bits of the flags can count.
Attempts == 0..3

\* The attempt number fits the two low bits that decode_dm keeps.
LEMMA AttemptFacts ==
  ASSUME NEW a \in Attempts
  PROVE  a \in Bytes /\ a % 4 = a
BY DEF Attempts, Bytes

\* The plaintext and the payload of a direct message.
EncodesDm(key, dst, src, ts, a, text, core, w) ==
  /\ core = DmPlaintext(ts, a, text) /\ w = EncodeDm(key, dst, src, ts, a, text)
  /\ DecodeDm(w, key, dst) = Attempt(ts, a, text)
  /\ w[1] = dst /\ 1 <= Len(w) /\ Len(w) <= Len(text) + CIPHER_BLOCK_SIZE + 8
  /\ Len(core) = Len(text) + 5 /\ core[1] = ts % 256 /\ core[5] = a

\* The parts of what encode_dm returns, and what its receiver decrypts.
LEMMA EncodedDmFacts ==
  ASSUME NEW key \in Keys, NEW dst \in Bytes, NEW src \in Bytes,
         NEW ts \in ShortStamps, NEW a \in Attempts, NEW text \in Seq(TextBytes)
  PROVE  \E core \in Seq(Bytes), w \in Seq(WireBytes) :
           EncodesDm(key, dst, src, ts, a, text, core, w)
<1>1. a \in Bytes /\ a % 4 = a
  BY AttemptFacts
<1>2. PICK head : head = StampBytes(ts) \o <<a>>
  OBVIOUS
<1>3. /\ head \in Seq(Bytes) /\ Len(head) = 5 /\ head[5] = a
      /\ StampOf(head) = ts /\ head[1] = ts % 256
  <2>1. PICK x : x = <<a>>
    OBVIOUS
  <2>2. x \in Seq(Bytes) /\ Len(x) = 1 /\ x[1] = a
    BY <1>1, <2>1, OneByte
  <2>3. head = StampBytes(ts) \o x
    BY <1>2, <2>1
  <2>4. /\ head \in Seq(Bytes) /\ Len(head) = 5 /\ head[1] = StampBytes(ts)[1] /\ head[5] = x[1]
        /\ StampOf(head) = ts
    BY ONLY ts \in ShortStamps, <2>2, <2>3, StampedFacts
  <2>5. StampBytes(ts)[1] = ts % 256
    BY StampFacts
  <2> QED
    BY <2>2, <2>4, <2>5
<1>4. PICK core : core = head \o text
  OBVIOUS
<1>5. DmPlaintext(ts, a, text) = core
  BY <1>1, <1>2, <1>4 DEF DmPlaintext
<1>6. core \in Seq(Bytes) /\ core # <<>> /\ Len(core) = Len(text) + 5 /\ Len(text) \in Nat
  <2>1. text \in Seq(Bytes)
    BY TextFacts, WiderFacts
  <2>2. core \in Seq(Bytes) /\ Len(core) = Len(head) + Len(text) /\ Len(text) \in Nat
    BY ONLY <1>3, <1>4, <2>1, JoinFacts
  <2> QED
    BY <1>3, <2>2
<1>7. PICK plain : plain = Padded(core)
  OBVIOUS
<1>8. Opened(EncodeDm(key, dst, src, ts, a, text), key, dst) = plain
  BY <1>5, <1>6, <1>7, EnvelopeFacts DEF EncodeDm
<1>9. /\ plain \in Seq(Bytes)
      /\ \A i \in 1..5 : plain[i] = head[i]
      /\ SubSeq(plain, 1, 5) = head
      /\ BeforeNul(SubSeq(plain, 6, Len(plain))) = text
  <2>1. head \in Seq(Bytes) /\ Len(head) = 5
    BY <1>3
  <2>2. IsFilled(plain, head, text)
    BY ONLY text \in Seq(TextBytes), <1>4, <1>7, <2>1, BodyFacts
  <2> QED
    BY <2>2 DEF IsFilled
<1>10. plain # Malformed
  BY <1>9, MalformedPlain
<1>11. /\ plain[1] = head[1] /\ plain[2] = head[2] /\ plain[3] = head[3] /\ plain[4] = head[4]
       /\ plain[5] = a
  BY <1>3, <1>9
<1>12. StampOf(plain) = ts
  BY <1>3, <1>11 DEF StampOf
<1>13. SubSeq(plain, 1, 5) \o BeforeNul(SubSeq(plain, 6, Len(plain))) = core
  BY <1>4, <1>9
<1>14. DecodeDm(EncodeDm(key, dst, src, ts, a, text), key, dst) = Attempt(ts, a, text)
  BY <1>1, <1>5, <1>8, <1>9, <1>10, <1>11, <1>12, <1>13 DEF DecodeDm, Attempt
<1>15. PICK w : w = EncodeDm(key, dst, src, ts, a, text)
  OBVIOUS
<1>16. w \in Seq(WireBytes) /\ Len(w) = 4 + Len(plain) /\ w[1] = dst
  BY <1>5, <1>6, <1>7, <1>15, EnvelopeFacts DEF EncodeDm
<1>17. Len(plain) \in Nat /\ Len(plain) < Len(core) + CIPHER_BLOCK_SIZE
  <2>1. PICK k \in Nat : /\ k < CIPHER_BLOCK_SIZE /\ Padded(core) \in Seq(Bytes)
                         /\ Len(Padded(core)) = Len(core) + k
    BY <1>6, PaddedFacts
  <2>2. Len(core) \in Nat /\ CIPHER_BLOCK_SIZE \in Nat
    BY <1>6, BlockAssumption
  <2> QED
    BY <1>7, <2>1, <2>2
<1>18. 1 <= Len(w) /\ Len(w) <= Len(text) + CIPHER_BLOCK_SIZE + 8
  BY <1>6, <1>16, <1>17, BlockAssumption
<1>19. core[1] = ts % 256 /\ core[5] = a
  <2>0. PICK said : said = text
    OBVIOUS
  <2>1. head \in Seq(Bytes) /\ said \in Seq(Bytes) /\ core = head \o said
    BY <1>3, <1>4, <2>0, TextFacts, WiderFacts
  <2>2. \A i \in 1..Len(head) : core[i] = head[i]
    BY ONLY <2>1, JoinedFacts
  <2>3. 1 \in 1..Len(head) /\ 5 \in 1..Len(head)
    BY <1>3
  <2> QED
    BY <1>3, <2>2, <2>3
<1> QED
  BY <1>5, <1>6, <1>14, <1>15, <1>16, <1>18, <1>19 DEF EncodesDm

\* decode_dm gives back what encode_dm was given, padding gone, and computes the
\* acknowledgement the sender expects.
THEOREM DecodeOfEncodeDm ==
  ASSUME NEW key \in Keys, NEW dst \in Bytes, NEW src \in Bytes,
         NEW ts \in ShortStamps, NEW a \in Attempts, NEW text \in Seq(TextBytes)
  PROVE  DecodeDm(EncodeDm(key, dst, src, ts, a, text), key, dst) = Attempt(ts, a, text)
<1>1. \E core \in Seq(Bytes), w \in Seq(WireBytes) :
           EncodesDm(key, dst, src, ts, a, text, core, w)
  BY EncodedDmFacts
<1> QED
  BY <1>1 DEF EncodesDm

\* What follows the first element.
LEMMA TailFacts ==
  ASSUME NEW S, NEW x \in Seq(S), Len(x) = 1, NEW s \in Seq(S), NEW w, w = x \o s
  PROVE  Tail(w) = s
<1>1. w \in Seq(S) /\ Len(w) = 1 + Len(s) /\ Len(s) \in Nat
  <2>1. w \in Seq(S) /\ Len(w) = Len(x) + Len(s) /\ Len(s) \in Nat
    BY ONLY x \in Seq(S), s \in Seq(S), w = x \o s, JoinFacts
  <2> QED
    BY <2>1
<1>2. \A i \in 1..Len(s) : w[Len(x) + i] = s[i]
  BY ONLY x \in Seq(S), s \in Seq(S), w = x \o s, JoinedFacts
<1>3. Tail(w) \in Seq(S) /\ Len(Tail(w)) = Len(s) /\ \A i \in 1..Len(s) : Tail(w)[i] = w[i + 1]
  BY <1>1
<1>4. \A i \in 1..Len(s) : Tail(w)[i] = s[i]
  BY <1>2, <1>3
<1> QED
  BY <1>3, <1>4, SeqEqual

\* A PATH return and its size.
LEMMA PathAckFacts ==
  ASSUME NEW key \in Keys, NEW dst \in Bytes, NEW src \in Bytes, NEW lenByte \in Bytes,
         NEW path \in Seq(Bytes), Len(path) = PathByteLen(lenByte),
         NEW ack \in Seq(Bytes), Len(ack) = 4, NEW nonce \in Bytes
  PROVE  /\ DecodePath(BuildPathAck(key, dst, src, path, lenByte, Ack6(ack, nonce)), key, dst)
           = [path |-> path, lenByte |-> lenByte, ack |-> ack]
         /\ BuildPathAck(key, dst, src, path, lenByte, Ack6(ack, nonce)) \in Seq(WireBytes)
         /\ 1 <= Len(BuildPathAck(key, dst, src, path, lenByte, Ack6(ack, nonce)))
         /\ Len(BuildPathAck(key, dst, src, path, lenByte, Ack6(ack, nonce)))
              <= Len(path) + CIPHER_BLOCK_SIZE + 11
<1>1. PICK x : x = <<lenByte>>
  OBVIOUS
<1>2. x \in Seq(Bytes) /\ Len(x) = 1 /\ x[1] = lenByte
  BY <1>1, OneByte
<1>3. PICK y : y = <<PATH_EXTRA_ACK>>
  OBVIOUS
<1>4. y \in Seq(Bytes) /\ Len(y) = 1 /\ y[1] = PATH_EXTRA_ACK
  <2>1. PATH_EXTRA_ACK \in Bytes
    BY DEF Bytes, PATH_EXTRA_ACK
  <2> QED
    BY <1>3, <2>1, OneByte
<1>5. PICK pair : pair = <<0, nonce>>
  OBVIOUS
<1>a. ack \in Seq(Bytes) /\ path \in Seq(Bytes)
  OBVIOUS
<1>6. pair \in Seq(Bytes) /\ Len(pair) = 2
  <2>1. 0 \in Bytes
    BY ByteFacts, SMTT(30)
  <2> QED
    BY <1>5, <2>1, TwoBytes
<1>7. PICK ack6 : ack6 = ack \o pair
  OBVIOUS
<1>8. ack6 \in Seq(Bytes) /\ Ack6(ack, nonce) = ack6 /\ Len(ack6) = 6
  <2>1. ack6 \in Seq(Bytes) /\ Len(ack6) = Len(ack) + Len(pair)
    BY ONLY <1>a, <1>6, <1>7, JoinFacts
  <2> QED
    BY <1>5, <1>6, <1>7, <2>1 DEF Ack6
<1>9. PICK xp : xp = x \o path
  OBVIOUS
<1>10. xp \in Seq(Bytes) /\ Len(xp) = 1 + Len(path) /\ Len(path) \in Nat
  <2>1. xp \in Seq(Bytes) /\ Len(xp) = Len(x) + Len(path) /\ Len(path) \in Nat
    BY ONLY path \in Seq(Bytes), <1>2, <1>9, JoinFacts
  <2> QED
    BY <1>2, <2>1
<1>11. PICK xpy : xpy = xp \o y
  OBVIOUS
<1>12. xpy \in Seq(Bytes) /\ Len(xpy) = 2 + Len(path)
  <2>1. xpy \in Seq(Bytes) /\ Len(xpy) = Len(xp) + Len(y)
    BY ONLY <1>4, <1>10, <1>11, JoinFacts
  <2> QED
    BY <1>4, <1>10, <2>1
<1>13. PICK core : core = xpy \o ack6
  OBVIOUS
<1>14. core \in Seq(Bytes) /\ core # <<>> /\ Len(core) = 8 + Len(path)
  <2>1. core \in Seq(Bytes) /\ Len(core) = Len(xpy) + Len(ack6) /\ Len(ack6) \in Nat
    BY ONLY <1>8, <1>12, <1>13, JoinFacts
  <2> QED
    BY <1>8, <1>10, <1>12, <2>1, SMTT(30)
<1>15. BuildPathAck(key, dst, src, path, lenByte, ack6) = Envelope(key, dst, src, core)
  BY <1>1, <1>3, <1>9, <1>11, <1>13 DEF BuildPathAck
<1>16. PICK z \in Nat : Padded(core) = core \o Zeros(z) /\ Padded(core) \in Seq(Bytes)
  BY <1>14, PaddedFacts
<1>17. PICK plain : plain = Padded(core)
  OBVIOUS
<1>18. Opened(BuildPathAck(key, dst, src, path, lenByte, ack6), key, dst) = plain
  BY <1>14, <1>15, <1>17, EnvelopeFacts
<1>19. PICK fill : fill = Zeros(z)
  OBVIOUS
<1>20. fill \in Seq(Bytes)
  BY <1>19, ZerosFacts
<1>21. PICK end : end = pair \o fill
  OBVIOUS
<1>22. PICK rest : rest = ack \o end
  OBVIOUS
<1>23. end \in Seq(Bytes) /\ rest \in Seq(Bytes)
  BY <1>6, <1>20, <1>21, <1>22, JoinFacts
<1>24. plain = xpy \o rest
  <2>1. plain = core \o fill
    BY <1>16, <1>17, <1>19
  <2>2. ack6 \o fill = ack \o end
    BY ONLY <1>a, <1>6, <1>7, <1>20, <1>21, Regrouped
  <2>3. rest = ack6 \o fill
    BY <1>22, <2>2
  <2>4. core \o fill = xpy \o rest
    BY ONLY <1>8, <1>12, <1>13, <1>20, <2>3, Regrouped, SMTT(30)
  <2> QED
    BY <2>1, <2>4
<1>b. PICK yr : yr = y \o rest
  OBVIOUS
<1>25. plain = xp \o yr /\ yr \in Seq(Bytes)
  <2>1. xp \in Seq(Bytes) /\ y \in Seq(Bytes) /\ rest \in Seq(Bytes)
    BY <1>4, <1>10, <1>23
  <2>2. xpy \o rest = xp \o yr /\ xpy \in Seq(Bytes) /\ yr \in Seq(Bytes)
    BY ONLY <1>11, <1>b, <2>1, Regrouped, SMTT(30)
  <2> QED
    BY <1>24, <2>2
<1>26. plain = (x \o path) \o yr
  BY <1>9, <1>25
<1>c. PICK pyr : pyr = path \o yr
  OBVIOUS
<1>27. plain = x \o pyr /\ pyr \in Seq(Bytes)
  <2>1. xp \o yr = x \o pyr /\ xp \in Seq(Bytes) /\ pyr \in Seq(Bytes)
    BY ONLY <1>a, <1>2, <1>9, <1>25, <1>c, Regrouped, SMTT(30)
  <2> QED
    BY <1>25, <2>1
<1>28. plain[1] = lenByte
  <2>1. Len(x) > 0
    BY <1>2
  <2>2. plain[1] = x[1]
    BY ONLY <1>2, <1>27, <2>1, JoinedFacts
  <2> QED
    BY <1>2, <2>2
<1>29. PICK n \in Nat : n = Len(path)
  BY <1>10
<1>30. SubSeq(plain, 2, n + 1) = path
  <2>1. SubSeq(plain, Len(x) + 1, Len(x) + Len(path)) = path
    BY ONLY path \in Seq(Bytes), <1>2, <1>25, <1>26, MiddleFacts
  <2>2. Len(x) + 1 = 2 /\ Len(x) + Len(path) = n + 1
    BY <1>2, <1>29
  <2> QED
    BY <2>1, <2>2
<1>31. plain[n + 2] = PATH_EXTRA_ACK
  <2>0. Len(y) > 0
    BY <1>4
  <2>1. yr[1] = y[1]
    BY ONLY <1>4, <1>23, <1>b, <2>0, JoinedFacts
  <2>4. Len(yr) = 1 + Len(rest) /\ Len(rest) \in Nat
    <3>1. Len(yr) = Len(y) + Len(rest) /\ Len(rest) \in Nat
      BY ONLY <1>4, <1>23, <1>b, JoinFacts
    <3> QED
      BY <1>4, <3>1
  <2>5. 1 \in 1..Len(yr)
    BY <2>4
  <2>2. plain[Len(xp) + 1] = yr[1]
    <3>1. xp \in Seq(Bytes)
      BY <1>10
    <3> QED
      BY ONLY <3>1, <1>25, <2>5, JoinedFacts
  <2>3. Len(xp) + 1 = n + 2
    BY <1>10, <1>29
  <2> QED
    BY <1>4, <2>1, <2>2, <2>3
<1>32. SubSeq(plain, n + 3, n + 6) = ack /\ Len(plain) >= n + 6
  <2>0. PICK xpya : xpya = xpy \o ack
    OBVIOUS
  <2>1. plain = (xpy \o ack) \o end
    <3>1. xpya \o end = xpy \o rest
      BY ONLY <1>a, <1>12, <1>22, <1>23, <2>0, Regrouped
    <3> QED
      BY <1>24, <2>0, <3>1
  <2>2. SubSeq(plain, Len(xpy) + 1, Len(xpy) + Len(ack)) = ack
    BY ONLY ack \in Seq(Bytes), <1>12, <1>23, <2>1, MiddleFacts
  <2>3. Len(xpy) + 1 = n + 3 /\ Len(xpy) + Len(ack) = n + 6
    BY <1>12, <1>29
  <2>4. Len(plain) = Len(xpy) + Len(rest) /\ Len(rest) = Len(ack) + Len(end) /\ Len(end) \in Nat
    BY ONLY <1>a, <1>12, <1>22, <1>23, <1>24, JoinFacts
  <2>5. Len(plain) >= n + 6
    BY <1>12, <1>29, <2>4
  <2> QED
    BY <2>2, <2>3, <2>5
<1>33. plain # Malformed
  BY <1>16, <1>17, MalformedPlain
<1>34. /\ 1 + PathByteLen(plain[1]) = n + 1 /\ (n + 1) + 5 = n + 6 /\ (n + 1) + 1 = n + 2
       /\ (n + 1) + 2 = n + 3
  BY <1>28, <1>29
<1>d. n + 1 <= Len(plain)
  <2>1. Len(plain) \in Nat
    BY <1>16, <1>17
  <2> QED
    BY ONLY <1>29, <1>32, <2>1
<1>35. DecodePath(BuildPathAck(key, dst, src, path, lenByte, ack6), key, dst)
         = [path |-> path, lenByte |-> lenByte, ack |-> ack]
  BY <1>18, <1>28, <1>30, <1>31, <1>32, <1>33, <1>34, <1>d DEF DecodePath
<1>36. PICK w : w = BuildPathAck(key, dst, src, path, lenByte, ack6)
  OBVIOUS
<1>37. w \in Seq(WireBytes) /\ Len(w) = 4 + Len(plain)
  BY <1>14, <1>15, <1>17, <1>36, EnvelopeFacts
<1>38. Len(plain) \in Nat /\ Len(plain) < Len(core) + CIPHER_BLOCK_SIZE
  <2>1. PICK k \in Nat : /\ k < CIPHER_BLOCK_SIZE /\ Padded(core) \in Seq(Bytes)
                         /\ Len(Padded(core)) = Len(core) + k
    BY <1>14, PaddedFacts
  <2>2. Len(core) \in Nat /\ CIPHER_BLOCK_SIZE \in Nat
    BY <1>14, BlockAssumption
  <2> QED
    BY <1>17, <2>1, <2>2
<1>39. 1 <= Len(w) /\ Len(w) <= Len(path) + CIPHER_BLOCK_SIZE + 11
  BY <1>10, <1>14, <1>37, <1>38, BlockAssumption, SMTT(30)
<1> QED
  BY <1>8, <1>35, <1>36, <1>37, <1>39

\* decode_path gives back the hops and the acknowledgement that build_path_ack was
\* given, if the length byte says how many bytes of hops there are.
THEOREM DecodeOfBuildPathAck ==
  ASSUME NEW key \in Keys, NEW dst \in Bytes, NEW src \in Bytes, NEW lenByte \in Bytes,
         NEW path \in Seq(Bytes), Len(path) = PathByteLen(lenByte),
         NEW ack \in Seq(Bytes), Len(ack) = 4, NEW nonce \in Bytes
  PROVE  DecodePath(BuildPathAck(key, dst, src, path, lenByte, Ack6(ack, nonce)), key, dst)
           = [path |-> path, lenByte |-> lenByte, ack |-> ack]
BY PathAckFacts

\* A name in which no ": " stands.
IsPlainName(name) == \A i \in 1..(Len(name) - 1) : ~(name[i] = 58 /\ name[i + 1] = 32)

\* The first ": " of a name that has none, a ": " and a text.
LEMMA FirstColon ==
  ASSUME NEW name \in Seq(Bytes), IsPlainName(name), NEW cs, cs = ColonSpace,
         NEW text \in Seq(Bytes), NEW raw, raw = (name \o cs) \o text
  PROVE  ColonAt(raw) = Len(name) + 1
<1>1. 58 \in Bytes /\ 32 \in Bytes
  BY DEF Bytes
<1>2. cs \in Seq(Bytes) /\ Len(cs) = 2 /\ cs[1] = 58 /\ cs[2] = 32
  BY <1>1, TwoBytes DEF ColonSpace
<1>3. PICK nc : nc = name \o cs
  OBVIOUS
<1>4. nc \in Seq(Bytes) /\ Len(nc) = Len(name) + 2 /\ Len(name) \in Nat
  <2>1. cs \in Seq(Bytes)
    BY <1>2
  <2>2. nc \in Seq(Bytes) /\ Len(nc) = Len(name) + Len(cs) /\ Len(name) \in Nat
    BY ONLY name \in Seq(Bytes), <1>3, <2>1, JoinFacts
  <2> QED
    BY <1>2, <2>2
<1>5. raw = nc \o text
  BY <1>3
<1>6. raw \in Seq(Bytes) /\ Len(raw) = Len(nc) + Len(text) /\ Len(text) \in Nat
  BY ONLY text \in Seq(Bytes), <1>4, <1>5, JoinFacts
<1>7. PICK n \in Nat : n = Len(name)
  BY <1>4
<1>8. PICK l \in Nat : l = Len(raw) /\ l >= n + 2
  BY <1>4, <1>6, <1>7
<1>9. \A i \in 1..n : raw[i] = name[i]
  <2>1. \A i \in 1..Len(nc) : raw[i] = nc[i]
    BY ONLY text \in Seq(Bytes), <1>4, <1>5, JoinedFacts
  <2>2. \A i \in 1..Len(name) : nc[i] = name[i]
    <3>1. cs \in Seq(Bytes)
      BY <1>2
    <3> QED
      BY ONLY name \in Seq(Bytes), <3>1, <1>3, JoinedFacts
  <2> QED
    BY <1>4, <1>7, <2>1, <2>2
<1>10. SubSeq(raw, n + 1, n + 2) = cs
  <2>1. SubSeq(raw, Len(name) + 1, Len(name) + Len(cs)) = cs
    <3>1. cs \in Seq(Bytes)
      BY <1>2
    <3> QED
      BY ONLY name \in Seq(Bytes), text \in Seq(Bytes), <3>1, raw = (name \o cs) \o text, MiddleFacts
  <2> QED
    BY <1>2, <1>7, <2>1
<1>11. ASSUME NEW i \in 1..n
       PROVE  SubSeq(raw, i, i + 1) # cs
  <2>1. i \in Nat \ {0} /\ i + 1 \in 0..Len(raw)
    BY <1>8
  <2>2. \A j \in 1..((i + 1) - i + 1) : SubSeq(raw, i, i + 1)[j] = raw[i + j - 1]
    BY ONLY <1>6, <2>1, PartFacts
  <2>3. SubSeq(raw, i, i + 1)[1] = raw[i] /\ SubSeq(raw, i, i + 1)[2] = raw[i + 1]
    <3>1. 1 \in 1..((i + 1) - i + 1) /\ 2 \in 1..((i + 1) - i + 1) /\ i + 1 - 1 = i /\ i + 2 - 1 = i + 1
      BY <2>1
    <3> QED
      BY <2>2, <3>1
  <2>4. CASE i = n
    <3>1. n + 1 \in Nat \ {0} /\ n + 2 \in 0..Len(raw)
      BY <1>8
    <3>2. \A j \in 1..((n + 2) - (n + 1) + 1) : SubSeq(raw, n + 1, n + 2)[j] = raw[(n + 1) + j - 1]
      BY ONLY <1>6, <3>1, PartFacts
    <3>3. 1 \in 1..((n + 2) - (n + 1) + 1) /\ (n + 1) + 1 - 1 = n + 1
      OBVIOUS
    <3>4. raw[n + 1] = 58
      <4>1. SubSeq(raw, n + 1, n + 2)[1] = raw[(n + 1) + 1 - 1]
        BY ONLY <3>2, <3>3, Zenon
      <4>2. SubSeq(raw, n + 1, n + 2)[1] = 58
        BY ONLY <1>2, <1>10, Zenon
      <4> QED
        BY ONLY <3>3, <4>1, <4>2, Zenon
    <3>5. raw[i + 1] = 58
      BY <2>4, <3>4
    <3>6. SubSeq(raw, i, i + 1)[2] = 58
      BY <2>3, <3>5
    <3>7. 58 # 32
      OBVIOUS
    <3> QED
      BY ONLY <1>2, <3>6, <3>7, ZenonT(30)
  <2>5. CASE i # n
    <3>1. i \in 1..(n - 1) /\ i + 1 \in 1..n
      BY <2>5
    <3>2. ~(name[i] = 58 /\ name[i + 1] = 32)
      BY <1>7, <3>1 DEF IsPlainName
    <3>3. raw[i] = name[i] /\ raw[i + 1] = name[i + 1]
      BY <1>9, <3>1
    <3>4. cs[1] = 58 /\ cs[2] = 32
      BY <1>2
    <3>5. SubSeq(raw, i, i + 1)[1] = name[i] /\ SubSeq(raw, i, i + 1)[2] = name[i + 1]
      BY ONLY <2>3, <3>3
    <3>6. ASSUME SubSeq(raw, i, i + 1) = cs
          PROVE  name[i] = 58 /\ name[i + 1] = 32
      BY ONLY <3>4, <3>5, <3>6
    <3> QED
      BY ONLY <3>2, <3>6
  <2> QED
    BY <2>4, <2>5
<1> DEFINE I == {i \in 1..(Len(raw) - 1) : SubSeq(raw, [k \in 1..Len(raw) |-> k][i], [k \in 1..Len(raw) |-> k][i] + 1) = ColonSpace}
<1>12. \A i : i \in I <=> i \in 1..(l - 1) /\ SubSeq(raw, i, i + 1) = cs
  <2>1. \A i \in 1..(l - 1) : [k \in 1..Len(raw) |-> k][i] = i
    BY <1>8
  <2>2. \A i : i \in I <=> /\ i \in 1..(l - 1)
                           /\ SubSeq(raw, [k \in 1..Len(raw) |-> k][i], [k \in 1..Len(raw) |-> k][i] + 1) = cs
    BY <1>8
  <2> QED
    BY <2>1, <2>2
<1>13. Min(I) = n + 1 /\ n + 1 \in I
  <2> HIDE DEF I
  <2>1. n + 1 \in I
    <3>1. n + 1 \in 1..(l - 1) /\ (n + 1) + 1 = n + 2
      BY <1>8
    <3> QED
      BY <1>10, <1>12, <3>1
  <2>2. I \subseteq Nat
    BY <1>12
  <2>3. ASSUME NEW i \in I
        PROVE  n + 1 <= i
    <3>1. i \in 1..(l - 1) /\ SubSeq(raw, i, i + 1) = cs
      BY <1>12
    <3>2. i \notin 1..n
      BY <1>11, <3>1
    <3> QED
      BY <3>1, <3>2
  <2> QED
    BY <2>1, <2>2, <2>3, MinFacts
<1> QED
  BY <1>7, <1>13 DEF ColonAt, SelectInSubSeq

\* The parts of a sequence before and after another.
LEMMA OuterFacts ==
  ASSUME NEW S, NEW a \in Seq(S), NEW b \in Seq(S), NEW c \in Seq(S), NEW w, w = (a \o b) \o c
  PROVE  SubSeq(w, 1, Len(a)) = a /\ SubSeq(w, Len(a) + Len(b) + 1, Len(w)) = c
<1>1. PICK ab : ab = a \o b
  OBVIOUS
<1>2. PICK bc : bc = b \o c
  OBVIOUS
<1>3. ab \in Seq(S) /\ Len(ab) = Len(a) + Len(b)
  BY <1>1, JoinFacts
<1>4. bc \in Seq(S)
  BY <1>2, JoinFacts
<1>5. w = ab \o c /\ w = a \o bc
  BY <1>1, <1>2, ConcatAssociative
<1>6. SubSeq(w, 1, Len(a)) = a
  BY ONLY a \in Seq(S), <1>4, <1>5, PrefixFacts
<1>7. SubSeq(w, Len(ab) + 1, Len(w)) = c
  BY ONLY c \in Seq(S), <1>3, <1>5, RestFacts
<1> QED
  BY <1>3, <1>6, <1>7

\* What a channel message says.
GroupCore(sender, text, ts) == StampBytes(ts) \o << 0 >> \o sender \o ColonSpace \o text

\* The byte of the type, and the ": ".
LEMMA TypeAndColon ==
  ASSUME NEW nul, nul = << 0 >>, NEW cs, cs = ColonSpace
  PROVE  /\ nul \in Seq(Bytes) /\ Len(nul) = 1 /\ nul[1] = 0
         /\ cs \in Seq(TextBytes) /\ cs \in Seq(Bytes) /\ Len(cs) = 2
<1>1. 0 \in Bytes /\ 58 \in TextBytes /\ 32 \in TextBytes
  BY DEF TextBytes, Bytes
<1>2. nul \in Seq(Bytes) /\ Len(nul) = 1 /\ nul[1] = 0
  BY <1>1, OneByte
<1>3. cs \in Seq(TextBytes) /\ Len(cs) = 2
  BY <1>1, TwoBytes DEF ColonSpace
<1>4. cs \in Seq(Bytes)
  BY <1>3, TextFacts, WiderFacts
<1> QED
  BY <1>2, <1>3, <1>4

\* The plaintext of a channel message: timestamp, type byte, then "name: text".
LEMMA GroupCoreFacts ==
  ASSUME NEW sender \in Seq(TextBytes), NEW text \in Seq(TextBytes), NEW ts \in ShortStamps
  PROVE  \E head \in Seq(Bytes), body \in Seq(TextBytes) :
           /\ GroupCore(sender, text, ts) = head \o body
           /\ Len(head) = 5 /\ head[5] = 0 /\ StampOf(head) = ts
           /\ Len(body) = Len(sender) + Len(text) + 2
           /\ body = (sender \o ColonSpace) \o text
<1>1. PICK x : x = << 0 >>
  OBVIOUS
<1>2. PICK cs : cs = ColonSpace
  OBVIOUS
<1>3. /\ x \in Seq(Bytes) /\ Len(x) = 1 /\ x[1] = 0
      /\ cs \in Seq(TextBytes) /\ cs \in Seq(Bytes) /\ Len(cs) = 2
  BY <1>1, <1>2, TypeAndColon
<1>4. PICK head : head = StampBytes(ts) \o x
  OBVIOUS
<1>5. /\ head \in Seq(Bytes) /\ Len(head) = 5 /\ head[1] = StampBytes(ts)[1] /\ head[5] = x[1]
      /\ StampOf(head) = ts
  BY ONLY ts \in ShortStamps, <1>3, <1>4, StampedFacts
<1>6. PICK sc : sc = sender \o cs
  OBVIOUS
<1>7. sc \in Seq(TextBytes) /\ Len(sc) = Len(sender) + Len(cs) /\ Len(sender) \in Nat
  BY ONLY sender \in Seq(TextBytes), <1>3, <1>6, JoinFacts
<1>8. PICK body : body = sc \o text
  OBVIOUS
<1>9. body \in Seq(TextBytes) /\ Len(body) = Len(sc) + Len(text) /\ Len(text) \in Nat
  BY ONLY text \in Seq(TextBytes), <1>7, <1>8, JoinFacts
<1>10. Len(body) = Len(sender) + Len(text) + 2
  BY <1>3, <1>7, <1>9
<1>11. sender \in Seq(Bytes) /\ text \in Seq(Bytes)
  BY TextFacts, WiderFacts
<1>12. PICK hs : hs = head \o sender
  OBVIOUS
<1>13. PICK hsc : hsc = head \o sc
  OBVIOUS
<1>14. hs \o cs = hsc
  <2>1. hs \o cs = head \o sc
    BY ONLY <1>3, <1>5, <1>6, <1>11, <1>12, Regrouped, SMTT(30)
  <2> QED
    BY <1>13, <2>1
<1>15. hsc \o text = head \o body
  <2>1. sc \in Seq(Bytes)
    BY <1>7, TextFacts, WiderFacts
  <2> QED
    BY ONLY <1>5, <1>8, <1>11, <1>13, <2>1, Regrouped
<1>16. GroupCore(sender, text, ts) = head \o body
  BY <1>1, <1>2, <1>4, <1>12, <1>14, <1>15 DEF GroupCore
<1>17. body = (sender \o ColonSpace) \o text
  BY <1>2, <1>6, <1>8
<1>18. head[5] = 0
  BY <1>3, <1>5
<1> QED
  BY <1>5, <1>9, <1>10, <1>16, <1>17, <1>18

\* The parts of what encode_group_text returns, and what its receiver decrypts.
LEMMA GroupTextFacts ==
  ASSUME NEW key \in Keys, NEW channel \in Bytes, NEW sender \in Seq(TextBytes),
         NEW text \in Seq(TextBytes), NEW ts \in ShortStamps
  PROVE  \E core \in Seq(Bytes), w \in Seq(WireBytes) :
           /\ core = GroupCore(sender, text, ts) /\ w = EncodeGroupText(key, channel, sender, text, ts)
           /\ core # <<>> /\ Len(core) = Len(sender) + Len(text) + 7
           /\ Len(w) = 3 + Len(Padded(core)) /\ w[1] = channel
           /\ MacThenDecrypt(key, Tail(w)) = Padded(core)
<1>25. PICK core : core = GroupCore(sender, text, ts)
  OBVIOUS
<1>26. PICK w : w = EncodeGroupText(key, channel, sender, text, ts)
  OBVIOUS
<1>1. \E head \in Seq(Bytes), body \in Seq(TextBytes) :
           /\ GroupCore(sender, text, ts) = head \o body
           /\ Len(head) = 5 /\ head[5] = 0 /\ StampOf(head) = ts
           /\ Len(body) = Len(sender) + Len(text) + 2
           /\ body = (sender \o ColonSpace) \o text
  BY ONLY sender \in Seq(TextBytes), text \in Seq(TextBytes), ts \in ShortStamps, GroupCoreFacts, Zenon
<1>3. PICK head \in Seq(Bytes), body \in Seq(TextBytes) :
        core = head \o body /\ Len(head) = 5 /\ Len(body) = Len(sender) + Len(text) + 2
  BY ONLY <1>1, <1>25, Zenon
<1>4. core \in Seq(Bytes) /\ core # <<>> /\ Len(core) = Len(sender) + Len(text) + 7
  <2>1. body \in Seq(Bytes)
    BY <1>3, TextFacts, WiderFacts
  <2>2. core \in Seq(Bytes) /\ Len(core) = Len(head) + Len(body) /\ Len(body) \in Nat
    BY ONLY <1>3, <2>1, JoinFacts
  <2>3. Len(sender) \in Nat /\ Len(text) \in Nat
    OBVIOUS
  <2> QED
    BY <1>3, <2>2, <2>3
<1>5. PICK sealed : sealed = EncryptThenMac(key, core)
  OBVIOUS
<1>6. PICK plain : plain = Padded(core)
  OBVIOUS
<1>7. sealed \in Seq(WireBytes) /\ Len(sealed) = 2 + Len(plain) /\ MacThenDecrypt(key, sealed) = plain
  BY <1>4, <1>5, <1>6, SealedFacts
<1>8. Len(plain) \in Nat
  BY <1>4, <1>6, PaddedFacts
<1>9. PICK x : x = <<channel>>
  OBVIOUS
<1>10. x \in Seq(Bytes) /\ Len(x) = 1 /\ x[1] = channel
  BY <1>9, OneByte
<1>11. Written(Clear, x) = x /\ x \in Seq(WireBytes)
  BY <1>10, ClearFacts
<1>12. w = x \o sealed
  BY <1>5, <1>9, <1>11, <1>25, <1>26 DEF EncodeGroupText, GroupCore
<1>13. w \in Seq(WireBytes) /\ Len(w) = 3 + Len(plain)
  <2>1. w \in Seq(WireBytes) /\ Len(w) = Len(x) + Len(sealed)
    BY ONLY <1>7, <1>11, <1>12, JoinFacts
  <2> QED
    BY <1>7, <1>8, <1>10, <2>1
<1>14. w[1] = channel
  <2>1. Len(x) > 0
    BY <1>10
  <2>2. w[1] = x[1]
    BY ONLY <1>7, <1>11, <1>12, <2>1, JoinedFacts
  <2> QED
    BY <1>10, <2>2
<1>15. Tail(w) = sealed
  <2>1. Len(x) = 1
    BY <1>10
  <2> QED
    BY ONLY <1>7, <1>11, <1>12, <2>1, TailFacts
<1> QED
  BY <1>4, <1>6, <1>7, <1>13, <1>14, <1>15, <1>25, <1>26

\* decode_group_text gives back what encode_group_text was given, if no ": " stands
\* in the name.
THEOREM DecodeOfEncodeGroupText ==
  ASSUME NEW key \in Keys, NEW channel \in Bytes, NEW sender \in Seq(TextBytes), IsPlainName(sender),
         NEW text \in Seq(TextBytes), NEW ts \in ShortStamps
  PROVE  DecodeGroupText(EncodeGroupText(key, channel, sender, text, ts), key, channel)
           = [ts |-> ts, sender |-> sender, text |-> text]
<1>3. PICK core \in Seq(Bytes), w \in Seq(WireBytes) :
        /\ core = GroupCore(sender, text, ts) /\ w = EncodeGroupText(key, channel, sender, text, ts)
        /\ core # <<>> /\ Len(core) = Len(sender) + Len(text) + 7
        /\ Len(w) = 3 + Len(Padded(core)) /\ w[1] = channel
        /\ MacThenDecrypt(key, Tail(w)) = Padded(core)
  BY ONLY key \in Keys, channel \in Bytes, sender \in Seq(TextBytes), text \in Seq(TextBytes),
          ts \in ShortStamps, GroupTextFacts, ZenonT(30)
<1>4. PICK head \in Seq(Bytes), body \in Seq(TextBytes) :
        /\ core = head \o body
        /\ Len(head) = 5 /\ head[5] = 0 /\ StampOf(head) = ts
        /\ Len(body) = Len(sender) + Len(text) + 2
        /\ body = (sender \o ColonSpace) \o text
  <2>1. \E head \in Seq(Bytes), body \in Seq(TextBytes) :
           /\ GroupCore(sender, text, ts) = head \o body
           /\ Len(head) = 5 /\ head[5] = 0 /\ StampOf(head) = ts
           /\ Len(body) = Len(sender) + Len(text) + 2
           /\ body = (sender \o ColonSpace) \o text
    BY ONLY sender \in Seq(TextBytes), text \in Seq(TextBytes), ts \in ShortStamps, GroupCoreFacts, Zenon
  <2> QED
    BY ONLY <1>3, <2>1, Zenon
<1>1. PICK nul : nul = << 0 >>
  OBVIOUS
<1>13. PICK cs : cs = ColonSpace
  OBVIOUS
<1>14. body = (sender \o cs) \o text
  BY <1>4, <1>13
<1>16. cs \in Seq(Bytes) /\ Len(cs) = 2
  BY <1>1, <1>13, TypeAndColon
<1>7. PICK plain : plain = Padded(core)
  OBVIOUS
<1>8. /\ plain \in Seq(Bytes)
      /\ \A i \in 1..5 : plain[i] = head[i]
      /\ SubSeq(plain, 1, 5) = head
      /\ BeforeNul(SubSeq(plain, 6, Len(plain))) = body
  <2>1. core = head \o body /\ Len(head) = 5
    BY <1>4
  <2>2. IsFilled(plain, head, body)
    BY ONLY head \in Seq(Bytes), body \in Seq(TextBytes), <1>7, <2>1, BodyFacts
  <2> QED
    BY <2>2 DEF IsFilled
<1>9. plain # Malformed /\ Len(plain) >= CIPHER_BLOCK_SIZE
  BY <1>3, <1>7, <1>8, PaddedFacts, MalformedPlain
<1>10. StampOf(plain) = ts /\ plain[5] = 0
  <2>1. /\ plain[1] = head[1] /\ plain[2] = head[2] /\ plain[3] = head[3] /\ plain[4] = head[4]
        /\ plain[5] = head[5]
    BY <1>8
  <2> QED
    BY <1>4, <2>1 DEF StampOf
<1>11. ~(Len(w) < 1 + CIPHER_MAC_SIZE + CIPHER_BLOCK_SIZE)
  <2>1. Len(plain) \in Nat
    BY <1>8
  <2> QED
    BY <1>3, <1>7, <1>9, <2>1, BlockAssumption DEF CIPHER_MAC_SIZE
<1>12. sender \in Seq(Bytes) /\ text \in Seq(Bytes)
  BY TextFacts, WiderFacts
<1>15. ColonAt(body) = Len(sender) + 1
  BY ONLY IsPlainName(sender), <1>12, <1>13, <1>14, FirstColon
<1>17. PICK n \in Nat : n = Len(sender)
  BY <1>12
<1>18. SubSeq(body, 1, n) = sender /\ SubSeq(body, n + 3, Len(body)) = text
  <2>3. PICK name : name = sender
    OBVIOUS
  <2>4. PICK said : said = text
    OBVIOUS
  <2>5. name \in Seq(Bytes) /\ said \in Seq(Bytes)
    BY <1>12, <2>3, <2>4
  <2>6. body = (name \o cs) \o said
    BY <1>14, <2>3, <2>4
  <2>7. cs \in Seq(Bytes)
    BY <1>16
  <2>8. SubSeq(body, 1, Len(name)) = name /\ SubSeq(body, Len(name) + Len(cs) + 1, Len(body)) = said
    BY ONLY <2>5, <2>6, <2>7, OuterFacts
  <2>1. /\ SubSeq(body, 1, Len(sender)) = sender
        /\ SubSeq(body, Len(sender) + Len(cs) + 1, Len(body)) = text
    BY <2>3, <2>4, <2>8
  <2>2. n + 2 + 1 = n + 3
    OBVIOUS
  <2> QED
    BY <1>16, <1>17, <2>1, <2>2
<1>20. (n + 1) - 1 = n /\ (n + 1) + 2 = n + 3 /\ n + 1 # 0 /\ 0 \div 4 = 0
  OBVIOUS
<1>21. DecodeGroupText(w, key, channel)
         = [ts |-> StampOf(plain), sender |-> SubSeq(body, 1, (n + 1) - 1),
            text |-> SubSeq(body, (n + 1) + 2, Len(body))]
  BY <1>3, <1>7, <1>8, <1>9, <1>10, <1>11, <1>15, <1>17, <1>20 DEF DecodeGroupText
<1> QED
  BY <1>3, <1>10, <1>18, <1>20, <1>21

-----------------------------------------------------------------------------
(* What is sent.                                                           *)

\* An attempt at a direct message, a channel message, and the payloads that
\* carry them.
IsDm(m)      == \E ts \in ShortStamps, a \in {0, 1}, text \in Texts : m = Attempt(ts, a, text)
IsChannel(m) == \E ts \in ShortStamps, text \in Texts :
                  m = [sender |-> Nickname, ts |-> ts, text |-> text]

DmPayload(m)      == EncodeDm(PairKey, Them, Us, m.ts, m.attempt, m.text)
ChannelPayload(m) == EncodeGroupText(ChannelKey, Channel, Nickname, m.text, m.ts)

\* A payload that fits a packet.
IsPayload(s) == s \in Seq(WireBytes) /\ 1 <= Len(s) /\ Len(s) <= MAX_PACKET_PAYLOAD

\* A sequence of four elements.
LEMMA FourBytes ==
  ASSUME NEW S, NEW a \in S, NEW b \in S, NEW c \in S, NEW d \in S, NEW s, s = <<a, b, c, d>>
  PROVE  s \in Seq(S) /\ Len(s) = 4 /\ s[1] = a /\ s[2] = b
OBVIOUS

\* The constants, one by one.
LEMMA JourneyFacts ==
  /\ Us \in Bytes /\ Them \in Bytes /\ Channel \in Bytes /\ Repeaters \subseteq Bytes
  /\ PairKey \in Keys /\ ChannelKey \in Keys /\ Clear \in Keys
  /\ MAX_PACKET_PAYLOAD \in Nat /\ MAX_PACKET_PAYLOAD < 256
  /\ MAX_PATH_SIZE \in Nat /\ CIPHER_BLOCK_SIZE \in Nat
<1>1. Nodes \subseteq Bytes /\ Channel \in Bytes
  BY JourneyAssumption
<1>2. Us \in Bytes /\ Them \in Bytes /\ Repeaters \subseteq Bytes
  BY <1>1 DEF Nodes
<1>3. PairKey \in Keys /\ ChannelKey \in Keys /\ Clear \in Keys
  BY DEF Keys
<1> QED
  BY <1>1, <1>2, <1>3, CodecAssumption, BlockAssumption, ByteFacts

\* Every text fits a packet, with our name and the padding.
LEMMA FittingText ==
  ASSUME NEW text \in Texts
  PROVE  /\ text \in Seq(TextBytes) /\ Nickname \in Seq(TextBytes)
         /\ Len(text) \in Nat /\ Len(Nickname) \in Nat
         /\ Len(Nickname) + Len(text) + CIPHER_BLOCK_SIZE + 9 <= MAX_PACKET_PAYLOAD
BY FitAssumption

\* A direct message fits its packet, is decoded as it was sent, and its
\* acknowledgement tells the last byte of its timestamp and the attempt.
LEMMA DmFacts ==
  ASSUME NEW m, IsDm(m)
  PROVE  /\ m.ts \in ShortStamps /\ m.attempt \in {0, 1} /\ m.text \in Texts
         /\ m = Attempt(m.ts, m.attempt, m.text)
         /\ m.ack \in Seq(Bytes) /\ Len(m.ack) = 4
         /\ m.ack[1] = m.ts % 256 /\ m.ack[2] = m.attempt
         /\ IsPayload(DmPayload(m)) /\ DmPayload(m)[1] = Them
         /\ DecodeDm(DmPayload(m), PairKey, Them) = m
<1>1. PICK ts \in ShortStamps, a \in {0, 1}, text \in Texts : m = Attempt(ts, a, text)
  BY DEF IsDm
<1>2. m.ts = ts /\ m.attempt = a /\ m.text = text /\ m.ack = DmAckHash(DmPlaintext(ts, a, text))
  BY <1>1 DEF Attempt
<1>3. /\ text \in Seq(TextBytes) /\ Len(text) \in Nat /\ Len(Nickname) \in Nat
      /\ Len(Nickname) + Len(text) + CIPHER_BLOCK_SIZE + 9 <= MAX_PACKET_PAYLOAD
  BY FittingText
<1>4. a \in Attempts
  BY DEF Attempts
<1>5. PICK key : key = PairKey
  OBVIOUS
<1>6. key \in Keys /\ Them \in Bytes /\ Us \in Bytes
  BY <1>5, JourneyFacts
<1>7. PICK core \in Seq(Bytes), w \in Seq(WireBytes) :
        EncodesDm(key, Them, Us, ts, a, text, core, w)
  BY ONLY ts \in ShortStamps, <1>3, <1>4, <1>6, EncodedDmFacts
<1>8. core = DmPlaintext(ts, a, text) /\ Len(core) = Len(text) + 5 /\ core[1] = ts % 256 /\ core[5] = a
  BY <1>7 DEF EncodesDm
<1>9. DmPayload(m) = w /\ w[1] = Them /\ DecodeDm(w, PairKey, Them) = m
  BY <1>1, <1>2, <1>5, <1>7 DEF DmPayload, EncodesDm
<1>10. IsPayload(w)
  <2>1. Len(w) \in Nat /\ 1 <= Len(w) /\ Len(w) <= Len(text) + CIPHER_BLOCK_SIZE + 8 /\ w \in Seq(WireBytes)
    BY <1>7 DEF EncodesDm
  <2>2. CIPHER_BLOCK_SIZE \in Nat /\ MAX_PACKET_PAYLOAD \in Nat
    BY JourneyFacts
  <2>3. Len(w) <= MAX_PACKET_PAYLOAD
    BY <1>3, <2>1, <2>2
  <2> QED
    BY <2>1, <2>3 DEF IsPayload
<1>11. m.ack \in Seq(Bytes) /\ Len(m.ack) = 4 /\ m.ack[1] = ts % 256 /\ m.ack[2] = a
  <2>1. PICK n \in Nat : n = Len(core)
    OBVIOUS
  <2>2. n < 256 /\ n >= 5
    BY <1>3, <1>8, <2>1, JourneyFacts
  <2>3. n \in Bytes
    BY <2>1, <2>2, ByteFacts
  <2>4. core[1] \in Bytes /\ core[5] \in Bytes /\ core[n] \in Bytes
    BY <2>1, <2>2
  <2>5. m.ack = <<core[1], core[5], n, core[n]>>
    BY <1>2, <1>8, <2>1 DEF DmAckHash
  <2>6. m.ack \in Seq(Bytes) /\ Len(m.ack) = 4 /\ m.ack[1] = core[1] /\ m.ack[2] = core[5]
    BY <2>3, <2>4, <2>5, FourBytes
  <2> QED
    BY <1>8, <2>6
<1> QED
  BY <1>1, <1>2, <1>9, <1>10, <1>11

\* Two attempts with one acknowledgement are of one timestamp, or far apart.
LEMMA AckTells ==
  ASSUME NEW m, IsDm(m), NEW o, IsDm(o), m.ack = o.ack
  PROVE  m.attempt = o.attempt /\ m.ts % 256 = o.ts % 256
<1>1. m.ack[1] = m.ts % 256 /\ m.ack[2] = m.attempt
  BY DmFacts
<1>2. o.ack[1] = o.ts % 256 /\ o.ack[2] = o.attempt
  BY DmFacts
<1> QED
  BY <1>1, <1>2

\* A channel message fits its packet, and is decoded as it was sent.
LEMMA ChannelFacts ==
  ASSUME NEW m, IsChannel(m)
  PROVE  /\ IsPayload(ChannelPayload(m))
         /\ IsPlainName(Nickname) => DecodeGroupText(ChannelPayload(m), ChannelKey, Channel) = m
<1>1. PICK ts \in ShortStamps, text \in Texts : m = [sender |-> Nickname, ts |-> ts, text |-> text]
  BY DEF IsChannel
<1>2. m.ts = ts /\ m.text = text
  BY <1>1
<1>3. /\ text \in Seq(TextBytes) /\ Nickname \in Seq(TextBytes)
      /\ Len(text) \in Nat /\ Len(Nickname) \in Nat
      /\ Len(Nickname) + Len(text) + CIPHER_BLOCK_SIZE + 9 <= MAX_PACKET_PAYLOAD
  BY FittingText
<1>4. PICK key : key = ChannelKey
  OBVIOUS
<1>5. key \in Keys /\ Channel \in Bytes /\ CIPHER_BLOCK_SIZE \in Nat /\ MAX_PACKET_PAYLOAD \in Nat
  BY <1>4, JourneyFacts
<1>6. PICK core \in Seq(Bytes), w \in Seq(WireBytes) :
        /\ core = GroupCore(Nickname, text, ts) /\ w = EncodeGroupText(key, Channel, Nickname, text, ts)
        /\ core # <<>> /\ Len(core) = Len(Nickname) + Len(text) + 7
        /\ Len(w) = 3 + Len(Padded(core)) /\ w[1] = Channel
        /\ MacThenDecrypt(key, Tail(w)) = Padded(core)
  BY ONLY ts \in ShortStamps, <1>3, <1>5, GroupTextFacts, ZenonT(30)
<1>7. ChannelPayload(m) = w
  BY <1>2, <1>4, <1>6 DEF ChannelPayload
<1>8. IsPayload(w)
  <2>1. PICK k \in Nat : k < CIPHER_BLOCK_SIZE /\ Len(Padded(core)) = Len(core) + k
    BY PaddedFacts
  <2> QED
    BY <1>3, <1>5, <1>6, <2>1 DEF IsPayload
<1>9. ASSUME IsPlainName(Nickname)
      PROVE  DecodeGroupText(w, key, Channel) = m
  <2>1. DecodeGroupText(EncodeGroupText(key, Channel, Nickname, text, ts), key, Channel)
          = [ts |-> ts, sender |-> Nickname, text |-> text]
    BY ONLY ts \in ShortStamps, <1>3, <1>5, <1>9, DecodeOfEncodeGroupText, Zenon
  <2> QED
    BY <1>1, <1>6, <2>1
<1> QED
  BY <1>4, <1>7, <1>8, <1>9

-----------------------------------------------------------------------------
(* The packets of this mesh.                                               *)

\* The route types and the payload types that this mesh carries.
Routes == {ROUTE_TYPE_FLOOD, ROUTE_TYPE_DIRECT}
Types  == {PAYLOAD_TYPE_TXT_MSG, PAYLOAD_TYPE_ACK, PAYLOAD_TYPE_GRP_TXT, PAYLOAD_TYPE_PATH}

\* Hops that one byte each can count.
IsPath(path) == path \in Seq(Repeaters) /\ Len(path) < 64 /\ Len(path) <= MAX_PATH_SIZE

\* A packet with one byte per hop, as Packet.create makes it.
Made(route, type, path, payload) == Packet(MakeHeader(route, type, 0), Len(path), path, payload)

\* Such a packet, written and parsed, and its hash, which leaves the hops out.
IsMade(p, route, type, path, payload) ==
  /\ p = Made(route, type, path, payload)
  /\ p \in Packets /\ p # Malformed /\ Parse(ToBytes(p)) = p /\ ToBytes(p) \in Seq(WireBytes)
  /\ RouteType(p.header) = route /\ PayloadType(p.header) = type
  /\ p.lenByte = Len(path) /\ p.path = path /\ p.payload = payload
  /\ PacketHash(p) = <<type, <<>>, payload>>

\* The header byte tells both types, and none of them has transport codes.
LEMMA HeaderFacts ==
  ASSUME NEW route \in Routes, NEW type \in Types, NEW h, h = MakeHeader(route, type, 0)
  PROVE  /\ h \in Bytes /\ RouteType(h) = route /\ PayloadType(h) = type
         /\ ~HasTransportCodes(h) /\ type # PAYLOAD_TYPE_TRACE
<1>1. h = route + 4 * type /\ route \in {1, 2} /\ type \in {2, 3, 5, 8}
  BY DEF MakeHeader, Routes, Types, ROUTE_TYPE_FLOOD, ROUTE_TYPE_DIRECT, PAYLOAD_TYPE_TXT_MSG,
         PAYLOAD_TYPE_ACK, PAYLOAD_TYPE_GRP_TXT, PAYLOAD_TYPE_PATH
<1>2. h \in Nat /\ h < 256 /\ h % 4 = route /\ (h \div 4) % 16 = type
  BY <1>1
<1>3. h \in Bytes
  BY <1>2, ByteFacts
<1> QED
  BY <1>1, <1>2, <1>3 DEF RouteType, PayloadType, HasTransportCodes, TransportTypes, PAYLOAD_TYPE_TRACE

\* The hops of a packet, and the byte that counts them.
LEMMA PathFacts ==
  ASSUME NEW path, IsPath(path)
  PROVE  /\ path \in Seq(Bytes) /\ path \in Seq(Nat) /\ path \in Seq(WireBytes) /\ path \in Seq(Repeaters)
         /\ Len(path) \in Bytes /\ Len(path) \in Nat /\ Len(path) < 64 /\ Len(path) <= MAX_PATH_SIZE
         /\ PathByteLen(Len(path)) = Len(path) /\ IsValidPathLen(Len(path))
<1>1. path \in Seq(Repeaters) /\ Len(path) < 64 /\ Len(path) <= MAX_PATH_SIZE
  BY DEF IsPath
<1>2. path \in Seq(Bytes)
  BY <1>1, JourneyFacts, WiderFacts
<1>3. path \in Seq(WireBytes)
  BY <1>2, WireFacts, WiderFacts
<1>4. path \in Seq(Nat)
  BY <1>2, BytesAreNumbers
<1>5. PICK n \in Nat : n = Len(path)
  BY <1>1
<1>6. n < 64 /\ n % 64 = n /\ n \div 64 = 0 /\ n < 256
  BY <1>1, <1>5
<1>7. PathByteLen(n) = n /\ HashSize(n) = 1
  BY <1>6 DEF PathByteLen, HashCount, HashSize
<1>8. IsValidPathLen(n)
  BY <1>1, <1>5, <1>7 DEF IsValidPathLen
<1>9. n \in Bytes
  BY <1>6, ByteFacts
<1> QED
  BY <1>1, <1>2, <1>3, <1>4, <1>5, <1>6, <1>7, <1>8, <1>9

\* Whatever a node makes or forwards can be parsed.
LEMMA MadeFacts ==
  ASSUME NEW route \in Routes, NEW type \in Types, NEW path, IsPath(path),
         NEW payload, IsPayload(payload)
  PROVE  IsMade(Made(route, type, path, payload), route, type, path, payload)
<1>1. PICK p : p = Made(route, type, path, payload)
  OBVIOUS
<1>2. PICK h : h = MakeHeader(route, type, 0)
  OBVIOUS
<1>3. /\ h \in Bytes /\ RouteType(h) = route /\ PayloadType(h) = type
      /\ ~HasTransportCodes(h) /\ type # PAYLOAD_TYPE_TRACE
  BY <1>2, HeaderFacts
<1>4. PICK n : n = Len(path)
  OBVIOUS
<1>5. /\ path \in Seq(Bytes) /\ path \in Seq(WireBytes) /\ n \in Bytes
      /\ PathByteLen(n) = n /\ IsValidPathLen(n)
  BY <1>4, PathFacts
<1>6. payload \in Seq(WireBytes) /\ 1 <= Len(payload) /\ Len(payload) <= MAX_PACKET_PAYLOAD
  BY DEF IsPayload
<1>7. payload \in Seq(Nat)
  BY <1>6, WireFacts, WiderFacts
<1>8. p = [header |-> h, codes |-> NoCodes, lenByte |-> n, path |-> path, payload |-> payload]
  BY <1>1, <1>2, <1>4 DEF Made, Packet
<1>9. /\ p.header = h /\ p.codes = NoCodes /\ p.lenByte = n /\ p.path = path /\ p.payload = payload
  BY <1>8
<1>10. NoCodes \in Codes
  BY DEF NoCodes, Codes
<1>11. p \in Packets
  BY <1>3, <1>5, <1>7, <1>8, <1>10 DEF Packets
<1>12. IsPacket(p)
  BY <1>4, <1>5, <1>6, <1>9 DEF IsPacket
<1>13. Parse(ToBytes(p)) = p
  BY <1>11, <1>12, ParseOfToBytes
<1>14. ToBytes(p) \in Seq(WireBytes)
  <2>1. PICK x : x = <<h>>
    OBVIOUS
  <2>2. PICK l : l = <<n>>
    OBVIOUS
  <2>3. x \in Seq(WireBytes) /\ l \in Seq(WireBytes)
    <3>1. h \in WireBytes /\ n \in WireBytes
      BY <1>3, <1>5, WireFacts
    <3> QED
      BY <2>1, <2>2, <3>1, OneByte
  <2>4. ToBytes(p) = ((x \o l) \o path) \o payload
    BY <1>3, <1>9, <2>1, <2>2, <2>3, ConcatEmptySeq DEF ToBytes
  <2>5. PICK xl : xl = x \o l
    OBVIOUS
  <2>6. xl \in Seq(WireBytes)
    BY <2>3, <2>5, JoinFacts
  <2>7. PICK xlp : xlp = xl \o path
    OBVIOUS
  <2>8. xlp \in Seq(WireBytes)
    BY <1>5, <2>6, <2>7, JoinFacts
  <2>9. PICK w : w = xlp \o payload
    OBVIOUS
  <2>10. w \in Seq(WireBytes)
    BY <1>6, <2>8, <2>9, JoinFacts
  <2> QED
    BY <2>4, <2>5, <2>7, <2>9, <2>10
<1>15. p # Malformed
  BY <1>11, MalformedPacket
<1>16. PacketHash(p) = <<type, <<>>, payload>>
  BY <1>3, <1>9 DEF PacketHash
<1>17. /\ RouteType(p.header) = route /\ PayloadType(p.header) = type
       /\ p.lenByte = Len(path) /\ p.path = path /\ p.payload = payload
  BY <1>3, <1>4, <1>9
<1> QED
  BY <1>1, <1>11, <1>13, <1>14, <1>15, <1>16, <1>17 DEF IsMade

\* What goes back: the hops of a packet with its acknowledgement, or that alone.
ReturnPayload(back, ack) == BuildPathAck(PairKey, Us, Them, back, Len(back), Ack6(ack, 0))
AckPayload(ack)          == Written(Clear, Ack6(ack, 0))

\* An acknowledgement: the four bytes of a hash.
IsAck(ack) == ack \in Seq(Bytes) /\ Len(ack) = 4

\* A PATH return fits a packet, and decode_path gives its hops and acknowledgement back.
LEMMA ReturnFacts ==
  ASSUME NEW back, IsPath(back), NEW ack, IsAck(ack)
  PROVE  /\ IsPayload(ReturnPayload(back, ack))
         /\ DecodePath(ReturnPayload(back, ack), PairKey, Us)
              = [path |-> back, lenByte |-> Len(back), ack |-> ack]
<1>1. PICK n : n = Len(back)
  OBVIOUS
<1>2. PICK key : key = PairKey
  OBVIOUS
<1>3. PICK nonce : nonce = 0
  OBVIOUS
<1>4. /\ key \in Keys /\ Us \in Bytes /\ Them \in Bytes /\ nonce \in Bytes
      /\ back \in Seq(Bytes) /\ Len(back) = PathByteLen(n) /\ n \in Bytes
  BY <1>1, <1>2, <1>3, JourneyFacts, PathFacts, ByteFacts
<1>5. ack \in Seq(Bytes) /\ Len(ack) = 4
  BY DEF IsAck
<1>6. PICK w : w = BuildPathAck(key, Us, Them, back, n, Ack6(ack, nonce))
  OBVIOUS
<1>7. /\ DecodePath(BuildPathAck(key, Us, Them, back, n, Ack6(ack, nonce)), key, Us)
           = [path |-> back, lenByte |-> n, ack |-> ack]
      /\ BuildPathAck(key, Us, Them, back, n, Ack6(ack, nonce)) \in Seq(WireBytes)
      /\ 1 <= Len(BuildPathAck(key, Us, Them, back, n, Ack6(ack, nonce)))
      /\ Len(BuildPathAck(key, Us, Them, back, n, Ack6(ack, nonce)))
              <= Len(back) + CIPHER_BLOCK_SIZE + 11
  BY ONLY <1>4, <1>5, PathAckFacts
<1>8. w = ReturnPayload(back, ack)
  BY <1>1, <1>2, <1>3, <1>6 DEF ReturnPayload
<1>9. IsPayload(w)
  <2>1. /\ w \in Seq(WireBytes) /\ Len(w) \in Nat /\ 1 <= Len(w)
        /\ Len(w) <= n + CIPHER_BLOCK_SIZE + 11
    BY <1>1, <1>6, <1>7
  <2>2. /\ n \in Nat /\ n <= MAX_PATH_SIZE /\ MAX_PATH_SIZE \in Nat /\ CIPHER_BLOCK_SIZE \in Nat
        /\ MAX_PACKET_PAYLOAD \in Nat /\ MAX_PATH_SIZE + CIPHER_BLOCK_SIZE + 11 <= MAX_PACKET_PAYLOAD
    BY <1>1, PathFacts, JourneyFacts, FitAssumption
  <2>3. Len(w) <= MAX_PACKET_PAYLOAD
    BY <2>1, <2>2
  <2> QED
    BY <2>1, <2>3 DEF IsPayload
<1> QED
  BY <1>1, <1>2, <1>6, <1>7, <1>8, <1>9

\* An acknowledgement fits a packet.
LEMMA AckFacts ==
  ASSUME NEW ack, IsAck(ack)
  PROVE  IsPayload(AckPayload(ack))
<1>1. PICK pair : pair = <<0, 0>>
  OBVIOUS
<1>2. pair \in Seq(Bytes) /\ Len(pair) = 2
  <2>1. 0 \in Bytes
    BY ByteFacts
  <2> QED
    BY <1>1, <2>1, TwoBytes
<1>3. ack \in Seq(Bytes) /\ Len(ack) = 4
  BY DEF IsAck
<1>4. PICK s : s = ack \o pair
  OBVIOUS
<1>5. s \in Seq(Bytes) /\ Len(s) = 6
  <2>1. s \in Seq(Bytes) /\ Len(s) = Len(ack) + Len(pair)
    BY ONLY <1>2, <1>3, <1>4, JoinFacts
  <2> QED
    BY <1>2, <1>3, <2>1
<1>6. AckPayload(ack) = s /\ s \in Seq(WireBytes)
  BY <1>1, <1>4, <1>5, ClearFacts DEF AckPayload, Ack6
<1>7. 6 <= MAX_PACKET_PAYLOAD
  <2>1. /\ MAX_PATH_SIZE \in Nat /\ CIPHER_BLOCK_SIZE \in Nat /\ MAX_PACKET_PAYLOAD \in Nat
        /\ MAX_PATH_SIZE + CIPHER_BLOCK_SIZE + 11 <= MAX_PACKET_PAYLOAD
    BY JourneyFacts, FitAssumption
  <2> QED
    BY <2>1
<1>8. 1 <= Len(s) /\ Len(s) <= MAX_PACKET_PAYLOAD
  BY ONLY <1>5, <1>7
<1>9. IsPayload(s)
  BY <1>6, <1>8 DEF IsPayload
<1> QED
  BY <1>6, <1>9

-----------------------------------------------------------------------------
(* The inductive invariant.                                                *)

\* Payloads that come from one of these messages, or that bring hops or an answer.
CarriesDm(payload, msgs)      == \E m \in msgs : IsDm(m) /\ payload = DmPayload(m)
CarriesChannel(payload, msgs) == \E m \in msgs : IsChannel(m) /\ payload = ChannelPayload(m)
CarriesReturn(payload) == \E back, ack : IsPath(back) /\ IsAck(ack) /\ payload = ReturnPayload(back, ack)
CarriesAck(payload)    == \E ack : IsAck(ack) /\ payload = AckPayload(ack)

\* What a packet carries, once these messages were sent: a channel message and a
\* PATH return are always flooded, an acknowledgement is never.
Carries(route, type, payload, msgs) ==
  \/ type = PAYLOAD_TYPE_TXT_MSG /\ CarriesDm(payload, msgs)
  \/ type = PAYLOAD_TYPE_GRP_TXT /\ route = ROUTE_TYPE_FLOOD /\ CarriesChannel(payload, msgs)
  \/ type = PAYLOAD_TYPE_PATH /\ route = ROUTE_TYPE_FLOOD /\ CarriesReturn(payload)
  \/ type = PAYLOAD_TYPE_ACK /\ route = ROUTE_TYPE_DIRECT /\ CarriesAck(payload)

\* The fields of a packet that some node of this mesh made or forwarded.
IsSound(route, type, path, payload, msgs) ==
  /\ route \in Routes /\ type \in Types /\ IsPath(path) /\ IsPayload(payload)
  /\ Carries(route, type, payload, msgs)

\* A transmission of such a packet.
IsAir(x, msgs) ==
  /\ x.by \in Nodes /\ x.wire \in Seq(WireBytes)
  /\ \E route, type, path, payload :
       /\ IsSound(route, type, path, payload, msgs)
       /\ x.wire = ToBytes(Made(route, type, path, payload))

\* A route, and the number of its hops.
IsContact(c) == c = [path |-> c.path, raw |-> Len(c.path)] /\ IsPath(c.path)

\* Every transmission has a timestamp of its own, but for a second attempt.
SentInv ==
  /\ IsFiniteSet(sent) /\ Cardinality(sent) <= SENDS
  /\ \A m \in sent : (IsDm(m) \/ IsChannel(m)) /\ 255 <= m.ts /\ m.ts < Now
  /\ \A m, o \in sent : IsDm(m) /\ IsDm(o) /\ m.ts = o.ts /\ m.attempt = o.attempt => m = o

\* A record waits for a message of which there was no second attempt.
WaitInv ==
  \A rec \in waiting :
    /\ rec.m \in sent /\ IsDm(rec.m) /\ rec.m.attempt = 0 /\ rec.direct \in BOOLEAN
    /\ \A o \in sent : IsDm(o) /\ o.ts = rec.m.ts => o.attempt = 0
    /\ \A other \in waiting : other.m.ts = rec.m.ts => other = rec

\* Everything on the air was made or forwarded by a node of this mesh.
AirInv == \A x \in air : IsAir(x, sent)

\* Both routes agree with their length byte.
RouteInv == IsContact(contact) /\ theirs \in TheirRoutes

\* The types of the rest.
RestInv ==
  /\ \A x \in relayed : x[1] \in Repeaters
  /\ DOMAIN heard = {Us, Them}
  /\ answers \in Seq(Seq(Bytes))
  /\ overheard \subseteq Seq(Repeaters)
  /\ rxQueue = <<>> \/ rxQueue \in Foreign

\* What was answered was heard, and the contact never forgets what it heard.
DmHash(m) == <<PAYLOAD_TYPE_TXT_MSG, <<>>, DmPayload(m)>>

\* This answer is for that message, which its receiver knows.
IsAnswerTo(ack, m, known) == IsDm(m) /\ ack = m.ack /\ DmHash(m) \in known

AnswerInv == \A i \in 1..Len(answers) : \E m \in sent : IsAnswerTo(answers[i], m, heard[Them])

\* The inductive invariant.
IInv == SentInv /\ WaitInv /\ AirInv /\ RouteInv /\ RestInv /\ AnswerInv /\ AnsweredOnce

-----------------------------------------------------------------------------
(* Packets as they are made, forwarded and received.                       *)

\* What is heard is parsed as what was made.
LEMMA SoundFacts ==
  ASSUME NEW x, NEW msgs, IsAir(x, msgs)
  PROVE  \E route, type, path, payload :
           /\ IsSound(route, type, path, payload, msgs)
           /\ IsMade(Parse(x.wire), route, type, path, payload)
<1>1. PICK route, type, path, payload :
        /\ IsSound(route, type, path, payload, msgs)
        /\ x.wire = ToBytes(Made(route, type, path, payload))
  BY DEF IsAir
<1>2. route \in Routes /\ type \in Types /\ IsPath(path) /\ IsPayload(payload)
  BY <1>1 DEF IsSound
<1>3. IsMade(Made(route, type, path, payload), route, type, path, payload)
  BY <1>2, MadeFacts
<1>4. Parse(x.wire) = Made(route, type, path, payload)
  BY <1>1, <1>3 DEF IsMade
<1> QED
  BY <1>1, <1>3, <1>4

\* A packet with sound fields, on the air.
LEMMA SoundWire ==
  ASSUME NEW n \in Nodes, NEW route, NEW type, NEW path, NEW payload, NEW msgs,
         IsSound(route, type, path, payload, msgs),
         NEW x, x = [by |-> n, wire |-> ToBytes(Made(route, type, path, payload))]
  PROVE  IsAir(x, msgs)
<1>1. route \in Routes /\ type \in Types /\ IsPath(path) /\ IsPayload(payload)
  BY DEF IsSound
<1>2. IsMade(Made(route, type, path, payload), route, type, path, payload)
  BY <1>1, MadeFacts
<1>3. ToBytes(Made(route, type, path, payload)) \in Seq(WireBytes)
  BY <1>2 DEF IsMade
<1>4. x.by = n /\ x.wire = ToBytes(Made(route, type, path, payload))
  OBVIOUS
<1> QED
  BY <1>3, <1>4 DEF IsAir

\* What was sent remains sent.
LEMMA SoundRemains ==
  ASSUME NEW msgs, NEW more, msgs \subseteq more,
         NEW route, NEW type, NEW path, NEW payload, IsSound(route, type, path, payload, msgs)
  PROVE  IsSound(route, type, path, payload, more)
<1>1. Carries(route, type, payload, msgs)
  BY DEF IsSound
<1>2. CarriesDm(payload, msgs) => CarriesDm(payload, more)
  BY DEF CarriesDm
<1>3. CarriesChannel(payload, msgs) => CarriesChannel(payload, more)
  BY DEF CarriesChannel
<1>4. Carries(route, type, payload, more)
  BY <1>1, <1>2, <1>3 DEF Carries
<1> QED
  BY <1>4 DEF IsSound

\* A transmission stays sound when more messages were sent.
LEMMA AirRemains ==
  ASSUME NEW msgs, NEW more, msgs \subseteq more, NEW x, IsAir(x, msgs)
  PROVE  IsAir(x, more)
BY SoundRemains DEF IsAir

\* Adding sound transmissions keeps AirInv.
LEMMA AirGrows ==
  ASSUME AirInv, sent \subseteq sent', \A x \in air' : x \in air \/ IsAir(x, sent')
  PROVE  AirInv'
BY AirRemains DEF AirInv

\* No hops are hops too.
LEMMA EmptyPath == IsPath(<<>>)
BY JourneyFacts DEF IsPath

\* A flood starts without hops.
LEMMA FloodFacts ==
  ASSUME NEW type, NEW payload
  PROVE  Flood(type, payload) = Made(ROUTE_TYPE_FLOOD, type, <<>>, payload)
<1>1. Route(NoRoute) = [type |-> ROUTE_TYPE_FLOOD, lenByte |-> EncodePathLen(0, 1), path |-> <<>>]
  BY DEF Route, NoRoute
<1>2. EncodePathLen(0, 1) = Len(<<>>)
  BY DEF EncodePathLen
<1> QED
  BY <1>1, <1>2 DEF Flood, Addressed, Made

\* Without a stored route a packet is flooded, with one it is sent along it.
LEMMA AddressedFacts ==
  ASSUME NEW c, IsContact(c), NEW type, NEW payload
  PROVE  \E route \in Routes :
           /\ Addressed(Route(c), type, payload) = Made(route, type, c.path, payload)
           /\ route = IF c.path = <<>> THEN ROUTE_TYPE_FLOOD ELSE ROUTE_TYPE_DIRECT
           /\ Route(c).type = route
<1>1. PICK path : path = c.path
  OBVIOUS
<1>2. IsPath(path) /\ c.raw = Len(path)
  <2>1. c = [path |-> c.path, raw |-> Len(c.path)] /\ IsPath(c.path)
    BY DEF IsContact
  <2>2. c.raw = [path |-> c.path, raw |-> Len(c.path)].raw
    BY <2>1
  <2> QED
    BY <1>1, <2>1, <2>2
<1>3. CASE path = <<>>
  <2>1. Route(c) = [type |-> ROUTE_TYPE_FLOOD, lenByte |-> EncodePathLen(0, 1), path |-> <<>>]
    BY <1>1, <1>3 DEF Route
  <2>2. EncodePathLen(0, 1) = Len(path)
    BY <1>3 DEF EncodePathLen
  <2> QED
    BY <1>1, <1>3, <2>1, <2>2 DEF Addressed, Made, Routes
<1>4. CASE path # <<>>
  <2>1. (IF c.raw # 0 THEN c.raw ELSE Len(c.path)) = Len(path)
    BY <1>1, <1>2
  <2>2. Route(c) = [type |-> ROUTE_TYPE_DIRECT, lenByte |-> Len(path), path |-> path]
    BY <1>1, <1>4, <2>1 DEF Route
  <2> QED
    BY <1>1, <1>4, <2>2 DEF Addressed, Made, Routes
<1> QED
  BY <1>3, <1>4

\* A route from earlier on leads there.
LEMMA KnownRoute ==
  ASSUME NEW from, NEW to, NEW c \in RoutesBetween(from, to)
  PROVE  IsContact(c) /\ (c.path # <<>> => IsWay(from, c.path, to))
<1>1. /\ c \in [path : Seq(Repeaters), raw : 0..63]
      /\ Len(c.path) = c.raw /\ c.raw <= MAX_PATH_SIZE
      /\ c.path # <<>> => IsWay(from, c.path, to)
  BY DEF RoutesBetween
<1>2. PICK path \in Seq(Repeaters), n \in 0..63 : c = [path |-> path, raw |-> n]
  BY <1>1
<1>3. c.path = path /\ c.raw = n
  BY <1>2
<1>4. Len(path) = n /\ n <= MAX_PATH_SIZE /\ n < 64
  BY <1>1, <1>3
<1>5. IsPath(path)
  BY <1>4 DEF IsPath
<1>6. c = [path |-> c.path, raw |-> Len(c.path)]
  BY <1>2, <1>3, <1>4
<1> QED
  BY <1>1, <1>3, <1>5, <1>6 DEF IsContact

\* The route the contact has leads to us.
LEMMA TheirFacts ==
  ASSUME NEW c \in TheirRoutes
  PROVE  IsContact(c) /\ (c.path # <<>> => IsWay(Them, c.path, Us))
BY KnownRoute, RoutesAssumption

\* And the one we start with to the contact.
LEMMA OurFacts ==
  ASSUME NEW c \in OurRoutes
  PROVE  IsContact(c) /\ (c.path # <<>> => IsWay(Us, c.path, Them))
BY KnownRoute, RoutesAssumption

\* A repeater adds itself to a flood while there is room.
LEMMA FloodedOn ==
  ASSUME NEW r \in Repeaters, NEW type \in Types, NEW path, IsPath(path), NEW payload, NEW p,
         IsMade(p, ROUTE_TYPE_FLOOD, type, path, payload),
         HashCount(p.lenByte) < 63, IsValidPathLen(p.lenByte + 1)
  PROVE  /\ Forwarded(r, p) = Made(ROUTE_TYPE_FLOOD, type, Append(path, r), payload)
         /\ IsPath(Append(path, r))
<1>1. PICK n \in Nat : n = Len(path) /\ n < 64
  BY PathFacts
<1>2. /\ p = Made(ROUTE_TYPE_FLOOD, type, path, payload) /\ p.lenByte = n /\ p.path = path
      /\ RouteType(p.header) = ROUTE_TYPE_FLOOD
  BY <1>1 DEF IsMade
<1>3. n < 63
  <2>1. n % 64 = n
    BY <1>1
  <2> QED
    BY <1>2, <2>1 DEF HashCount
<1>4. PICK longer : longer = Append(path, r)
  OBVIOUS
<1>5. longer \in Seq(Repeaters) /\ Len(longer) = n + 1
  BY <1>1, <1>4, PathFacts
<1>6. n + 1 <= MAX_PATH_SIZE
  <2>1. (n + 1) % 64 = n + 1 /\ (n + 1) \div 64 = 0
    BY <1>1, <1>3
  <2>2. PathByteLen(n + 1) = n + 1
    BY <1>1, <2>1 DEF PathByteLen, HashCount, HashSize
  <2> QED
    BY <1>2, <2>2 DEF IsValidPathLen
<1>7. IsPath(longer)
  BY <1>3, <1>5, <1>6 DEF IsPath
<1>8. Forwarded(r, p) = [p EXCEPT !.lenByte = @ + 1, !.path = Append(@, r)]
  BY <1>2 DEF Forwarded
<1>9. Forwarded(r, p) = Made(ROUTE_TYPE_FLOOD, type, longer, payload)
  BY <1>1, <1>2, <1>4, <1>5, <1>8 DEF Made, Packet
<1> QED
  BY <1>4, <1>7, <1>9

\* A repeater takes itself off a direct packet.
LEMMA SentOn ==
  ASSUME NEW r, NEW type \in Types, NEW path, IsPath(path), path # <<>>, NEW payload, NEW p,
         IsMade(p, ROUTE_TYPE_DIRECT, type, path, payload)
  PROVE  /\ Forwarded(r, p) = Made(ROUTE_TYPE_DIRECT, type, Tail(path), payload)
         /\ IsPath(Tail(path))
<1>1. PICK n \in Nat : n = Len(path) /\ n < 64 /\ n <= MAX_PATH_SIZE
  BY PathFacts
<1>2. /\ p = Made(ROUTE_TYPE_DIRECT, type, path, payload) /\ p.lenByte = n /\ p.path = path
      /\ RouteType(p.header) = ROUTE_TYPE_DIRECT
  BY <1>1 DEF IsMade
<1>3. PICK rest : rest = Tail(path)
  OBVIOUS
<1>4. rest \in Seq(Repeaters) /\ Len(rest) = n - 1 /\ n > 0
  BY <1>1, <1>3, PathFacts, EmptySeq
<1>5. IsPath(rest)
  BY <1>1, <1>4, JourneyFacts DEF IsPath
<1>6. Forwarded(r, p) = [p EXCEPT !.lenByte = @ - 1, !.path = Tail(@)]
  BY <1>2 DEF Forwarded, ROUTE_TYPE_DIRECT, ROUTE_TYPE_FLOOD
<1>7. Forwarded(r, p) = Made(ROUTE_TYPE_DIRECT, type, rest, payload)
  BY <1>1, <1>2, <1>3, <1>4, <1>6 DEF Made, Packet
<1> QED
  BY <1>3, <1>5, <1>7

-----------------------------------------------------------------------------
(* What is sent, and who waits for it.                                     *)

\* The clock, which counts the messages sent.
LEMMA NowFacts ==
  ASSUME SentInv
  PROVE  /\ Cardinality(sent) \in Nat /\ IsFiniteSet(sent)
         /\ SENDS \in Nat /\ SENDS <= 256 /\ Cardinality(sent) <= SENDS
         /\ Now = 255 + Cardinality(sent) /\ Now \in Nat /\ Now < 512 /\ Now \in ShortStamps
<1>1. IsFiniteSet(sent) /\ Cardinality(sent) <= SENDS
  BY DEF SentInv
<1>2. Cardinality(sent) \in Nat
  BY <1>1, FS_CardinalityType
<1>3. SENDS \in Nat /\ SENDS <= 256
  BY JourneyAssumption
<1>4. PICK n \in Nat : n = Cardinality(sent)
  BY <1>2
<1>5. 255 + n \in Nat /\ 255 + n < 512 /\ 255 + n < 65536
  BY <1>1, <1>3, <1>4
<1> QED
  BY <1>1, <1>2, <1>3, <1>4, <1>5 DEF Now, ShortStamps

\* An attempt is a direct message with the fields it was given.
LEMMA NewDm ==
  ASSUME NEW ts \in ShortStamps, NEW a \in {0, 1}, NEW text \in Texts,
         NEW m, m = Attempt(ts, a, text)
  PROVE  IsDm(m) /\ m.ts = ts /\ m.attempt = a /\ m.text = text
BY DEF IsDm, Attempt

\* Every message has a timestamp.
LEMMA StampOfMessage ==
  ASSUME NEW m, IsDm(m) \/ IsChannel(m)
  PROVE  m.ts \in Nat
<1>1. CASE IsDm(m)
  BY <1>1, DmFacts DEF ShortStamps
<1>2. CASE IsChannel(m)
  BY <1>2 DEF IsChannel, ShortStamps
<1> QED
  BY <1>1, <1>2

\* One more message, with a timestamp and attempt of its own.
LEMMA OneMore ==
  ASSUME SentInv, Cardinality(sent) < SENDS, NEW m, IsDm(m) \/ IsChannel(m),
         255 <= m.ts, m.ts <= Now, m \notin sent,
         \A o \in sent : IsDm(m) /\ IsDm(o) => ~(m.ts = o.ts /\ m.attempt = o.attempt),
         sent' = sent \cup {m}
  PROVE  SentInv'
<1>1. /\ Cardinality(sent) \in Nat /\ IsFiniteSet(sent) /\ SENDS \in Nat
      /\ Now = 255 + Cardinality(sent)
  BY NowFacts
<1>2. IsFiniteSet(sent') /\ Cardinality(sent') = Cardinality(sent) + 1
  BY <1>1, FS_AddElement
<1>3. Now' = Now + 1 /\ Now \in Nat
  BY <1>1, <1>2 DEF Now
<1>4. Cardinality(sent') <= SENDS
  BY <1>1, <1>2
<1>5. ASSUME NEW o \in sent'
      PROVE  (IsDm(o) \/ IsChannel(o)) /\ 255 <= o.ts /\ o.ts < Now'
  <2>1. CASE o \in sent
    <3>1. (IsDm(o) \/ IsChannel(o)) /\ 255 <= o.ts /\ o.ts < Now
      BY <2>1 DEF SentInv
    <3>2. o.ts \in Nat
      BY <3>1, StampOfMessage
    <3> QED
      BY <1>3, <3>1, <3>2
  <2>2. CASE o = m
    <3>1. m.ts \in Nat
      BY StampOfMessage
    <3> QED
      BY <1>3, <2>2, <3>1
  <2> QED
    BY <2>1, <2>2
<1>6. ASSUME NEW o \in sent', NEW q \in sent', IsDm(o), IsDm(q), o.ts = q.ts, o.attempt = q.attempt
      PROVE  o = q
  BY <1>6 DEF SentInv
<1> QED
  BY <1>2, <1>4, <1>5, <1>6 DEF SentInv

\* A step that sends nothing keeps SentInv.
LEMMA SentRemains ==
  ASSUME SentInv, sent' = sent
  PROVE  SentInv'
BY DEF SentInv, Now

\* An answered or dropped record keeps WaitInv.
LEMMA FewerWait ==
  ASSUME WaitInv, sent' = sent, waiting' \subseteq waiting
  PROVE  WaitInv'
BY DEF WaitInv

\* A first attempt.
LEMMA SendDmFacts ==
  ASSUME SentInv, WaitInv, NEW text \in Texts, NEW m, m = Attempt(Now, 0, text),
         Cardinality(sent) < SENDS, sent' = sent \cup {m},
         NEW direct \in BOOLEAN, waiting' = waiting \cup {[m |-> m, direct |-> direct]}
  PROVE  SentInv' /\ WaitInv' /\ IsDm(m)
<1>1. IsDm(m) /\ m.ts = Now /\ m.attempt = 0
  BY NowFacts, NewDm
<1>2. \A o \in sent : o.ts \in Nat /\ o.ts < Now
  BY StampOfMessage DEF SentInv
<1>3. \A o \in sent : o.ts # Now
  BY <1>2, NowFacts
<1>4. SentInv'
  <2>1. 255 <= m.ts /\ m.ts <= Now
    BY <1>1, NowFacts
  <2> QED
    BY <1>1, <1>3, <2>1, OneMore
<1>5. ASSUME NEW rec \in waiting'
      PROVE  /\ rec.m \in sent' /\ IsDm(rec.m) /\ rec.m.attempt = 0 /\ rec.direct \in BOOLEAN
             /\ \A o \in sent' : IsDm(o) /\ o.ts = rec.m.ts => o.attempt = 0
             /\ \A other \in waiting' : other.m.ts = rec.m.ts => other = rec
  <2>1. \A other \in waiting : other.m \in sent /\ other.m.ts # Now
    BY <1>3 DEF WaitInv
  <2>2. CASE rec \in waiting
    <3>1. /\ rec.m \in sent /\ IsDm(rec.m) /\ rec.m.attempt = 0 /\ rec.direct \in BOOLEAN
          /\ \A o \in sent : IsDm(o) /\ o.ts = rec.m.ts => o.attempt = 0
          /\ \A other \in waiting : other.m.ts = rec.m.ts => other = rec
      BY <2>2 DEF WaitInv
    <3> QED
      BY <1>1, <2>1, <2>2, <3>1
  <2>3. CASE rec = [m |-> m, direct |-> direct]
    BY <1>1, <1>3, <2>1, <2>3
  <2> QED
    BY <2>2, <2>3
<1> QED
  BY <1>1, <1>4, <1>5 DEF WaitInv

\* A second attempt: the record goes.
LEMMA ResendDmFacts ==
  ASSUME SentInv, WaitInv, NEW rec \in waiting, NEW m, m = Attempt(rec.m.ts, 1, rec.m.text),
         Cardinality(sent) < SENDS, sent' = sent \cup {m}, waiting' = waiting \ {rec}
  PROVE  SentInv' /\ WaitInv' /\ IsDm(m)
<1>1. /\ rec.m \in sent /\ IsDm(rec.m) /\ rec.m.attempt = 0
      /\ \A o \in sent : IsDm(o) /\ o.ts = rec.m.ts => o.attempt = 0
      /\ \A other \in waiting : other.m.ts = rec.m.ts => other = rec
  BY DEF WaitInv
<1>2. PICK ts \in ShortStamps, text \in Texts : ts = rec.m.ts /\ text = rec.m.text
  BY <1>1, DmFacts
<1>3. IsDm(m) /\ m.ts = rec.m.ts /\ m.attempt = 1
  BY <1>2, NewDm
<1>4. \A o \in sent : IsDm(o) => ~(m.ts = o.ts /\ m.attempt = o.attempt)
  BY <1>1, <1>3
<1>5. m \notin sent
  BY <1>3, <1>4
<1>6. 255 <= m.ts /\ m.ts <= Now
  <2>1. 255 <= m.ts /\ m.ts < Now /\ m.ts \in Nat
    BY <1>1, <1>3, StampOfMessage DEF SentInv
  <2> QED
    BY <2>1, NowFacts
<1>7. SentInv'
  BY <1>3, <1>4, <1>5, <1>6, OneMore
<1>8. ASSUME NEW other \in waiting'
      PROVE  /\ other.m \in sent' /\ IsDm(other.m) /\ other.m.attempt = 0 /\ other.direct \in BOOLEAN
             /\ \A o \in sent' : IsDm(o) /\ o.ts = other.m.ts => o.attempt = 0
             /\ \A third \in waiting' : third.m.ts = other.m.ts => third = other
  <2>1. other \in waiting /\ other # rec
    OBVIOUS
  <2>2. other.m.ts # rec.m.ts
    BY <1>1, <2>1
  <2>3. /\ other.m \in sent /\ IsDm(other.m) /\ other.m.attempt = 0 /\ other.direct \in BOOLEAN
        /\ \A o \in sent : IsDm(o) /\ o.ts = other.m.ts => o.attempt = 0
        /\ \A third \in waiting : third.m.ts = other.m.ts => third = other
    BY <2>1 DEF WaitInv
  <2> QED
    BY <1>3, <2>2, <2>3
<1> QED
  BY <1>3, <1>7, <1>8 DEF WaitInv

\* A channel message: nothing waits for it.
LEMMA SendGroupTextFacts ==
  ASSUME SentInv, WaitInv, NEW text \in Texts,
         NEW m, m = [sender |-> Nickname, ts |-> Now, text |-> text],
         Cardinality(sent) < SENDS, sent' = sent \cup {m}, waiting' = waiting
  PROVE  SentInv' /\ WaitInv' /\ IsChannel(m)
<1>1. IsChannel(m) /\ m.ts = Now
  BY NowFacts DEF IsChannel
<1>2. \A o \in sent : o.ts \in Nat /\ o.ts < Now
  BY StampOfMessage DEF SentInv
<1>3. \A o \in sent : o.ts # Now
  BY <1>2, NowFacts
<1>4. SentInv'
  <2>1. 255 <= m.ts /\ m.ts <= Now
    BY <1>1, NowFacts
  <2> QED
    BY <1>1, <1>3, <2>1, OneMore
<1>5. WaitInv'
  <2>1. \A other \in waiting : other.m \in sent /\ other.m.ts # Now
    BY <1>3 DEF WaitInv
  <2> QED
    BY <1>1, <2>1 DEF WaitInv
<1> QED
  BY <1>1, <1>4, <1>5

\* The acknowledgement tells the attempts that were made apart.
LEMMA AckIsOne ==
  ASSUME SentInv, NEW m \in sent, NEW o \in sent, IsDm(m), IsDm(o), m.ack = o.ack
  PROVE  m = o
<1>1. m.attempt = o.attempt /\ m.ts % 256 = o.ts % 256
  BY AckTells
<1>2. m.ts \in Nat /\ o.ts \in Nat
  BY StampOfMessage
<1>3. 255 <= m.ts /\ m.ts < Now /\ 255 <= o.ts /\ o.ts < Now
  BY DEF SentInv
<1>4. Now \in Nat /\ Now < 512
  BY NowFacts
<1>5. m.ts < 511 /\ o.ts < 511
  <2>1. Now <= 511
    BY NowFacts
  <2> QED
    BY <1>2, <1>3, <1>4, <2>1
<1>6. PICK i \in Nat, j \in Nat : i = m.ts /\ j = o.ts
  BY <1>2
<1>7. i = j
  BY <1>1, <1>3, <1>5, <1>6
<1> QED
  BY <1>1, <1>6, <1>7 DEF SentInv

-----------------------------------------------------------------------------
(* The steps of the inductive invariant.                                   *)

\* Hashes are added to those a node has heard, never taken away.
LEMMA HeardMore ==
  ASSUME DOMAIN heard = {Us, Them}, NEW n \in {Us, Them}, NEW S,
         heard' = [heard EXCEPT ![n] = @ \cup S]
  PROVE  DOMAIN heard' = {Us, Them} /\ heard[Them] \subseteq heard'[Them] /\ S \subseteq heard'[n]
OBVIOUS

\* Answers stand while messages and hashes are only added.
LEMMA AnswersStand ==
  ASSUME AnswerInv, AnsweredOnce, sent \subseteq sent', heard[Them] \subseteq heard'[Them],
         answers' = answers
  PROVE  AnswerInv' /\ AnsweredOnce'
<1>1. ASSUME NEW i \in 1..Len(answers')
      PROVE  \E m \in sent' : IsAnswerTo(answers'[i], m, heard'[Them])
  <2>1. PICK m \in sent : IsAnswerTo(answers[i], m, heard[Them])
    BY DEF AnswerInv
  <2> QED
    BY <2>1 DEF IsAnswerTo
<1>2. AnswerInv'
  BY <1>1 DEF AnswerInv
<1> QED
  BY <1>2 DEF AnsweredOnce

\* _tx_dm puts one sound packet on the air, by the route it finds.
LEMMA TxDmFacts ==
  ASSUME AirInv, DOMAIN heard = {Us, Them}, IsContact(contact'), NEW m, IsDm(m), TxDm(m)
  PROVE  /\ AirInv' /\ sent' = sent \cup {m}
         /\ DOMAIN heard' = {Us, Them} /\ heard[Them] \subseteq heard'[Them]
<1>1. PICK payload : payload = DmPayload(m)
  OBVIOUS
<1>2. PICK q : q = Addressed(Route(contact'), PAYLOAD_TYPE_TXT_MSG, payload)
  OBVIOUS
<1>3. /\ air' = air \cup {[by |-> Us, wire |-> ToBytes(q)]}
      /\ heard' = [heard EXCEPT ![Us] = @ \cup {PacketHash(q)}]
      /\ sent' = sent \cup {m}
  BY <1>1, <1>2 DEF TxDm, Emit, DmPayload
<1>4. PICK c : c = contact'
  OBVIOUS
<1>5. PICK route \in Routes : q = Made(route, PAYLOAD_TYPE_TXT_MSG, c.path, payload)
  BY <1>2, <1>4, AddressedFacts
<1>6. IsSound(route, PAYLOAD_TYPE_TXT_MSG, c.path, payload, sent')
  <2>1. IsPath(c.path)
    BY <1>4 DEF IsContact
  <2>2. IsPayload(payload)
    BY <1>1, DmFacts
  <2>3. CarriesDm(payload, sent')
    BY <1>1, <1>3 DEF CarriesDm
  <2> QED
    BY <2>1, <2>2, <2>3 DEF IsSound, Carries, Types
<1>7. PICK y : y = [by |-> Us, wire |-> ToBytes(q)]
  OBVIOUS
<1>8. IsAir(y, sent')
  <2>1. Us \in Nodes
    BY DEF Nodes
  <2>2. y = [by |-> Us, wire |-> ToBytes(Made(route, PAYLOAD_TYPE_TXT_MSG, c.path, payload))]
    BY <1>5, <1>7
  <2> QED
    BY <1>6, <2>1, <2>2, SoundWire
<1>9. AirInv'
  <2>1. \A x \in air' : x \in air \/ IsAir(x, sent')
    BY <1>3, <1>7, <1>8
  <2>2. sent \subseteq sent'
    BY <1>3
  <2> QED
    BY <2>1, <2>2, AirGrows
<1>10. DOMAIN heard' = {Us, Them} /\ heard[Them] \subseteq heard'[Them]
  BY <1>3, HeardMore
<1> QED
  BY <1>3, <1>9, <1>10

\* send_dm keeps the invariant.
LEMMA SendDmStep ==
  ASSUME IInv, NEW text \in Texts, SendDm(text)
  PROVE  IInv'
<1> USE DEF IInv
<1>1. PICK m : m = Attempt(Now, 0, text)
  OBVIOUS
<1>2. /\ Cardinality(sent) < SENDS /\ rxQueue = <<>>
      /\ UNCHANGED contact /\ TxDm(m)
      /\ waiting' = waiting \cup {[m |-> m, direct |-> Route(contact).type = ROUTE_TYPE_DIRECT]}
      /\ UNCHANGED <<theirVars, relayed, rxQueue>>
  BY <1>1 DEF SendDm
<1>3. UNCHANGED <<theirs, understood, answers, overheard, relayed, rxQueue>>
  BY <1>2 DEF theirVars
<1>4. PICK direct \in BOOLEAN : direct = (Route(contact).type = ROUTE_TYPE_DIRECT)
  OBVIOUS
<1>5. sent' = sent \cup {m}
  BY <1>2 DEF TxDm
<1>6. SentInv' /\ WaitInv' /\ IsDm(m)
  BY <1>1, <1>2, <1>4, <1>5, SendDmFacts
<1>7. RouteInv'
  BY <1>2, <1>3 DEF RouteInv
<1>8. AirInv' /\ DOMAIN heard' = {Us, Them} /\ heard[Them] \subseteq heard'[Them]
  <2>1. IsContact(contact') /\ DOMAIN heard = {Us, Them}
    BY <1>7 DEF RouteInv, RestInv
  <2> QED
    BY <1>2, <1>6, <2>1, TxDmFacts
<1>9. RestInv'
  BY <1>3, <1>8 DEF RestInv
<1>10. AnswerInv' /\ AnsweredOnce'
  BY <1>3, <1>5, <1>8, AnswersStand
<1> QED
  BY <1>6, <1>7, <1>8, <1>9, <1>10

\* The resend after a timeout, by flood, keeps the invariant.
LEMMA ResendDmStep ==
  ASSUME IInv, NEW rec \in waiting, ResendDm(rec)
  PROVE  IInv'
<1> USE DEF IInv
<1>1. PICK m : m = Attempt(rec.m.ts, 1, rec.m.text)
  OBVIOUS
<1>2. /\ Cardinality(sent) < SENDS
      /\ contact' = IF rec.direct THEN NoRoute ELSE contact
      /\ TxDm(m) /\ waiting' = waiting \ {rec}
      /\ UNCHANGED <<theirVars, relayed, rxQueue>>
  BY <1>1 DEF ResendDm
<1>3. UNCHANGED <<theirs, understood, answers, overheard, relayed, rxQueue>>
  BY <1>2 DEF theirVars
<1>5. sent' = sent \cup {m}
  BY <1>2 DEF TxDm
<1>6. SentInv' /\ WaitInv' /\ IsDm(m)
  BY <1>1, <1>2, <1>5, ResendDmFacts
<1>7. RouteInv'
  <2>1. IsContact(NoRoute)
    BY EmptyPath DEF IsContact, NoRoute
  <2> QED
    BY <1>2, <1>3, <2>1 DEF RouteInv
<1>8. AirInv' /\ DOMAIN heard' = {Us, Them} /\ heard[Them] \subseteq heard'[Them]
  <2>1. IsContact(contact') /\ DOMAIN heard = {Us, Them}
    BY <1>7 DEF RouteInv, RestInv
  <2> QED
    BY <1>2, <1>6, <2>1, TxDmFacts
<1>9. RestInv'
  BY <1>3, <1>8 DEF RestInv
<1>10. AnswerInv' /\ AnsweredOnce'
  BY <1>3, <1>5, <1>8, AnswersStand
<1> QED
  BY <1>6, <1>7, <1>8, <1>9, <1>10

\* send_group_text keeps the invariant.
LEMMA SendGroupTextStep ==
  ASSUME IInv, NEW text \in Texts, SendGroupText(text)
  PROVE  IInv'
<1> USE DEF IInv
<1>1. PICK m : m = [sender |-> Nickname, ts |-> Now, text |-> text]
  OBVIOUS
<1>2. PICK payload : payload = ChannelPayload(m)
  OBVIOUS
<1>3. PICK q : q = Flood(PAYLOAD_TYPE_GRP_TXT, payload)
  OBVIOUS
<1>4. m.text = text /\ m.ts = Now
  BY <1>1
<1>5. /\ Cardinality(sent) < SENDS
      /\ air' = air \cup {[by |-> Us, wire |-> ToBytes(q)]}
      /\ heard' = [heard EXCEPT ![Us] = @ \cup {PacketHash(q)}]
      /\ sent' = sent \cup {m}
      /\ UNCHANGED <<contact, waiting, theirVars, relayed, rxQueue>>
  BY <1>1, <1>2, <1>3, <1>4 DEF SendGroupText, Emit, ChannelPayload
<1>6. UNCHANGED <<contact, waiting, theirs, understood, answers, overheard, relayed, rxQueue>>
  BY <1>5 DEF theirVars
<1>7. SentInv' /\ WaitInv' /\ IsChannel(m)
  BY <1>1, <1>5, <1>6, SendGroupTextFacts
<1>8. RouteInv'
  BY <1>6 DEF RouteInv
<1>9. AirInv'
  <2>1. q = Made(ROUTE_TYPE_FLOOD, PAYLOAD_TYPE_GRP_TXT, <<>>, payload)
    BY <1>3, FloodFacts
  <2>2. IsSound(ROUTE_TYPE_FLOOD, PAYLOAD_TYPE_GRP_TXT, <<>>, payload, sent')
    <3>1. IsPayload(payload)
      BY <1>2, <1>7, ChannelFacts
    <3>2. CarriesChannel(payload, sent')
      BY <1>2, <1>5, <1>7 DEF CarriesChannel
    <3> QED
      BY <3>1, <3>2, EmptyPath DEF IsSound, Carries, Routes, Types
  <2>3. PICK y : y = [by |-> Us, wire |-> ToBytes(q)]
    OBVIOUS
  <2>4. IsAir(y, sent')
    <3>1. Us \in Nodes
      BY DEF Nodes
    <3>2. y = [by |-> Us, wire |-> ToBytes(Made(ROUTE_TYPE_FLOOD, PAYLOAD_TYPE_GRP_TXT, <<>>, payload))]
      BY <2>1, <2>3
    <3> QED
      BY <2>2, <3>1, <3>2, SoundWire
  <2>5. (\A x \in air' : x \in air \/ IsAir(x, sent')) /\ sent \subseteq sent'
    BY <1>5, <2>3, <2>4
  <2> QED
    BY <2>5, AirGrows
<1>10. DOMAIN heard' = {Us, Them} /\ heard[Them] \subseteq heard'[Them]
  <2>1. DOMAIN heard = {Us, Them}
    BY DEF RestInv
  <2> QED
    BY <1>5, <2>1, HeardMore
<1>11. RestInv'
  BY <1>6, <1>10 DEF RestInv
<1>12. AnswerInv' /\ AnsweredOnce'
  BY <1>5, <1>6, <1>10, AnswersStand
<1> QED
  BY <1>7, <1>8, <1>9, <1>11, <1>12

\* A repeater that forwards keeps the invariant.
LEMMA RelayStep ==
  ASSUME IInv, NEW r \in Repeaters, NEW x \in air, Relay(r, x)
  PROVE  IInv'
<1> USE DEF IInv
<1>1. PICK p : p = Parse(x.wire)
  OBVIOUS
<1>2. /\ IF RouteType(p.header) = ROUTE_TYPE_FLOOD
         THEN HashCount(p.lenByte) < 63 /\ IsValidPathLen(p.lenByte + 1)
         ELSE p.path # <<>> /\ Head(p.path) = r
      /\ relayed' = relayed \cup {<<r, PacketHash(p)>>}
      /\ air' = air \cup {[by |-> r, wire |-> ToBytes(Forwarded(r, p))]}
      /\ UNCHANGED <<ourVars, theirVars, heard, rxQueue>>
  BY <1>1 DEF Relay
<1>3. UNCHANGED <<contact, sent, waiting, theirs, understood, answers, overheard, heard, rxQueue>>
  BY <1>2 DEF ourVars, theirVars
<1>4. PICK route, type, path, payload :
        /\ IsSound(route, type, path, payload, sent)
        /\ IsMade(p, route, type, path, payload)
  BY <1>1, SoundFacts DEF AirInv
<1>5. /\ route \in Routes /\ type \in Types /\ IsPath(path) /\ IsPayload(payload)
      /\ Carries(route, type, payload, sent)
  BY <1>4 DEF IsSound
<1>6. RouteType(p.header) = route /\ p.path = path
  BY <1>4 DEF IsMade
<1>7. PICK y : y = [by |-> r, wire |-> ToBytes(Forwarded(r, p))]
  OBVIOUS
<1>8. IsAir(y, sent')
  <2>1. PICK next : IsPath(next) /\ Forwarded(r, p) = Made(route, type, next, payload)
    <3>1. CASE route = ROUTE_TYPE_FLOOD
      BY <1>2, <1>4, <1>5, <1>6, <3>1, FloodedOn, SMTT(30)
    <3>2. CASE route = ROUTE_TYPE_DIRECT
      <4>1. route # ROUTE_TYPE_FLOOD
        BY <3>2 DEF ROUTE_TYPE_FLOOD, ROUTE_TYPE_DIRECT
      <4> QED
        BY <1>2, <1>4, <1>5, <1>6, <3>2, <4>1, SentOn
    <3> QED
      BY <1>5, <3>1, <3>2 DEF Routes
  <2>2. IsSound(route, type, next, payload, sent')
    BY <1>3, <1>5, <2>1 DEF IsSound
  <2>3. r \in Nodes
    BY DEF Nodes
  <2>4. y = [by |-> r, wire |-> ToBytes(Made(route, type, next, payload))]
    BY <1>7, <2>1
  <2> QED
    BY <2>2, <2>3, <2>4, SoundWire
<1>9. AirInv'
  <2>1. (\A z \in air' : z \in air \/ IsAir(z, sent')) /\ sent \subseteq sent'
    BY <1>2, <1>3, <1>7, <1>8
  <2> QED
    BY <2>1, AirGrows
<1>10. RestInv'
  BY <1>2, <1>3 DEF RestInv
<1>11. SentInv' /\ WaitInv' /\ RouteInv'
  BY <1>3, SentRemains, FewerWait DEF RouteInv
<1>12. AnswerInv' /\ AnsweredOnce'
  BY <1>3, AnswersStand
<1> QED
  BY <1>9, <1>10, <1>11, <1>12

\* A direct message that is heard is one that was sent.
LEMMA HeardDm ==
  ASSUME AirInv, NEW x \in air, NEW p, p = Parse(x.wire), PayloadType(p.header) = PAYLOAD_TYPE_TXT_MSG
  PROVE  \E m \in sent, route \in Routes :
           /\ IsDm(m) /\ DecodeDm(p.payload, PairKey, Them) = m /\ PacketHash(p) = DmHash(m)
           /\ IsMade(p, route, PAYLOAD_TYPE_TXT_MSG, p.path, DmPayload(m)) /\ IsPath(p.path)
<1>1. PICK route, type, path, payload :
        /\ IsSound(route, type, path, payload, sent)
        /\ IsMade(p, route, type, path, payload)
  BY SoundFacts DEF AirInv
<1>2. /\ type = PAYLOAD_TYPE_TXT_MSG /\ p.path = path /\ p.payload = payload
      /\ PacketHash(p) = <<type, <<>>, payload>>
  BY <1>1 DEF IsMade
<1>3. route \in Routes /\ IsPath(path) /\ CarriesDm(payload, sent)
  BY <1>1, <1>2 DEF IsSound, Carries, PAYLOAD_TYPE_TXT_MSG, PAYLOAD_TYPE_GRP_TXT,
     PAYLOAD_TYPE_PATH, PAYLOAD_TYPE_ACK
<1>4. PICK m \in sent : IsDm(m) /\ payload = DmPayload(m)
  BY <1>3 DEF CarriesDm
<1>5. DecodeDm(payload, PairKey, Them) = m
  BY <1>4, DmFacts
<1>6. PacketHash(p) = DmHash(m)
  BY <1>2, <1>4 DEF DmHash
<1> QED
  BY <1>1, <1>2, <1>3, <1>4, <1>5, <1>6

\* _handle_dm, with its acknowledgement or PATH return, keeps the invariant.
LEMMA HandleDmStep ==
  ASSUME IInv, NEW x \in air, HandleDm(x)
  PROVE  IInv'
<1> USE DEF IInv
<1>1. PICK p : p = Parse(x.wire)
  OBVIOUS
<1>2. PICK got : got = DecodeDm(p.payload, PairKey, Them)
  OBVIOUS
<1>3. PICK out : out = Answer(p, got.ack)
  OBVIOUS
<1>4. /\ IsNew(Them, x, p)
      /\ PayloadType(p.header) = PAYLOAD_TYPE_TXT_MSG
      /\ answers' = Append(answers, got.ack)
      /\ air' = air \cup {[by |-> Them, wire |-> ToBytes(out)]}
      /\ heard' = [heard EXCEPT ![Them] = @ \cup {PacketHash(p), PacketHash(out)}]
      /\ UNCHANGED <<ourVars, theirs, relayed, rxQueue>>
  BY <1>1, <1>2, <1>3 DEF HandleDm
<1>5. UNCHANGED <<contact, sent, waiting, theirs, relayed, rxQueue>>
  BY <1>4 DEF ourVars
<1>6. PICK m \in sent, route \in Routes :
        /\ IsDm(m) /\ got = m /\ PacketHash(p) = DmHash(m)
        /\ IsMade(p, route, PAYLOAD_TYPE_TXT_MSG, p.path, DmPayload(m)) /\ IsPath(p.path)
  BY <1>1, <1>2, <1>4, HeardDm
<1>7. PICK ack : ack = got.ack
  OBVIOUS
<1>8. IsAck(ack)
  BY <1>6, <1>7, DmFacts DEF IsAck
<1>9. PICK y : y = [by |-> Them, wire |-> ToBytes(out)]
  OBVIOUS
<1>10. IsAir(y, sent')
  <2>0. Them \in Nodes
    BY DEF Nodes
  <2>1. CASE RouteType(p.header) = ROUTE_TYPE_FLOOD \/ theirs.path = <<>>
    <3>1. PICK payload : payload = ReturnPayload(p.path, ack)
      OBVIOUS
    <3>2. p.lenByte = Len(p.path)
      BY <1>6 DEF IsMade
    <3>3. out = Flood(PAYLOAD_TYPE_PATH, payload)
      BY <1>3, <1>7, <2>1, <3>1, <3>2 DEF Answer, ReturnPayload
    <3>4. out = Made(ROUTE_TYPE_FLOOD, PAYLOAD_TYPE_PATH, <<>>, payload)
      BY <3>3, FloodFacts
    <3>5. IsPayload(payload) /\ CarriesReturn(payload)
      BY <1>6, <1>8, <3>1, ReturnFacts DEF CarriesReturn
    <3>6. IsSound(ROUTE_TYPE_FLOOD, PAYLOAD_TYPE_PATH, <<>>, payload, sent')
      BY <3>5, EmptyPath DEF IsSound, Carries, Routes, Types
    <3>7. y = [by |-> Them, wire |-> ToBytes(Made(ROUTE_TYPE_FLOOD, PAYLOAD_TYPE_PATH, <<>>, payload))]
      BY <1>9, <3>4
    <3> QED
      BY <2>0, <3>6, <3>7, SoundWire
  <2>2. CASE ~(RouteType(p.header) = ROUTE_TYPE_FLOOD \/ theirs.path = <<>>)
    <3>1. PICK payload : payload = AckPayload(ack)
      OBVIOUS
    <3>2. out = Addressed(Route(theirs), PAYLOAD_TYPE_ACK, payload)
      BY <1>3, <1>7, <2>2, <3>1 DEF Answer, AckPayload
    <3>3. IsContact(theirs) /\ IsPath(theirs.path)
      BY TheirFacts DEF RouteInv, IsContact
    <3>4. out = Made(ROUTE_TYPE_DIRECT, PAYLOAD_TYPE_ACK, theirs.path, payload)
      BY <2>2, <3>2, <3>3, AddressedFacts
    <3>5. IsPayload(payload) /\ CarriesAck(payload)
      BY <1>8, <3>1, AckFacts DEF CarriesAck
    <3>6. IsSound(ROUTE_TYPE_DIRECT, PAYLOAD_TYPE_ACK, theirs.path, payload, sent')
      BY <3>3, <3>5 DEF IsSound, Carries, Routes, Types
    <3>7. y = [by |-> Them, wire |-> ToBytes(Made(ROUTE_TYPE_DIRECT, PAYLOAD_TYPE_ACK, theirs.path, payload))]
      BY <1>9, <3>4
    <3> QED
      BY <2>0, <3>6, <3>7, SoundWire
  <2> QED
    BY <2>1, <2>2
<1>11. AirInv'
  <2>1. (\A z \in air' : z \in air \/ IsAir(z, sent')) /\ sent \subseteq sent'
    BY <1>4, <1>5, <1>9, <1>10
  <2> QED
    BY <2>1, AirGrows
<1>12. DOMAIN heard' = {Us, Them} /\ heard[Them] \subseteq heard'[Them] /\ PacketHash(p) \in heard'[Them]
  <2>1. DOMAIN heard = {Us, Them}
    BY DEF RestInv
  <2> QED
    BY <1>4, <2>1, HeardMore
<1>13. answers \in Seq(Seq(Bytes)) /\ ack \in Seq(Bytes)
  BY <1>8 DEF RestInv, IsAck
<1>14. PICK n \in Nat : n = Len(answers)
  BY <1>13
<1>15. /\ answers' \in Seq(Seq(Bytes)) /\ Len(answers') = n + 1
       /\ \A i \in 1..n : answers'[i] = answers[i]
       /\ answers'[n + 1] = ack
  BY <1>4, <1>7, <1>13, <1>14
<1>16. RestInv'
  <2>1. overheard' \subseteq Seq(Repeaters)
    BY <1>1, <1>6 DEF HandleDm, RestInv, IsPath
  <2> QED
    BY <1>5, <1>12, <1>15, <2>1 DEF RestInv
<1>17. ASSUME NEW i \in 1..n
       PROVE  \E o \in sent : IsAnswerTo(answers[i], o, heard[Them])
  BY <1>14 DEF AnswerInv
<1>18. AnswerInv'
  <2>1. ASSUME NEW i \in 1..(n + 1)
        PROVE  \E o \in sent : IsAnswerTo(answers'[i], o, heard'[Them])
    <3>1. CASE i \in 1..n
      <4>1. PICK o \in sent : IsAnswerTo(answers[i], o, heard[Them])
        BY <1>17, <3>1
      <4> QED
        BY <1>12, <1>15, <3>1, <4>1 DEF IsAnswerTo
    <3>2. CASE i = n + 1
      BY <1>6, <1>7, <1>12, <1>15, <3>2 DEF IsAnswerTo
    <3> QED
      BY <3>1, <3>2
  <2> QED
    BY <1>5, <1>15, <2>1 DEF AnswerInv
<1>19. ASSUME NEW i \in 1..n
       PROVE  answers[i] # ack
  <2>1. PICK o \in sent : IsDm(o) /\ answers[i] = o.ack /\ DmHash(o) \in heard[Them]
    BY <1>17 DEF IsAnswerTo
  <2>2. DmHash(m) \notin heard[Them]
    BY <1>4, <1>6 DEF IsNew
  <2>3. ASSUME o.ack = ack
        PROVE  FALSE
    <3>1. o = m
      BY <1>6, <1>7, <2>1, <2>3, AckIsOne
    <3> QED
      BY <2>1, <2>2, <3>1
  <2> QED
    BY <2>1, <2>3
<1>20. AnsweredOnce'
  <2>1. ASSUME NEW i \in 1..(n + 1), NEW j \in 1..(n + 1), i # j
        PROVE  answers'[i] # answers'[j]
    <3>1. CASE i \in 1..n /\ j \in 1..n
      <4>1. answers[i] # answers[j]
        BY <1>14, <2>1, <3>1 DEF AnsweredOnce
      <4> QED
        BY <1>15, <3>1, <4>1
    <3>2. CASE i \in 1..n /\ j = n + 1
      BY <1>15, <1>19, <3>2
    <3>3. CASE i = n + 1 /\ j \in 1..n
      BY <1>15, <1>19, <3>3
    <3> QED
      BY <2>1, <3>1, <3>2, <3>3
  <2> QED
    BY <1>15, <2>1 DEF AnsweredOnce
<1>21. SentInv' /\ WaitInv' /\ RouteInv'
  BY <1>5, SentRemains, FewerWait DEF RouteInv
<1> QED
  BY <1>11, <1>16, <1>18, <1>20, <1>21

\* All that a step may leave alone.
LEMMA QuietStep ==
  ASSUME IInv, RouteInv', UNCHANGED <<sent, air, answers, overheard>>, waiting' \subseteq waiting,
         DOMAIN heard' = {Us, Them}, heard[Them] \subseteq heard'[Them],
         relayed' = relayed, rxQueue' = <<>> \/ rxQueue' \in Foreign
  PROVE  IInv'
<1> USE DEF IInv
<1>1. SentInv' /\ WaitInv'
  BY SentRemains, FewerWait
<1>2. AirInv'
  BY AirGrows
<1>3. RestInv'
  BY DEF RestInv
<1>4. AnswerInv' /\ AnsweredOnce'
  BY AnswersStand
<1> QED
  BY <1>1, <1>2, <1>3, <1>4

\* _handle_group_text keeps the invariant.
LEMMA HandleGroupTextStep ==
  ASSUME IInv, NEW x \in air, HandleGroupText(x)
  PROVE  IInv'
<1>1. PICK h : heard' = [heard EXCEPT ![Them] = @ \cup {h}]
  BY DEF HandleGroupText
<1>2. UNCHANGED <<contact, sent, waiting, theirs, answers, overheard, air, relayed, rxQueue>>
  BY DEF HandleGroupText, ourVars
<1>3. DOMAIN heard' = {Us, Them} /\ heard[Them] \subseteq heard'[Them]
  BY <1>1, HeardMore DEF IInv, RestInv
<1>4. RouteInv' /\ (rxQueue' = <<>> \/ rxQueue' \in Foreign)
  BY <1>2 DEF IInv, RouteInv, RestInv
<1> QED
  BY <1>2, <1>3, <1>4, QuietStep

\* A PATH return that is heard is one the contact made.
LEMMA HeardReturn ==
  ASSUME AirInv, NEW x \in air, NEW p, p = Parse(x.wire), PayloadType(p.header) = PAYLOAD_TYPE_PATH
  PROVE  \E back, ack :
           /\ IsPath(back) /\ IsAck(ack) /\ p.payload = ReturnPayload(back, ack)
           /\ DecodePath(p.payload, PairKey, Us) = [path |-> back, lenByte |-> Len(back), ack |-> ack]
<1>1. PICK route, type, path, payload :
        /\ IsSound(route, type, path, payload, sent)
        /\ IsMade(p, route, type, path, payload)
  BY SoundFacts DEF AirInv
<1>2. type = PAYLOAD_TYPE_PATH /\ p.payload = payload
  BY <1>1 DEF IsMade
<1>3. CarriesReturn(payload)
  BY <1>1, <1>2 DEF IsSound, Carries, PAYLOAD_TYPE_TXT_MSG, PAYLOAD_TYPE_GRP_TXT,
     PAYLOAD_TYPE_PATH, PAYLOAD_TYPE_ACK
<1>4. PICK back, ack : IsPath(back) /\ IsAck(ack) /\ payload = ReturnPayload(back, ack)
  BY <1>3 DEF CarriesReturn
<1> QED
  BY <1>2, <1>4, ReturnFacts

\* _handle_path, which learns the hops, keeps the invariant.
LEMMA HandlePathStep ==
  ASSUME IInv, NEW x \in air, HandlePath(x)
  PROVE  IInv'
<1>1. PICK p : p = Parse(x.wire)
  OBVIOUS
<1>2. PICK dec : dec = DecodePath(p.payload, PairKey, Us)
  OBVIOUS
<1>3. /\ PayloadType(p.header) = PAYLOAD_TYPE_PATH
      /\ contact' = LearnPath(contact, dec)
      /\ Delivered(dec.ack)
      /\ heard' = [heard EXCEPT ![Us] = @ \cup {PacketHash(p)}]
      /\ UNCHANGED <<sent, theirVars, air, relayed, rxQueue>>
  BY <1>1, <1>2 DEF HandlePath
<1>4. UNCHANGED <<sent, theirs, answers, overheard, air, relayed, rxQueue>>
  BY <1>3 DEF theirVars
<1>5. waiting' \subseteq waiting
  BY <1>3 DEF Delivered
<1>6. DOMAIN heard' = {Us, Them} /\ heard[Them] \subseteq heard'[Them]
  BY <1>3, HeardMore DEF IInv, RestInv
<1>7. PICK back, ack : IsPath(back) /\ dec = [path |-> back, lenByte |-> Len(back), ack |-> ack]
  BY <1>1, <1>2, <1>3, HeardReturn DEF IInv
<1>8. RouteInv'
  <2>1. IsContact([path |-> back, raw |-> Len(back)])
    BY <1>7 DEF IsContact
  <2>2. IsContact(contact')
    BY <1>3, <1>7, <2>1 DEF LearnPath, IInv, RouteInv
  <2> QED
    BY <1>4, <2>2 DEF IInv, RouteInv
<1>9. rxQueue' = <<>> \/ rxQueue' \in Foreign
  BY <1>4 DEF IInv, RestInv
<1> QED
  BY <1>4, <1>5, <1>6, <1>8, <1>9, QuietStep

\* _handle_ack keeps the invariant.
LEMMA HandleAckStep ==
  ASSUME IInv, NEW x \in air, HandleAck(x)
  PROVE  IInv'
<1>1. PICK h, ack : heard' = [heard EXCEPT ![Us] = @ \cup {h}] /\ Delivered(ack)
  BY DEF HandleAck
<1>2. UNCHANGED <<contact, sent, theirs, answers, overheard, air, relayed, rxQueue>>
  BY DEF HandleAck, theirVars
<1>3. DOMAIN heard' = {Us, Them} /\ heard[Them] \subseteq heard'[Them]
  BY <1>1, HeardMore DEF IInv, RestInv
<1>4. RouteInv' /\ (rxQueue' = <<>> \/ rxQueue' \in Foreign)
  BY <1>2 DEF IInv, RouteInv, RestInv
<1>5. waiting' \subseteq waiting
  BY <1>1 DEF Delivered
<1> QED
  BY <1>2, <1>3, <1>4, <1>5, QuietStep

\* Packets of other senders keep the invariant.
LEMMA ForeignStep ==
  ASSUME IInv, HearForeign \/ IgnoreForeign
  PROVE  IInv'
<1>1. UNCHANGED <<contact, sent, waiting, theirs, answers, overheard, air, relayed, heard>>
  BY DEF HearForeign, IgnoreForeign, ourVars, theirVars
<1>2. rxQueue' = <<>> \/ rxQueue' \in Foreign
  BY DEF HearForeign, IgnoreForeign
<1>3. RouteInv' /\ DOMAIN heard' = {Us, Them}
  BY <1>1 DEF IInv, RouteInv, RestInv
<1> QED
  BY <1>1, <1>2, <1>3, QuietStep

\* A route that agrees with its length byte is loaded as it was saved.
LEMMA SavedFacts ==
  ASSUME NEW c, IsContact(c)
  PROVE  Saved(c) = c
<1>1. PICK path, n : path = c.path /\ n = Len(path)
  OBVIOUS
<1>2. c = [path |-> path, raw |-> n]
  BY <1>1 DEF IsContact
<1>3. CASE path = <<>>
  BY <1>1, <1>2, <1>3 DEF Saved, NoRoute
<1>4. CASE path # <<>>
  BY <1>1, <1>2, <1>4 DEF Saved
<1> QED
  BY <1>3, <1>4

\* A restart keeps the invariant.
LEMMA RestartStep ==
  ASSUME IInv, Restart
  PROVE  IInv'
<1>1. /\ contact' = Saved(contact) /\ waiting' = {} /\ heard' = [heard EXCEPT ![Us] = {}]
      /\ UNCHANGED <<sent, theirs, answers, overheard, air, relayed, rxQueue>>
  BY DEF Restart, theirVars
<1>2. DOMAIN heard' = {Us, Them} /\ heard'[Them] = heard[Them]
  BY <1>1, JourneyAssumption DEF IInv, RestInv
<1>3. RouteInv' /\ (rxQueue' = <<>> \/ rxQueue' \in Foreign)
  BY <1>1, SavedFacts DEF IInv, RouteInv, RestInv
<1> QED
  BY <1>1, <1>2, <1>3, QuietStep

\* The invariant holds at the start.
LEMMA Beginning == Init => IInv
<1> SUFFICES ASSUME Init PROVE IInv
  OBVIOUS
<1> USE DEF Init
<1>1. SentInv
  BY FS_EmptySet, JourneyAssumption DEF SentInv
<1>2. RouteInv
  BY OurFacts DEF RouteInv
<1>3. RestInv
  BY DEF RestInv
<1> QED
  BY <1>1, <1>2, <1>3 DEF IInv, WaitInv, AirInv, AnswerInv, AnsweredOnce

\* Every step keeps it.
LEMMA Step == IInv /\ [Next]_vars => IInv'
<1> SUFFICES ASSUME IInv, [Next]_vars PROVE IInv'
  OBVIOUS
<1>1. CASE \E text \in Texts : SendDm(text) \/ SendGroupText(text)
  BY <1>1, SendDmStep, SendGroupTextStep
<1>2. CASE \E rec \in waiting : ResendDm(rec)
  BY <1>2, ResendDmStep
<1>3. CASE \E r \in Repeaters, x \in air : Relay(r, x)
  BY <1>3, RelayStep
<1>4. CASE \E x \in air : HandleDm(x) \/ HandleGroupText(x) \/ HandlePath(x) \/ HandleAck(x)
  BY <1>4, HandleDmStep, HandleGroupTextStep, HandlePathStep, HandleAckStep
<1>5. CASE HearForeign \/ IgnoreForeign
  BY <1>5, ForeignStep
<1>6. CASE Restart
  BY <1>6, RestartStep
<1>7. CASE UNCHANGED vars
  <2>1. UNCHANGED <<contact, sent, waiting, theirs, answers, overheard, air, relayed, heard, rxQueue>>
    BY <1>7 DEF vars, ourVars, theirVars
  <2>2. RouteInv' /\ DOMAIN heard' = {Us, Them} /\ (rxQueue' = <<>> \/ rxQueue' \in Foreign)
    BY <2>1 DEF IInv, RouteInv, RestInv
  <2> QED
    BY <2>1, <2>2, QuietStep
<1> QED
  BY <1>1, <1>2, <1>3, <1>4, <1>5, <1>6, <1>7 DEF Next

\* So it always holds.
LEMMA Invariance == Spec => []IInv
BY Beginning, Step, PTL DEF Spec

\* It tells the types.
LEMMA TypesOfInv == IInv => TypeOK
<1> SUFFICES ASSUME IInv PROVE TypeOK
  OBVIOUS
<1>1. ASSUME NEW c, IsContact(c)
      PROVE  IsRoute(c)
  <2>1. PICK path, n : path = c.path /\ n = Len(path)
    OBVIOUS
  <2>2. c = [path |-> path, raw |-> n] /\ IsPath(path)
    BY <1>1, <2>1 DEF IsContact
  <2>3. path \in Seq(Bytes) /\ n \in Bytes /\ PathByteLen(n) = n
    BY <2>1, <2>2, PathFacts
  <2> QED
    BY <2>1, <2>2, <2>3 DEF IsRoute
<1>2. IsRoute(contact) /\ IsRoute(theirs)
  BY <1>1, TheirFacts DEF IInv, RouteInv
<1>3. \A rec \in waiting : rec.m \in sent /\ rec.direct \in BOOLEAN
  BY DEF IInv, WaitInv
<1>4. \A x \in air : x.by \in Nodes /\ x.wire \in Seq(WireBytes)
  BY DEF IInv, AirInv, IsAir
<1> QED
  BY <1>2, <1>3, <1>4 DEF TypeOK, IInv, RestInv

\* Types; both routes agree with their length byte after every lesson, timeout and
\* restart.
THEOREM TypeCorrect == Spec => []TypeOK
BY Invariance, TypesOfInv, PTL

\* Whichever ways the copies of an attempt come, it is answered once.
THEOREM AnsweredAtMostOnce == Spec => []AnsweredOnce
<1>1. IInv => AnsweredOnce
  BY DEF IInv
<1> QED
  BY <1>1, Invariance, PTL

-----------------------------------------------------------------------------
(* What is understood.                                                     *)

\* A channel message that is heard is one that was sent.
LEMMA HeardChannel ==
  ASSUME AirInv, NEW x \in air, NEW p, p = Parse(x.wire), PayloadType(p.header) = PAYLOAD_TYPE_GRP_TXT
  PROVE  \E m \in sent : IsChannel(m) /\ p.payload = ChannelPayload(m)
<1>1. PICK route, type, path, payload :
        /\ IsSound(route, type, path, payload, sent)
        /\ IsMade(p, route, type, path, payload)
  BY SoundFacts DEF AirInv
<1>2. type = PAYLOAD_TYPE_GRP_TXT /\ p.payload = payload
  BY <1>1 DEF IsMade
<1>3. CarriesChannel(payload, sent)
  BY <1>1, <1>2 DEF IsSound, Carries, PAYLOAD_TYPE_TXT_MSG, PAYLOAD_TYPE_GRP_TXT,
     PAYLOAD_TYPE_PATH, PAYLOAD_TYPE_ACK
<1> QED
  BY <1>2, <1>3 DEF CarriesChannel

\* Every step keeps what was understood equal to what was sent.
LEMMA UnderstandingStep ==
  ASSUME IsPlainName(Nickname), IInv, UnderstoodAsSent, [Next]_vars
  PROVE  UnderstoodAsSent'
<1>1. CASE \E x \in air : HandleDm(x)
  <2>1. PICK x \in air : HandleDm(x)
    BY <1>1
  <2>2. PICK p : p = Parse(x.wire)
    OBVIOUS
  <2>3. /\ PayloadType(p.header) = PAYLOAD_TYPE_TXT_MSG /\ sent' = sent
        /\ understood' = understood \cup {DecodeDm(p.payload, PairKey, Them)}
    BY <2>1, <2>2 DEF HandleDm, ourVars
  <2>4. DecodeDm(p.payload, PairKey, Them) \in sent
    BY <2>2, <2>3, HeardDm DEF IInv
  <2> QED
    BY <2>3, <2>4 DEF UnderstoodAsSent
<1>2. CASE \E x \in air : HandleGroupText(x)
  <2>1. PICK x \in air : HandleGroupText(x)
    BY <1>2
  <2>2. PICK p : p = Parse(x.wire)
    OBVIOUS
  <2>3. /\ PayloadType(p.header) = PAYLOAD_TYPE_GRP_TXT /\ sent' = sent
        /\ understood' = understood \cup {DecodeGroupText(p.payload, ChannelKey, Channel)}
    BY <2>1, <2>2 DEF HandleGroupText, ourVars
  <2>4. PICK m \in sent : IsChannel(m) /\ p.payload = ChannelPayload(m)
    BY <2>2, <2>3, HeardChannel DEF IInv
  <2>5. DecodeGroupText(p.payload, ChannelKey, Channel) = m
    BY <2>4, ChannelFacts
  <2> QED
    BY <2>3, <2>5 DEF UnderstoodAsSent
<1>3. CASE \/ \E text \in Texts : SendDm(text) \/ SendGroupText(text)
           \/ \E rec \in waiting : ResendDm(rec)
  <2>1. understood' = understood /\ sent \subseteq sent'
    BY <1>3 DEF SendDm, SendGroupText, ResendDm, TxDm, theirVars
  <2> QED
    BY <2>1 DEF UnderstoodAsSent
<1>4. CASE \/ \E r \in Repeaters, x \in air : Relay(r, x)
           \/ \E x \in air : HandlePath(x) \/ HandleAck(x)
           \/ HearForeign \/ IgnoreForeign \/ Restart
  <2>1. understood' = understood /\ sent' = sent
    BY <1>4 DEF Relay, HandlePath, HandleAck, HearForeign, IgnoreForeign, Restart, ourVars, theirVars
  <2> QED
    BY <2>1 DEF UnderstoodAsSent
<1>5. CASE UNCHANGED vars
  BY <1>5 DEF UnderstoodAsSent, vars, ourVars, theirVars
<1> QED
  BY <1>1, <1>2, <1>3, <1>4, <1>5 DEF Next

\* Every message arrives as it was written, and both sides compute the same
\* acknowledgement for it, if no ": " stands in our name.
THEOREM MessagesArriveAsSent ==
  ASSUME IsPlainName(Nickname)
  PROVE  Spec => []UnderstoodAsSent
<1>1. Init => UnderstoodAsSent
  BY DEF Init, UnderstoodAsSent
<1>2. IInv /\ UnderstoodAsSent /\ [Next]_vars => UnderstoodAsSent'
  BY UnderstandingStep
<1> QED
  BY <1>1, <1>2, Invariance, PTL DEF Spec

-----------------------------------------------------------------------------
(* Ways.                                                                   *)

\* The empty way leads to whoever hears.
LEMMA EmptyWay ==
  ASSUME NEW from, NEW to
  PROVE  IsWay(from, <<>>, to) <=> <<from, to>> \in Hears
BY DEF IsWay

\* A way goes on through the node it leads to.
LEMMA ExtendWay ==
  ASSUME NEW from, NEW path \in Seq(Repeaters), NEW r \in Repeaters, NEW to,
         IsWay(from, path, r), <<r, to>> \in Hears
  PROVE  IsWay(from, Append(path, r), to)
<1>1. PICK n \in Nat : n = Len(path)
  OBVIOUS
<1>2. PICK longer : longer = Append(path, r)
  OBVIOUS
<1>3. /\ Len(longer) = n + 1 /\ longer[n + 1] = r
      /\ \A i \in 1..n : longer[i] = path[i]
  BY <1>1, <1>2
<1>4. ASSUME NEW i \in 0..(n + 1)
      PROVE  <<IF i = 0 THEN from ELSE longer[i],
               IF i = n + 1 THEN to ELSE longer[i + 1]>> \in Hears
  <2>1. CASE i = n + 1
    BY <1>3, <2>1
  <2>2. CASE i # n + 1
    <3>1. i \in 0..n
      BY <2>2
    <3>2. <<IF i = 0 THEN from ELSE path[i], IF i = n THEN r ELSE path[i + 1]>> \in Hears
      BY <1>1, <3>1 DEF IsWay
    <3>3. (IF i = 0 THEN from ELSE path[i]) = (IF i = 0 THEN from ELSE longer[i])
      BY <1>3, <3>1
    <3>4. (IF i = n THEN r ELSE path[i + 1]) = longer[i + 1]
      BY <1>3, <3>1
    <3> QED
      BY <2>2, <3>2, <3>3, <3>4
  <2> QED
    BY <2>1, <2>2
<1> QED
  BY <1>2, <1>3, <1>4 DEF IsWay

\* The rest of a way is a way of the first node on it.
LEMMA TailWay ==
  ASSUME NEW from, NEW path \in Seq(Repeaters), path # <<>>, NEW to, IsWay(from, path, to)
  PROVE  IsWay(Head(path), Tail(path), to) /\ <<from, Head(path)>> \in Hears
<1>1. PICK n \in Nat : n = Len(path)
  OBVIOUS
<1>2. PICK rest : rest = Tail(path)
  OBVIOUS
<1>3. n > 0 /\ Len(rest) = n - 1 /\ Head(path) = path[1] /\ \A i \in 1..(n - 1) : rest[i] = path[i + 1]
  BY <1>1, <1>2, EmptySeq
<1>4. ASSUME NEW i \in 0..n
      PROVE  <<IF i = 0 THEN from ELSE path[i], IF i = n THEN to ELSE path[i + 1]>> \in Hears
  BY <1>1 DEF IsWay
<1>5. ASSUME NEW i \in 0..(n - 1)
      PROVE  <<IF i = 0 THEN Head(path) ELSE rest[i],
               IF i = n - 1 THEN to ELSE rest[i + 1]>> \in Hears
  <2>1. i + 1 \in 0..n /\ i + 1 # 0
    BY <1>3
  <2>2. <<path[i + 1], IF i + 1 = n THEN to ELSE path[(i + 1) + 1]>> \in Hears
    BY <1>4, <2>1
  <2>3. (IF i = 0 THEN Head(path) ELSE rest[i]) = path[i + 1]
    BY <1>3
  <2>4. (IF i = n - 1 THEN to ELSE rest[i + 1]) = (IF i + 1 = n THEN to ELSE path[(i + 1) + 1])
    BY <1>3
  <2> QED
    BY <2>2, <2>3, <2>4
<1>6. <<from, Head(path)>> \in Hears
  <2>1. 0 \in 0..n /\ 0 # n /\ 0 + 1 = 1
    BY <1>3
  <2> QED
    BY <1>3, <1>4, <2>1
<1> QED
  BY <1>2, <1>3, <1>5, <1>6 DEF IsWay

\* Whoever hears a flood from this node is at the end of a way from its origin.
Leads(from, path, by) == \A n : <<by, n>> \in Hears => IsWay(from, path, n)

\* Where a direct packet of this type ends, and where a flood of it starts.
Goal(type)   == IF type = PAYLOAD_TYPE_ACK THEN Us ELSE Them
Origin(type) == IF type = PAYLOAD_TYPE_PATH THEN Them ELSE Us

\* A route to the contact is a way to it, or the rest that was returned of one.
LeadsThere(path, rests) == path # <<>> => IsWay(Us, path, Them) \/ path \in rests

\* The rest of a route is a way from its first hop on.
GoesOn(path) == path # <<>> /\ IsWay(Head(path), Tail(path), Them)

\* So are the hops a PATH return brings back.
BringsWay(payload, rests) ==
  \A back, ack : IsPath(back) /\ IsAck(ack) /\ payload = ReturnPayload(back, ack)
                   => LeadsThere(back, rests)

\* A direct packet has its way before it, or has just left us along such a rest;
\* a flood has its way behind it.
OnWay(by, route, type, path, payload, rests) ==
  /\ route = ROUTE_TYPE_DIRECT =>
       \/ IsWay(by, path, Goal(type))
       \/ by = Us /\ type = PAYLOAD_TYPE_TXT_MSG /\ path \in rests
  /\ route = ROUTE_TYPE_FLOOD => Leads(Origin(type), path, by)
  /\ type = PAYLOAD_TYPE_PATH => BringsWay(payload, rests)

\* A transmission of such a packet.
IsOnWay(x, rests) ==
  LET p == Parse(x.wire)
  IN  OnWay(x.by, RouteType(p.header), PayloadType(p.header), p.path, p.payload, rests)

\* All that is on the air, the route we learned, and the rests it may be.
WayInv == /\ \A x \in air : IsOnWay(x, overheard)
          /\ LeadsThere(contact.path, overheard)
          /\ \A path \in overheard : GoesOn(path)

\* The way of a packet, once it is written and parsed.
LEMMA WayOfWire ==
  ASSUME NEW route, NEW type, NEW path, NEW payload, NEW msgs, IsSound(route, type, path, payload, msgs),
         NEW by, NEW rests, OnWay(by, route, type, path, payload, rests),
         NEW x, x = [by |-> by, wire |-> ToBytes(Made(route, type, path, payload))]
  PROVE  IsOnWay(x, rests)
<1>1. PICK p : p = Made(route, type, path, payload)
  OBVIOUS
<1>2. route \in Routes /\ type \in Types /\ IsPath(path) /\ IsPayload(payload)
  BY DEF IsSound
<1>3. IsMade(p, route, type, path, payload)
  BY <1>1, <1>2, MadeFacts
<1>4. /\ Parse(ToBytes(p)) = p /\ RouteType(p.header) = route /\ PayloadType(p.header) = type
      /\ p.path = path /\ p.payload = payload
  BY <1>3 DEF IsMade
<1>5. Parse(x.wire) = p /\ x.by = by
  BY <1>1, <1>4
<1> QED
  BY <1>4, <1>5 DEF IsOnWay

\* More rests leave what is on its way there.
LEMMA RestsGrow ==
  ASSUME NEW rests, NEW more, rests \subseteq more, NEW x, IsOnWay(x, rests)
  PROVE  IsOnWay(x, more)
BY DEF IsOnWay, OnWay, BringsWay, LeadsThere

\* New transmissions on their way, a new route and a new rest keep WayInv.
LEMMA WaysGrow ==
  ASSUME WayInv, overheard \subseteq overheard',
         contact' = contact \/ LeadsThere(contact'.path, overheard'),
         \A x \in air' : x \in air \/ IsOnWay(x, overheard'),
         \A path \in overheard' : path \in overheard \/ GoesOn(path)
  PROVE  WayInv'
<1>1. \A x \in air' : IsOnWay(x, overheard')
  BY RestsGrow DEF WayInv
<1>2. LeadsThere(contact'.path, overheard')
  BY DEF WayInv, LeadsThere
<1>3. \A path \in overheard' : GoesOn(path)
  BY DEF WayInv
<1> QED
  BY <1>1, <1>2, <1>3 DEF WayInv

\* What we send: along the route we know, or to whoever hears us.
LEMMA FromUs ==
  ASSUME NEW c, NEW rests, LeadsThere(c.path, rests), NEW route \in Routes,
         route = IF c.path = <<>> THEN ROUTE_TYPE_FLOOD ELSE ROUTE_TYPE_DIRECT,
         NEW payload
  PROVE  OnWay(Us, route, PAYLOAD_TYPE_TXT_MSG, c.path, payload, rests)
BY EmptyWay DEF OnWay, LeadsThere, Goal, Origin, Leads, ROUTE_TYPE_FLOOD, ROUTE_TYPE_DIRECT,
   PAYLOAD_TYPE_TXT_MSG, PAYLOAD_TYPE_ACK, PAYLOAD_TYPE_PATH

\* _tx_dm puts its packet on the way.
LEMMA TxDmWay ==
  ASSUME IsContact(contact'), LeadsThere(contact'.path, overheard), NEW m, IsDm(m), TxDm(m)
  PROVE  \A x \in air' : x \in air \/ IsOnWay(x, overheard)
<1>1. PICK payload : payload = DmPayload(m)
  OBVIOUS
<1>2. PICK q : q = Addressed(Route(contact'), PAYLOAD_TYPE_TXT_MSG, payload)
  OBVIOUS
<1>3. /\ air' = air \cup {[by |-> Us, wire |-> ToBytes(q)]}
      /\ sent' = sent \cup {m}
  BY <1>1, <1>2 DEF TxDm, Emit, DmPayload
<1>4. PICK c : c = contact'
  OBVIOUS
<1>5. PICK route \in Routes :
        /\ q = Made(route, PAYLOAD_TYPE_TXT_MSG, c.path, payload)
        /\ route = IF c.path = <<>> THEN ROUTE_TYPE_FLOOD ELSE ROUTE_TYPE_DIRECT
  BY <1>2, <1>4, AddressedFacts
<1>6. IsSound(route, PAYLOAD_TYPE_TXT_MSG, c.path, payload, {m})
  <2>1. IsPath(c.path)
    BY <1>4 DEF IsContact
  <2>2. IsPayload(payload)
    BY <1>1, DmFacts
  <2>3. CarriesDm(payload, {m})
    BY <1>1 DEF CarriesDm
  <2> QED
    BY <2>1, <2>2, <2>3 DEF IsSound, Carries, Types
<1>7. OnWay(Us, route, PAYLOAD_TYPE_TXT_MSG, c.path, payload, overheard)
  BY <1>4, <1>5, FromUs
<1>8. PICK y : y = [by |-> Us, wire |-> ToBytes(q)]
  OBVIOUS
<1>9. IsOnWay(y, overheard)
  <2>1. y = [by |-> Us, wire |-> ToBytes(Made(route, PAYLOAD_TYPE_TXT_MSG, c.path, payload))]
    BY <1>5, <1>8
  <2> QED
    BY <1>6, <1>7, <2>1, WayOfWire
<1> QED
  BY <1>3, <1>8, <1>9

\* send_dm keeps WayInv.
LEMMA SendDmWay ==
  ASSUME IInv, WayInv, NEW text \in Texts, SendDm(text)
  PROVE  WayInv'
<1>1. PICK m : m = Attempt(Now, 0, text)
  OBVIOUS
<1>2. contact' = contact /\ overheard' = overheard /\ TxDm(m)
  BY <1>1 DEF SendDm, theirVars
<1>3. IsDm(m)
  BY <1>1, NowFacts, NewDm DEF IInv
<1>4. IsContact(contact') /\ LeadsThere(contact'.path, overheard)
  BY <1>2 DEF IInv, RouteInv, WayInv
<1> QED
  BY <1>2, <1>3, <1>4, TxDmWay, WaysGrow

\* The resend after a timeout, which forgets the route, keeps WayInv.
LEMMA ResendDmWay ==
  ASSUME IInv, WayInv, NEW rec \in waiting, ResendDm(rec)
  PROVE  WayInv'
<1>1. PICK m : m = Attempt(rec.m.ts, 1, rec.m.text)
  OBVIOUS
<1>2. contact' = (IF rec.direct THEN NoRoute ELSE contact) /\ overheard' = overheard /\ TxDm(m)
  BY <1>1 DEF ResendDm, theirVars
<1>3. IsDm(m)
  <2>1. IsDm(rec.m)
    BY DEF IInv, WaitInv
  <2>2. PICK ts \in ShortStamps, text \in Texts : ts = rec.m.ts /\ text = rec.m.text
    BY <2>1, DmFacts
  <2> QED
    BY <1>1, <2>2, NewDm
<1>4. IsContact(NoRoute) /\ NoRoute.path = <<>>
  BY EmptyPath DEF IsContact, NoRoute
<1>5. IsContact(contact') /\ LeadsThere(contact'.path, overheard)
  BY <1>2, <1>4 DEF IInv, RouteInv, WayInv, LeadsThere
<1> QED
  BY <1>2, <1>3, <1>5, TxDmWay, WaysGrow

\* send_group_text keeps WayInv.
LEMMA SendGroupTextWay ==
  ASSUME IInv, WayInv, NEW text \in Texts, SendGroupText(text)
  PROVE  WayInv'
<1>1. PICK m : m = [sender |-> Nickname, ts |-> Now, text |-> text]
  OBVIOUS
<1>2. PICK payload : payload = ChannelPayload(m)
  OBVIOUS
<1>3. PICK q : q = Flood(PAYLOAD_TYPE_GRP_TXT, payload)
  OBVIOUS
<1>4. m.text = text /\ m.ts = Now /\ IsChannel(m)
  BY <1>1, NowFacts DEF IInv, IsChannel
<1>5. /\ contact' = contact /\ overheard' = overheard
      /\ air' = air \cup {[by |-> Us, wire |-> ToBytes(q)]}
  BY <1>1, <1>2, <1>3, <1>4 DEF SendGroupText, Emit, ChannelPayload, theirVars
<1>6. q = Made(ROUTE_TYPE_FLOOD, PAYLOAD_TYPE_GRP_TXT, <<>>, payload)
  BY <1>3, FloodFacts
<1>7. IsSound(ROUTE_TYPE_FLOOD, PAYLOAD_TYPE_GRP_TXT, <<>>, payload, {m})
  <2>1. IsPayload(payload)
    BY <1>2, <1>4, ChannelFacts
  <2>2. CarriesChannel(payload, {m})
    BY <1>2, <1>4 DEF CarriesChannel
  <2> QED
    BY <2>1, <2>2, EmptyPath DEF IsSound, Carries, Routes, Types
<1>8. OnWay(Us, ROUTE_TYPE_FLOOD, PAYLOAD_TYPE_GRP_TXT, <<>>, payload, overheard)
  BY EmptyWay DEF OnWay, Origin, Leads, ROUTE_TYPE_FLOOD, ROUTE_TYPE_DIRECT,
     PAYLOAD_TYPE_GRP_TXT, PAYLOAD_TYPE_PATH
<1>9. PICK y : y = [by |-> Us, wire |-> ToBytes(q)]
  OBVIOUS
<1>10. IsOnWay(y, overheard)
  <2>1. y = [by |-> Us, wire |-> ToBytes(Made(ROUTE_TYPE_FLOOD, PAYLOAD_TYPE_GRP_TXT, <<>>, payload))]
    BY <1>6, <1>9
  <2> QED
    BY <1>7, <1>8, <2>1, WayOfWire
<1> QED
  BY <1>5, <1>9, <1>10, WaysGrow

\* A repeater takes itself off a direct packet, or adds itself to a flood.
LEMMA RelayWay ==
  ASSUME IInv, WayInv, NEW r \in Repeaters, NEW x \in air, Relay(r, x)
  PROVE  WayInv'
<1>1. PICK p : p = Parse(x.wire)
  OBVIOUS
<1>2. /\ <<x.by, r>> \in Hears
      /\ IF RouteType(p.header) = ROUTE_TYPE_FLOOD
         THEN HashCount(p.lenByte) < 63 /\ IsValidPathLen(p.lenByte + 1)
         ELSE p.path # <<>> /\ Head(p.path) = r
      /\ air' = air \cup {[by |-> r, wire |-> ToBytes(Forwarded(r, p))]}
      /\ contact' = contact /\ overheard' = overheard
  BY <1>1 DEF Relay, ourVars, theirVars
<1>3. PICK route, type, path, payload :
        /\ IsSound(route, type, path, payload, sent)
        /\ IsMade(p, route, type, path, payload)
  BY <1>1, SoundFacts DEF IInv, AirInv
<1>4. /\ route \in Routes /\ type \in Types /\ IsPath(path) /\ IsPayload(payload)
      /\ Carries(route, type, payload, sent) /\ path \in Seq(Repeaters)
  BY <1>3 DEF IsSound, IsPath
<1>5. RouteType(p.header) = route /\ PayloadType(p.header) = type /\ p.path = path /\ p.payload = payload
  BY <1>3 DEF IsMade
<1>6. OnWay(x.by, route, type, path, payload, overheard)
  BY <1>1, <1>5 DEF WayInv, IsOnWay
<1>7. \E next : /\ IsPath(next) /\ Forwarded(r, p) = Made(route, type, next, payload)
                /\ OnWay(r, route, type, next, payload, overheard)
  <2>1. CASE route = ROUTE_TYPE_FLOOD
    <3>1. PICK next : next = Append(path, r)
      OBVIOUS
    <3>2. IsPath(next) /\ Forwarded(r, p) = Made(route, type, next, payload)
      BY <1>2, <1>3, <1>4, <1>5, <2>1, <3>1, FloodedOn
    <3>3. PICK from : from = Origin(type)
      OBVIOUS
    <3>4. IsWay(from, path, r)
      BY <1>2, <1>6, <2>1, <3>3 DEF OnWay, Leads
    <3>5. Leads(from, next, r)
      BY <1>4, <3>1, <3>4, ExtendWay DEF Leads
    <3>6. OnWay(r, route, type, next, payload, overheard)
      BY <1>6, <2>1, <3>3, <3>5 DEF OnWay, ROUTE_TYPE_FLOOD, ROUTE_TYPE_DIRECT
    <3> QED
      BY <3>2, <3>6
  <2>2. CASE route = ROUTE_TYPE_DIRECT
    <3>1. PICK next : next = Tail(path)
      OBVIOUS
    <3>2. path # <<>> /\ Head(path) = r
      BY <1>2, <1>5, <2>2 DEF ROUTE_TYPE_FLOOD, ROUTE_TYPE_DIRECT
    <3>3. IsPath(next) /\ Forwarded(r, p) = Made(route, type, next, payload)
      BY <1>3, <1>4, <2>2, <3>1, <3>2, SentOn
    <3>4. PICK to : to = Goal(type)
      OBVIOUS
    <3>5. ASSUME IsWay(x.by, path, to)
          PROVE  IsWay(r, next, to)
      BY <1>4, <3>1, <3>2, <3>5, TailWay
    <3>6. ASSUME type = PAYLOAD_TYPE_TXT_MSG, path \in overheard
          PROVE  IsWay(r, next, to)
      <4>1. to = Them
        BY <3>4, <3>6 DEF Goal, PAYLOAD_TYPE_TXT_MSG, PAYLOAD_TYPE_ACK
      <4>2. GoesOn(path)
        BY <3>6 DEF WayInv
      <4> QED
        BY <3>1, <3>2, <4>1, <4>2 DEF GoesOn
    <3>7. IsWay(r, next, to)
      BY <1>6, <2>2, <3>4, <3>5, <3>6 DEF OnWay
    <3>8. OnWay(r, route, type, next, payload, overheard)
      BY <1>6, <2>2, <3>4, <3>7 DEF OnWay, ROUTE_TYPE_FLOOD, ROUTE_TYPE_DIRECT
    <3> QED
      BY <3>3, <3>8
  <2> QED
    BY <1>4, <2>1, <2>2 DEF Routes
<1>8. PICK next : /\ IsPath(next) /\ Forwarded(r, p) = Made(route, type, next, payload)
                  /\ OnWay(r, route, type, next, payload, overheard)
  BY <1>7
<1>9. PICK y : y = [by |-> r, wire |-> ToBytes(Forwarded(r, p))]
  OBVIOUS
<1>10. IsOnWay(y, overheard)
  <2>1. IsSound(route, type, next, payload, sent)
    BY <1>4, <1>8 DEF IsSound
  <2>2. y = [by |-> r, wire |-> ToBytes(Made(route, type, next, payload))]
    BY <1>8, <1>9
  <2> QED
    BY <1>8, <2>1, <2>2, WayOfWire
<1> QED
  BY <1>2, <1>9, <1>10, WaysGrow

\* The hops of a flood that the contact hears are a way to it, those of a direct
\* message are one from the first of them on.
LEMMA WayThere ==
  ASSUME WayInv, NEW n, <<n, Them>> \in Hears,
         NEW route, NEW path, IsPath(path), path # <<>>, NEW payload,
         OnWay(n, route, PAYLOAD_TYPE_TXT_MSG, path, payload, overheard)
  PROVE  /\ route = ROUTE_TYPE_FLOOD => IsWay(Us, path, Them)
         /\ route = ROUTE_TYPE_DIRECT => GoesOn(path)
<1>1. ASSUME route = ROUTE_TYPE_FLOOD
      PROVE  IsWay(Us, path, Them)
  BY <1>1 DEF OnWay, Leads, Origin, PAYLOAD_TYPE_TXT_MSG, PAYLOAD_TYPE_PATH
<1>2. ASSUME route = ROUTE_TYPE_DIRECT
      PROVE  GoesOn(path)
  <2>1. IsWay(n, path, Them) \/ path \in overheard
    BY <1>2 DEF OnWay, Goal, PAYLOAD_TYPE_TXT_MSG, PAYLOAD_TYPE_ACK
  <2>2. path \in Seq(Repeaters)
    BY DEF IsPath
  <2>3. ASSUME IsWay(n, path, Them)
        PROVE  GoesOn(path)
    BY <2>2, <2>3, TailWay DEF GoesOn
  <2> QED
    BY <2>1, <2>3 DEF WayInv
<1> QED
  BY <1>1, <1>2

\* The answer goes back the way the message came.
LEMMA HandleDmWay ==
  ASSUME IInv, WayInv, NEW x \in air, HandleDm(x)
  PROVE  WayInv'
<1>1. PICK p : p = Parse(x.wire)
  OBVIOUS
<1>2. PICK got : got = DecodeDm(p.payload, PairKey, Them)
  OBVIOUS
<1>3. PICK out : out = Answer(p, got.ack)
  OBVIOUS
<1>4. /\ <<x.by, Them>> \in Hears
      /\ PayloadType(p.header) = PAYLOAD_TYPE_TXT_MSG
      /\ air' = air \cup {[by |-> Them, wire |-> ToBytes(out)]}
      /\ contact' = contact
  BY <1>1, <1>2, <1>3 DEF HandleDm, IsNew, ourVars
<1>5. PICK m \in sent, route \in Routes :
        /\ IsDm(m) /\ got = m
        /\ IsMade(p, route, PAYLOAD_TYPE_TXT_MSG, p.path, DmPayload(m)) /\ IsPath(p.path)
  BY <1>1, <1>2, <1>4, HeardDm DEF IInv
<1>6. PICK ack : ack = got.ack
  OBVIOUS
<1>7. IsAck(ack)
  BY <1>5, <1>6, DmFacts DEF IsAck
<1>8. PICK back : back = p.path
  OBVIOUS
<1>9. IsPath(back) /\ p.lenByte = Len(back) /\ RouteType(p.header) = route /\ x.by \in Nodes
  BY <1>5, <1>8 DEF IsMade, IInv, AirInv, IsAir
<1>10. OnWay(x.by, route, PAYLOAD_TYPE_TXT_MSG, back, p.payload, overheard)
  BY <1>1, <1>4, <1>8, <1>9 DEF WayInv, IsOnWay
<1>11. PICK y : y = [by |-> Them, wire |-> ToBytes(out)]
  OBVIOUS
<1>12. overheard' = overheard \cup {path \in {back} : route = ROUTE_TYPE_DIRECT
                                                        /\ theirs.path = <<>> /\ path # <<>>}
  BY <1>1, <1>8, <1>9 DEF HandleDm
<1>13. \A path \in overheard' : path \in overheard \/ GoesOn(path)
  BY <1>4, <1>9, <1>10, <1>12, WayThere
<1>14. IsOnWay(y, overheard')
  <2>1. CASE route = ROUTE_TYPE_FLOOD \/ theirs.path = <<>>
    <3>1. PICK payload : payload = ReturnPayload(back, ack)
      OBVIOUS
    <3>2. out = Flood(PAYLOAD_TYPE_PATH, payload)
      BY <1>3, <1>6, <1>8, <1>9, <2>1, <3>1 DEF Answer, ReturnPayload
    <3>3. out = Made(ROUTE_TYPE_FLOOD, PAYLOAD_TYPE_PATH, <<>>, payload)
      BY <3>2, FloodFacts
    <3>4. IsPayload(payload) /\ CarriesReturn(payload)
      BY <1>7, <1>9, <3>1, ReturnFacts DEF CarriesReturn
    <3>5. IsSound(ROUTE_TYPE_FLOOD, PAYLOAD_TYPE_PATH, <<>>, payload, sent)
      BY <3>4, EmptyPath DEF IsSound, Carries, Routes, Types
    <3>6. BringsWay(payload, overheard')
      <4>1. ASSUME NEW hops, NEW other, IsPath(hops), IsAck(other),
                   payload = ReturnPayload(hops, other)
            PROVE  LeadsThere(hops, overheard')
        <5>1. DecodePath(payload, PairKey, Us) = [path |-> hops, lenByte |-> Len(hops), ack |-> other]
          BY <4>1, ReturnFacts
        <5>2. DecodePath(payload, PairKey, Us) = [path |-> back, lenByte |-> Len(back), ack |-> ack]
          BY <1>7, <1>9, <3>1, ReturnFacts
        <5>3. hops = back
          BY <5>1, <5>2
        <5> QED
          BY <1>4, <1>9, <1>10, <1>12, <2>1, <5>3, WayThere DEF LeadsThere, Routes
      <4> QED
        BY <4>1 DEF BringsWay
    <3>7. OnWay(Them, ROUTE_TYPE_FLOOD, PAYLOAD_TYPE_PATH, <<>>, payload, overheard')
      BY <3>6, EmptyWay DEF OnWay, Origin, Leads, ROUTE_TYPE_FLOOD, ROUTE_TYPE_DIRECT
    <3>8. y = [by |-> Them, wire |-> ToBytes(Made(ROUTE_TYPE_FLOOD, PAYLOAD_TYPE_PATH, <<>>, payload))]
      BY <1>11, <3>3
    <3> QED
      BY <3>5, <3>7, <3>8, WayOfWire
  <2>2. CASE ~(route = ROUTE_TYPE_FLOOD \/ theirs.path = <<>>)
    <3>1. PICK payload : payload = AckPayload(ack)
      OBVIOUS
    <3>2. out = Addressed(Route(theirs), PAYLOAD_TYPE_ACK, payload)
      BY <1>3, <1>6, <1>9, <2>2, <3>1 DEF Answer, AckPayload
    <3>3. IsContact(theirs) /\ IsPath(theirs.path) /\ IsWay(Them, theirs.path, Us)
      BY <2>2, TheirFacts DEF IInv, RouteInv, IsContact
    <3>4. out = Made(ROUTE_TYPE_DIRECT, PAYLOAD_TYPE_ACK, theirs.path, payload)
      BY <2>2, <3>2, <3>3, AddressedFacts
    <3>5. IsPayload(payload) /\ CarriesAck(payload)
      BY <1>7, <3>1, AckFacts DEF CarriesAck
    <3>6. IsSound(ROUTE_TYPE_DIRECT, PAYLOAD_TYPE_ACK, theirs.path, payload, sent)
      BY <3>3, <3>5 DEF IsSound, Carries, Routes, Types
    <3>7. OnWay(Them, ROUTE_TYPE_DIRECT, PAYLOAD_TYPE_ACK, theirs.path, payload, overheard')
      BY <3>3 DEF OnWay, Goal, ROUTE_TYPE_FLOOD, ROUTE_TYPE_DIRECT, PAYLOAD_TYPE_ACK, PAYLOAD_TYPE_PATH
    <3>8. y = [by |-> Them, wire |-> ToBytes(Made(ROUTE_TYPE_DIRECT, PAYLOAD_TYPE_ACK, theirs.path, payload))]
      BY <1>11, <3>4
    <3> QED
      BY <3>6, <3>7, <3>8, WayOfWire
  <2> QED
    BY <2>1, <2>2
<1> QED
  BY <1>4, <1>11, <1>14, <1>12, <1>13, WaysGrow

\* _learn_path takes the hops of a PATH return for its route.
LEMMA HandlePathWay ==
  ASSUME IInv, WayInv, NEW x \in air, HandlePath(x)
  PROVE  WayInv'
<1>1. PICK p : p = Parse(x.wire)
  OBVIOUS
<1>2. PICK dec : dec = DecodePath(p.payload, PairKey, Us)
  OBVIOUS
<1>3. /\ PayloadType(p.header) = PAYLOAD_TYPE_PATH /\ contact' = LearnPath(contact, dec)
      /\ air' = air /\ overheard' = overheard
  BY <1>1, <1>2 DEF HandlePath, theirVars
<1>4. PICK back, ack :
        /\ IsPath(back) /\ IsAck(ack) /\ p.payload = ReturnPayload(back, ack)
        /\ dec = [path |-> back, lenByte |-> Len(back), ack |-> ack]
  BY <1>1, <1>2, <1>3, HeardReturn DEF IInv
<1>5. BringsWay(p.payload, overheard)
  BY <1>1, <1>3 DEF WayInv, IsOnWay, OnWay
<1>6. LeadsThere(back, overheard)
  BY <1>4, <1>5 DEF BringsWay
<1>7. contact' = contact \/ LeadsThere(contact'.path, overheard)
  BY <1>3, <1>4, <1>6 DEF LearnPath
<1> QED
  BY <1>3, <1>7, WaysGrow

\* Every step keeps WayInv.
LEMMA WayStep ==
  ASSUME IInv, WayInv, [Next]_vars
  PROVE  WayInv'
<1>1. CASE \E text \in Texts : SendDm(text) \/ SendGroupText(text)
  BY <1>1, SendDmWay, SendGroupTextWay
<1>2. CASE \E rec \in waiting : ResendDm(rec)
  BY <1>2, ResendDmWay
<1>3. CASE \E r \in Repeaters, x \in air : Relay(r, x)
  BY <1>3, RelayWay
<1>4. CASE \E x \in air : HandleDm(x)
  BY <1>4, HandleDmWay
<1>5. CASE \E x \in air : HandlePath(x)
  BY <1>5, HandlePathWay
<1>6. CASE \/ \E x \in air : HandleGroupText(x) \/ HandleAck(x)
           \/ HearForeign \/ IgnoreForeign \/ UNCHANGED vars
  <2>1. contact' = contact /\ air' = air /\ overheard' = overheard
    BY <1>6 DEF HandleGroupText, HandleAck, HearForeign, IgnoreForeign, vars, ourVars, theirVars
  <2> QED
    BY <2>1, WaysGrow
<1>7. CASE Restart
  <2>1. contact' = contact /\ air' = air /\ overheard' = overheard
    BY <1>7, SavedFacts DEF Restart, IInv, RouteInv, theirVars
  <2> QED
    BY <2>1, WaysGrow
<1> QED
  BY <1>1, <1>2, <1>3, <1>4, <1>5, <1>6, <1>7 DEF Next

\* A packet with its way before it is on course.
LEMMA WayToCourse ==
  ASSUME IInv, WayInv
  PROVE  OnCourse
<1>1. ASSUME NEW x \in air, NEW p, p = Parse(x.wire)
      PROVE  /\ p # Malformed
             /\ RouteType(p.header) = ROUTE_TYPE_DIRECT =>
                  \/ <<x.by, IF p.path = <<>>
                             THEN IF PayloadType(p.header) = PAYLOAD_TYPE_ACK THEN Us ELSE p.payload[1]
                             ELSE Head(p.path)>> \in Hears
                  \/ x.by = Us /\ p.path \in overheard
  <2>1. PICK route, type, path, payload :
          /\ IsSound(route, type, path, payload, sent)
          /\ IsMade(p, route, type, path, payload)
    BY <1>1, SoundFacts DEF IInv, AirInv
  <2>2. /\ p # Malformed
        /\ RouteType(p.header) = route /\ PayloadType(p.header) = type /\ p.path = path /\ p.payload = payload
    BY <2>1 DEF IsMade
  <2>3. IsPath(path) /\ Carries(route, type, payload, sent)
    BY <2>1 DEF IsSound
  <2>4. ASSUME route = ROUTE_TYPE_DIRECT, IsWay(x.by, path, Goal(type))
        PROVE  <<x.by, IF path = <<>>
                       THEN IF type = PAYLOAD_TYPE_ACK THEN Us ELSE payload[1]
                       ELSE Head(path)>> \in Hears
    <3>1. CASE path # <<>>
      <4>1. path \in Seq(Repeaters)
        BY <2>3 DEF IsPath
      <4>2. <<x.by, Head(path)>> \in Hears
        BY <2>4, <3>1, <4>1, TailWay
      <4> QED
        BY <3>1, <4>2
    <3>2. CASE path = <<>>
      <4>1. <<x.by, Goal(type)>> \in Hears
        BY <2>4, <3>2, EmptyWay
      <4>2. CASE type = PAYLOAD_TYPE_ACK
        BY <3>2, <4>1, <4>2 DEF Goal
      <4>3. CASE type # PAYLOAD_TYPE_ACK
        <5>1. CarriesDm(payload, sent)
          BY <2>3, <2>4, <4>3 DEF Carries, ROUTE_TYPE_FLOOD, ROUTE_TYPE_DIRECT
        <5>2. payload[1] = Them
          BY <5>1, DmFacts DEF CarriesDm
        <5> QED
          BY <3>2, <4>1, <4>3, <5>2 DEF Goal
      <4> QED
        BY <4>2, <4>3
    <3> QED
      BY <3>1, <3>2
  <2>5. route = ROUTE_TYPE_DIRECT => IsWay(x.by, path, Goal(type)) \/ (x.by = Us /\ path \in overheard)
    BY <1>1, <2>2 DEF WayInv, IsOnWay, OnWay
  <2> QED
    BY <2>2, <2>4, <2>5
<1> QED
  BY <1>1 DEF OnCourse

\* What is on the air can be parsed, and a direct packet is always sent where its
\* next hop hears it, from its sender to its end, on any mesh: but for our own first
\* transmission along the rest of a route that was returned of an overheard packet.
THEOREM DirectPacketsStayOnCourse == Spec => []OnCourse
<1>1. Init => WayInv
  BY OurFacts DEF Init, WayInv, LeadsThere
<1>2. IInv /\ WayInv /\ [Next]_vars => WayInv'
  BY WayStep
<1>3. IInv /\ WayInv => OnCourse
  BY WayToCourse
<1> QED
  BY <1>1, <1>2, <1>3, Invariance, PTL DEF Spec
==============================================================================
