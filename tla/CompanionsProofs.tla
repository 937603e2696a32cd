-------------------------- MODULE CompanionsProofs ---------------------------
(***************************************************************************)
(* Theorems of Companions, for every choice of the constants:               *)
(*  - a node keeps its key pair (IdentityIsKept of Identity);               *)
(*  - the companions and the contacts are what was advertised               *)
(*    (TablesFollowAdverts), and a node that made one key pair acts as one  *)
(*    (ActsAsOneNode).                                                      *)
(* The second part rests on how parse_advert reads the adverts of others    *)
(* and our own, byte by byte.                                               *)
(***************************************************************************)
EXTENDS Companions, SequenceTheorems, FiniteSetTheorems, WellFoundedInduction, TLAPS

(***************************************************************************)
(* The key pair.                                                            *)
(***************************************************************************)
Pcs == {"idle", "make", "commit", "name", "rename", "tell", "lower"}

\* The flag of ensure_identity tells whether a thread of its own is at work, and
\* there is one at most; the button's was pressed; and while it was not, a thread
\* that has yet to store its pair finds none.
ThreadsTyped == gpc \in [Threads -> Pcs] /\ keygenRunning \in BOOLEAN /\ pressed \in BOOLEAN
FlagTells    == \A t \in Keygens : gpc[t] # "idle" => keygenRunning
KeygenSingle == \A t, u \in Keygens : gpc[t] # "idle" /\ gpc[u] # "idle" => t = u
ButtonTells  == gpc["button"] # "idle" => pressed
NoneStored   == ~pressed => \A t \in Keygens : gpc[t] \in {"make", "commit"} => key = NoKey

IInv == ThreadsTyped /\ FlagTells /\ KeygenSingle /\ ButtonTells /\ NoneStored

-----------------------------------------------------------------------------
\* No thread runs when the device starts.
LEMMA InitOK == Init => IInv
BY DEF Init, IdentityInit, IInv, ThreadsTyped, FlagTells, KeygenSingle, ButtonTells, NoneStored,
       Threads, Keygens, Pcs

\* What ensure_identity does to the invariant, whatever else the step does to
\* the screen.
LEMMA EnsureOK ==
  ASSUME IInv, EnsureIdentity, key' = key, pressed' = pressed
  PROVE  IInv'
<1>1. CASE NeedsIdentity
  <2>1. /\ keygenRunning' = TRUE
        /\ gpc' = [gpc EXCEPT ![IF gpc["first"] = "idle" THEN "first" ELSE "second"] = "make"]
    BY <1>1 DEF EnsureIdentity, Move
  <2>2. gpc["first"] = "idle" /\ gpc["second"] = "idle" /\ key = NoKey
    BY <1>1 DEF IInv, FlagTells, NeedsIdentity, Keygens
  <2>3. gpc' = [gpc EXCEPT !["first"] = "make"]
    BY <2>1, <2>2
  <2> QED
    BY <2>1, <2>2, <2>3 DEF IInv, ThreadsTyped, FlagTells, KeygenSingle, ButtonTells, NoneStored,
                             Threads, Keygens, Pcs
<1>2. CASE ~NeedsIdentity
  BY <1>2 DEF EnsureIdentity, IInv, ThreadsTyped, FlagTells, KeygenSingle, ButtonTells, NoneStored
<1> QED BY <1>1, <1>2

\* What a step does that moves one thread of those at work, and stores nothing
\* unless it is in Commit.
LEMMA MoveOK ==
  ASSUME IInv, NEW t \in Threads, NEW p \in Pcs \ {"idle"}, gpc[t] # "idle", Move(t, p),
         keygenRunning' = keygenRunning, pressed' = pressed,
         p \in {"make", "commit"} => gpc[t] \in {"make", "commit"} /\ key' = key,
         key' # key => gpc[t] = "commit"
  PROVE  IInv'
<1>1. ThreadsTyped' /\ FlagTells' /\ ButtonTells' /\ KeygenSingle'
  BY DEF IInv, Move, ThreadsTyped, FlagTells, KeygenSingle, ButtonTells, Threads, Keygens
<1>2. NoneStored'
  BY <1>1 DEF IInv, Move, NoneStored, ThreadsTyped, KeygenSingle, ButtonTells, Threads, Keygens
<1> QED BY <1>1, <1>2 DEF IInv

\* Every step of a generating thread keeps the invariant.
LEMMA GenerateOK ==
  ASSUME IInv, NEW t \in Threads, Generate(t)
  PROVE  IInv'
<1>1. CASE MakePair(t)
  BY <1>1, MoveOK DEF MakePair, screen, Pcs
<1>2. CASE MakeFails(t)
  BY <1>2, MoveOK DEF MakeFails, screen, Pcs
<1>3. CASE Commit(t)
  BY <1>3, MoveOK DEF Commit, screen, Pcs
<1>4. CASE ReadName(t)
  <2>1. CASE name # NoName
    BY <1>4, <2>1, MoveOK DEF ReadName, screen, Pcs
  <2>2. CASE name = NoName
    BY <1>4, <2>2, MoveOK DEF ReadName, screen, Pcs
  <2> QED BY <2>1, <2>2
<1>5. CASE Rename(t)
  BY <1>5, MoveOK DEF Rename, screen, Pcs
<1>6. CASE Tell(t)
  BY <1>6, MoveOK DEF Tell, Pcs
<1>7. CASE Lower(t)
  <2>1. CASE t \in Keygens
    BY <1>7, <2>1 DEF Lower, Move, IInv, ThreadsTyped, FlagTells, KeygenSingle, ButtonTells,
                      NoneStored, Threads, Keygens, Pcs
  <2>2. CASE t \notin Keygens
    BY <1>7, <2>2 DEF Lower, Move, IInv, ThreadsTyped, FlagTells, KeygenSingle, ButtonTells,
                      NoneStored, Threads, Keygens, Pcs
  <2> QED BY <2>1, <2>2
<1> QED BY <1>1, <1>2, <1>3, <1>4, <1>5, <1>6, <1>7 DEF Generate

\* What leaves the threads and the key alone keeps the invariant.
LEMMA IdleOK ==
  ASSUME IInv, UNCHANGED <<gpc, key, keygenRunning, pressed>>
  PROVE  IInv'
BY DEF IInv, ThreadsTyped, FlagTells, KeygenSingle, ButtonTells, NoneStored

\* Every step keeps the invariant.
LEMMA StepOK == IInv /\ [Next]_vars => IInv'
<1> SUFFICES ASSUME IInv, [Next]_vars PROVE IInv'
  OBVIOUS
<1>1. CASE IdentityNext
  <2>1. ASSUME NEW t \in Threads, Generate(t) PROVE IInv'
    BY <2>1, GenerateOK
  <2>2. CASE StartService
    BY <2>2, EnsureOK DEF StartService, screen
  <2>3. CASE RefreshIdentity
    BY <2>3, IdleOK DEF RefreshIdentity
  <2>4. CASE TapGenerate
    BY <2>4 DEF TapGenerate, Move, IInv, ThreadsTyped, FlagTells, KeygenSingle, ButtonTells,
                NoneStored, Threads, Keygens, Pcs
  <2> QED BY <1>1, <2>1, <2>2, <2>3, <2>4 DEF IdentityNext
<1>2. ASSUME NEW n \in UserNames, PickName(n) PROVE IInv'
  BY <1>2, IdleOK DEF PickName, screen
<1>3. CASE EnterHome
  BY <1>3, EnsureOK DEF EnterHome, CreateHome, ResumeHome
<1>4. CASE LeaveCompanions
  BY <1>4, IdleOK DEF LeaveCompanions, LeaveHome
<1>5. CASE Reboot
  BY <1>5 DEF Reboot, RebootIdentity, IInv, ThreadsTyped, FlagTells, KeygenSingle, ButtonTells,
              NoneStored, Threads, Keygens, Pcs
<1>6. CASE UNCHANGED identityVars
  BY <1>6, IdleOK DEF identityVars, screen
<1> QED
  BY <1>1, <1>2, <1>3, <1>4, <1>5, <1>6
  DEF Next, vars, HearForeign, HearOwn, Advertise, RefreshRows, AddContact, RemoveContact

\* A pair that is stored is not replaced by a step, unless the button was pressed.
LEMMA KeptOK ==
  ASSUME IInv, [Next]_vars, key # NoKey, ~pressed
  PROVE  key' = key
<1>1. ASSUME NEW t \in Threads, Generate(t) PROVE key' = key
  <2>1. CASE Commit(t)
    BY <2>1 DEF Commit, IInv, ButtonTells, NoneStored, Threads, Keygens
  <2> QED
    BY <1>1, <2>1 DEF Generate, MakePair, MakeFails, ReadName, Rename, Tell, Lower
<1>2. CASE IdentityNext
  BY <1>1, <1>2 DEF IdentityNext, StartService, RefreshIdentity, TapGenerate
<1> QED
  BY <1>2 DEF Next, vars, identityVars, HearForeign, HearOwn, Advertise, RefreshRows, AddContact,
              RemoveContact, EnterHome, CreateHome, ResumeHome, LeaveCompanions, LeaveHome, Reboot,
              RebootIdentity, PickName

-----------------------------------------------------------------------------
\* The invariant holds in every reachable state.
THEOREM IInvIsInvariant == Spec => []IInv
BY InitOK, StepOK, PTL DEF Spec

\* A node keeps the key pair it has: ensure_identity never replaces one that is
\* stored, for any number of pairs, starts, restarts and adverts.
THEOREM KeyIsKept == Spec => IdentityIsKept
<1>1. IInv /\ [Next]_vars => [key # NoKey /\ ~pressed => key' = key]_identityVars
  BY KeptOK
<1> QED
  BY <1>1, IInvIsInvariant, PTL DEF Spec, IdentityIsKept

(***************************************************************************)
(* The companions and the contacts.                                         *)
(*                                                                         *)
(* Sequences, first: the parts of a payload.                                *)
(***************************************************************************)
\* The part of a sequence from m to n.
LEMMA PartFacts ==
  ASSUME NEW S, NEW s \in Seq(S), NEW m \in Nat \ {0}, NEW n \in 0..Len(s)
  PROVE  /\ SubSeq(s, m, n) \in Seq(S)
         /\ Len(SubSeq(s, m, n)) = IF m <= n THEN n - m + 1 ELSE 0
         /\ \A i \in 1..(n - m + 1) : SubSeq(s, m, n)[i] = s[m + i - 1]
<1>1. /\ m \in Int /\ n \in Int /\ Len(s) \in Nat
      /\ \A i \in m..n : s[i] \in S
  OBVIOUS
<1> QED
  BY <1>1, SubSeqProperties

\* Two sequences, one after the other.
LEMMA JoinFacts ==
  ASSUME NEW S, NEW s \in Seq(S), NEW t \in Seq(S)
  PROVE  /\ s \o t \in Seq(S)
         /\ Len(s \o t) = Len(s) + Len(t) /\ Len(s) \in Nat /\ Len(t) \in Nat
OBVIOUS

LEMMA FirstFacts ==
  ASSUME NEW S, NEW s \in Seq(S), NEW t \in Seq(S), Len(s) > 0
  PROVE  SubSeq(s \o t, 1, Len(s)) = s
<1>1. 1 \in 1..Len(s) /\ Len(s) \in 1..Len(s)
  OBVIOUS
<1>2. SubSeq(s \o t, 1, Len(s)) = SubSeq(s, 1, Len(s))
  BY <1>1, SubSeqOfConcat1
<1> QED
  BY <1>2, SubSeqFull

\* What follows the first part of a sequence.
LEMMA RestFacts ==
  ASSUME NEW S, NEW s \in Seq(S), NEW t \in Seq(S)
  PROVE  SubSeq(s \o t, Len(s) + 1, Len(s \o t)) = t
<1>1. /\ s \o t \in Seq(S) /\ Len(s \o t) = Len(s) + Len(t)
      /\ Len(s) \in Nat /\ Len(t) \in Nat
  OBVIOUS
<1>2. CASE Len(t) = 0
  <2>1. t = <<>>
    BY <1>2
  <2>2. Len(s \o t) < Len(s) + 1 /\ Len(s) + 1 \in Int /\ Len(s \o t) \in Int
    BY <1>1, <1>2
  <2> QED
    BY <2>1, <2>2, SubSeqEmpty
<1>3. CASE Len(t) > 0
  <2>1. /\ Len(s) + 1 \in (Len(s) + 1)..(Len(s) + Len(t))
        /\ Len(s \o t) \in (Len(s) + 1)..(Len(s) + Len(t))
        /\ Len(s) + 1 - Len(s) = 1 /\ Len(s \o t) - Len(s) = Len(t)
    BY <1>1, <1>3
  <2>2. SubSeq(s \o t, Len(s) + 1, Len(s \o t)) = SubSeq(t, 1, Len(t))
    BY <2>1, SubSeqOfConcat2
  <2> QED
    BY <2>2, SubSeqFull
<1> QED
  BY <1>1, <1>2, <1>3

\* A part of the first of two sequences.
LEMMA FirstPart ==
  ASSUME NEW S, NEW s \in Seq(S), NEW t \in Seq(S), NEW n \in 1..Len(s)
  PROVE  SubSeq(s \o t, 1, n) = SubSeq(s, 1, n)
<1>1. 1 \in 1..Len(s)
  OBVIOUS
<1> QED
  BY <1>1, SubSeqOfConcat1

\* A header, an element and the rest.
LEMMA HeaderFacts ==
  ASSUME NEW S, NEW h \in Seq(S), NEW x \in S, NEW t \in Seq(S)
  PROVE  /\ h \o (<<x>> \o t) \in Seq(S) /\ Len(h \o (<<x>> \o t)) = Len(h) + 1 + Len(t)
         /\ (h \o (<<x>> \o t))[Len(h) + 1] = x
         /\ \A n \in 1..Len(h) : SubSeq(h \o (<<x>> \o t), 1, n) = SubSeq(h, 1, n)
         /\ SubSeq(h \o (<<x>> \o t), Len(h) + 2, Len(h \o (<<x>> \o t))) = t
<1> DEFINE p == h \o (<<x>> \o t)
           q == h \o <<x>>
           r == <<x>> \o t
<1>1. <<x>> \in Seq(S) /\ q \in Seq(S) /\ Len(q) = Len(h) + 1 /\ r \in Seq(S)
  OBVIOUS
<1>2. h \o (<<x>> \o t) = (h \o <<x>>) \o t
  BY <1>1, ConcatAssociative
<1>3. p = q \o t /\ p = h \o r /\ p[Len(h) + 1] = x
  BY <1>1, <1>2
<1> HIDE DEF p, q, r
<1>4. p \in Seq(S) /\ Len(p) = Len(q) + Len(t)
  BY <1>1, <1>3, JoinFacts
<1>5. \A n \in 1..Len(h) : SubSeq(p, 1, n) = SubSeq(h, 1, n)
  BY <1>1, <1>3, FirstPart
<1>6. SubSeq(p, Len(q) + 1, Len(p)) = t
  BY <1>1, <1>3, RestFacts
<1>7. Len(h) \in Nat /\ Len(t) \in Nat
  OBVIOUS
<1>8. Len(q) + 1 = Len(h) + 2
  BY <1>1, <1>7
<1> QED
  <2>1. p \in Seq(S) /\ Len(p) = Len(h) + 1 + Len(t)
    BY <1>1, <1>4, <1>7
  <2>2. SubSeq(p, Len(h) + 2, Len(p)) = t
    BY <1>6, <1>8
  <2> QED
    BY <1>3, <1>5, <2>1, <2>2 DEF p

\* Three parts that make a header.
LEMMA ThreeFacts ==
  ASSUME NEW S, NEW a \in Seq(S), NEW b \in Seq(S), NEW c \in Seq(S), Len(a) > 0
  PROVE  /\ a \o b \o c \in Seq(S) /\ Len(a \o b \o c) = Len(a) + Len(b) + Len(c)
         /\ Len(a) \in 1..Len(a \o b \o c)
         /\ SubSeq(a \o b \o c, 1, Len(a)) = a
<1>0. PICK h : h = a \o b \o c
  OBVIOUS
<1>1. PICK d : d = a \o b
  OBVIOUS
<1>2. d \in Seq(S) /\ Len(d) = Len(a) + Len(b) /\ Len(a) \in Nat /\ Len(b) \in Nat
  BY <1>1, JoinFacts
<1>3. h = d \o c
  BY <1>0, <1>1
<1>4. h \in Seq(S) /\ Len(h) = Len(d) + Len(c) /\ Len(c) \in Nat
  BY <1>2, <1>3, JoinFacts
<1>5. Len(a) \in 1..Len(d) /\ Len(a) \in 1..Len(h)
  BY <1>2, <1>4
<1>6. SubSeq(h, 1, Len(a)) = SubSeq(d, 1, Len(a))
  BY <1>2, <1>3, <1>5, FirstPart
<1>7. SubSeq(d, 1, Len(a)) = a
  BY <1>1, FirstFacts
<1> QED
  BY <1>0, <1>2, <1>4, <1>5, <1>6, <1>7

\* A sequence that is cut at a length.
LEMMA CutFacts ==
  ASSUME NEW S, NEW s \in Seq(S), NEW max \in Nat,
         NEW cut, cut = SubSeq(s, 1, IF Len(s) < max THEN Len(s) ELSE max)
  PROVE  /\ cut \in Seq(S) /\ Len(cut) <= max /\ Len(cut) <= Len(s)
         /\ \A i \in 1..Len(cut) : cut[i] = s[i]
         /\ cut = s \/ Len(cut) = max
<1>1. CASE Len(s) < max
  <2>1. cut = s
    BY <1>1, SubSeqFull
  <2>2. Len(s) \in Nat /\ Len(s) <= max /\ Len(s) <= Len(s)
    BY <1>1
  <2>3. cut \in Seq(S) /\ Len(cut) <= max /\ Len(cut) <= Len(s)
    BY <2>1, <2>2, ZenonT(30)
  <2>4. \A i \in 1..Len(cut) : cut[i] = s[i]
    BY <2>1
  <2> QED
    BY <2>1, <2>3, <2>4
<1>2. CASE ~(Len(s) < max)
  <2>1. cut = SubSeq(s, 1, max)
    BY <1>2
  <2>2. max \in 0..Len(s)
    BY <1>2
  <2>3. cut \in Seq(S) /\ Len(cut) = max /\ \A i \in 1..max : cut[i] = s[i]
    BY <2>1, <2>2, PartFacts
  <2> QED
    BY <2>2, <2>3
<1> QED
  BY <1>1, <1>2

\* A payload whose name follows the flags.
Payload(pub, time, zeros, flags, cut) == (pub \o time \o zeros) \o (<<flags>> \o cut)

-----------------------------------------------------------------------------
(* Adverts.                                                                *)

USE DEF PUB_KEY_SIZE, SIGNATURE_SIZE, HEADER_LEN, MAX_ADVERT_DATA_SIZE, NameRoom

\* What parse_advert makes of a payload that has more than the header.
Parsed(payload, flags) ==
  [pub  |-> SubSeq(payload, 1, PUB_KEY_SIZE),
   type |-> flags % 16,
   name |-> IF Has(flags, ADV_NAME_MASK)
            THEN SubSeq(payload, HEADER_LEN + NameAt(flags), Len(payload)) ELSE <<>>]

LEMMA ParseFacts ==
  ASSUME NEW payload \in Seq(Nat), Len(payload) > HEADER_LEN
  PROVE  /\ ParseAdvert(payload) = Parsed(payload, payload[HEADER_LEN + 1])
         /\ ParseAdvert(payload) # BadAdvert
<1> DEFINE app   == SubSeq(payload, HEADER_LEN + 1, Len(payload))
           flags == payload[HEADER_LEN + 1]
           k     == NameAt(flags)
<1>1. Len(payload) \in Nat /\ HEADER_LEN + 1 \in 1..Len(payload) /\ flags \in Nat
  OBVIOUS
<1>2. /\ app \in Seq(Nat) /\ Len(app) = Len(payload) - HEADER_LEN /\ Len(app) \in Nat /\ Len(app) > 0
      /\ app[1] = flags
  BY <1>1, PartFacts
<1>3. k \in Nat \ {0, 1}
  BY DEF NameAt
<1>4. SubSeq(app, k, Len(app)) = SubSeq(payload, HEADER_LEN + k, Len(payload))
  <2> HIDE DEF k, app
  <2>1. CASE k <= Len(app)
    <3>1. /\ k \in 1..(Len(payload) - (HEADER_LEN + 1) + 1)
          /\ Len(app) \in 1..(Len(payload) - (HEADER_LEN + 1) + 1)
          /\ HEADER_LEN + 1 + k - 1 = HEADER_LEN + k
          /\ HEADER_LEN + 1 + Len(app) - 1 = Len(payload)
          /\ Len(payload) \in 1..Len(payload)
      BY <1>1, <1>2, <1>3, <2>1
    <3> QED
      BY <1>1, <3>1, SubSeqOfSubSeq DEF app
  <2>2. CASE ~(k <= Len(app))
    <3>1. /\ Len(app) < k /\ Len(payload) < HEADER_LEN + k
          /\ k \in Int /\ Len(app) \in Int /\ HEADER_LEN + k \in Int /\ Len(payload) \in Int
      BY <1>1, <1>2, <1>3, <2>2, SMTT(20)
    <3>2. SubSeq(app, k, Len(app)) = <<>>
      BY <3>1, SubSeqEmpty
    <3>3. SubSeq(payload, HEADER_LEN + k, Len(payload)) = <<>>
      BY <3>1, SubSeqEmpty
    <3> QED
      BY <3>2, <3>3
  <2> QED
    BY <2>1, <2>2
<1>5. /\ SubSeq(payload, 1, PUB_KEY_SIZE) \in Seq(Nat) /\ flags % 16 \in Nat
      /\ SubSeq(payload, HEADER_LEN + k, Len(payload)) \in Seq(Nat) /\ <<>> \in Seq(Nat)
  <2>1. 1 \in Nat \ {0} /\ HEADER_LEN + k \in Nat \ {0} /\ PUB_KEY_SIZE \in 0..Len(payload)
        /\ Len(payload) \in 0..Len(payload)
    BY <1>1, <1>3
  <2> HIDE DEF k
  <2>2. SubSeq(payload, 1, PUB_KEY_SIZE) \in Seq(Nat)
    BY <2>1, PartFacts
  <2>3. SubSeq(payload, HEADER_LEN + k, Len(payload)) \in Seq(Nat)
    BY <2>1, PartFacts
  <2>4. <<>> \in Seq(Nat)
    OBVIOUS
  <2>5. flags % 16 \in Nat
    <3> HIDE DEF flags
    <3> QED
      BY <1>1
  <2> QED
    BY <2>2, <2>3, <2>4, <2>5
<1>6. ParseAdvert(payload) = Parsed(payload, flags)
  <2>1. ~(Len(payload) < HEADER_LEN)
    BY <1>1
  <2>2. app # <<>>
    <3> HIDE DEF app
    <3> QED
      BY <1>2
  <2> HIDE DEF k
  <2> QED
    BY <1>2, <1>4, <2>1, <2>2 DEF ParseAdvert, Parsed, k
<1>7. Parsed(payload, flags) \in [pub : Seq(Nat), type : Nat, name : Seq(Nat)]
  BY <1>5 DEF Parsed
<1> QED
  BY <1>6, <1>7, AdvertAssumption

\* A foreign advert is understood as its sender means it.
LEMMA ForeignIsRead ==
  ASSUME NEW f \in Foreign
  PROVE  /\ f.chat => /\ ParseAdvert(f.bytes) # BadAdvert
                      /\ ParseAdvert(f.bytes) =
                           [pub |-> f.pub, type |-> ADV_TYPE_CHAT, name |-> f.name]
         /\ ~f.chat => \/ ParseAdvert(f.bytes) = BadAdvert
                       \/ ParseAdvert(f.bytes).type # ADV_TYPE_CHAT
<1> DEFINE adv   == ParseAdvert(f.bytes)
           flags == f.bytes[HEADER_LEN + 1]
<1>1. f.bytes \in Seq(Nat) /\ f.name \in Seq(Nat) /\ Len(f.bytes) \in Nat
  BY ForeignAssumption
<1>2. CASE f.chat
  <2>1. /\ Len(f.bytes) > HEADER_LEN /\ flags % 16 = ADV_TYPE_CHAT
        /\ SaysName(f, flags) \/ SaysNoName(f, flags)
        /\ f.pub = SubSeq(f.bytes, 1, PUB_KEY_SIZE)
    BY <1>2, ForeignAssumption
  <2>2. ParseAdvert(f.bytes) = Parsed(f.bytes, flags) /\ ParseAdvert(f.bytes) # BadAdvert
    BY <1>1, <2>1, ParseFacts
  <2>3. NameAt(flags) \in Nat \ {0, 1}
    BY DEF NameAt
  <2> DEFINE end == FieldsEnd(flags)
  <2>4. end \in Nat \ {0} /\ HEADER_LEN + NameAt(flags) = end + 1
    BY <2>3 DEF FieldsEnd
  <2> HIDE DEF end, flags
  <2>5. CASE SaysName(f, flags)
    <3> DEFINE first == SubSeq(f.bytes, 1, end)
    <3>1. /\ Has(flags, ADV_NAME_MASK) /\ end \in 0..Len(f.bytes)
          /\ f.bytes = first \o f.name
      BY <1>1, <2>4, <2>5 DEF SaysName, end
    <3>2. first \in Seq(Nat) /\ Len(first) = end
      BY <1>1, <2>4, <3>1, PartFacts
    <3> HIDE DEF first
    <3>4. SubSeq(f.bytes, end + 1, Len(f.bytes)) = f.name
      BY <1>1, <3>1, <3>2, RestFacts
    <3> QED
      BY <1>2, <2>1, <2>2, <2>4, <3>1, <3>4 DEF Parsed
  <2>6. CASE SaysNoName(f, flags)
    <3>1. Has(flags, ADV_NAME_MASK) => SubSeq(f.bytes, end + 1, Len(f.bytes)) = <<>>
      <4> SUFFICES ASSUME Has(flags, ADV_NAME_MASK)
                   PROVE  SubSeq(f.bytes, end + 1, Len(f.bytes)) = <<>>
        OBVIOUS
      <4>1. Len(f.bytes) < end + 1 /\ end + 1 \in Int /\ Len(f.bytes) \in Int
        BY <1>1, <2>4, <2>6 DEF SaysNoName, end
      <4> QED
        BY <4>1, SubSeqEmpty
    <3>2. f.name = <<>>
      BY <2>6 DEF SaysNoName, NoName
    <3> QED
      BY <1>2, <2>1, <2>2, <2>4, <3>1, <3>2 DEF Parsed
  <2> QED
    BY <2>1, <2>5, <2>6
<1>3. CASE ~f.chat
  <2>1. CASE Len(f.bytes) > HEADER_LEN
    <3>1. Len(f.bytes) <= HEADER_LEN \/ flags % 16 # ADV_TYPE_CHAT
      BY <1>3, ForeignAssumption
    <3>2. flags % 16 # ADV_TYPE_CHAT
      BY <1>1, <2>1, <3>1
    <3>3. ParseAdvert(f.bytes) = Parsed(f.bytes, flags)
      BY <1>1, <2>1, ParseFacts
    <3>4. adv.type # ADV_TYPE_CHAT
      <4> HIDE DEF flags
      <4> QED
        BY <3>2, <3>3 DEF Parsed
    <3> QED
      BY <1>3, <3>4
  <2>2. CASE ~(Len(f.bytes) > HEADER_LEN) /\ ~(Len(f.bytes) < HEADER_LEN)
    <3>1. SubSeq(f.bytes, HEADER_LEN + 1, Len(f.bytes)) = <<>>
      <4>1. Len(f.bytes) < HEADER_LEN + 1 /\ HEADER_LEN + 1 \in Int /\ Len(f.bytes) \in Int
        BY <1>1, <2>2
      <4> QED
        BY <4>1, SubSeqEmpty
    <3>2. adv.type # ADV_TYPE_CHAT
      BY <2>2, <3>1 DEF ParseAdvert, ADV_TYPE_NONE, ADV_TYPE_CHAT
    <3> QED
      BY <1>3, <3>2
  <2>3. CASE Len(f.bytes) < HEADER_LEN
    BY <1>3, <2>3 DEF ParseAdvert
  <2> QED
    BY <2>1, <2>2, <2>3
<1> QED
  BY <1>2, <1>3

LEMMA PayloadIsRead ==
  ASSUME NEW pub \in Seq(Nat), Len(pub) = PUB_KEY_SIZE,
         NEW time \in Seq(Nat), Len(time) = 4,
         NEW zeros \in Seq(Nat), Len(zeros) = SIGNATURE_SIZE,
         NEW flags \in Nat, Has(flags, ADV_NAME_MASK), NameAt(flags) = 2,
         NEW cut \in Seq(Nat), Len(cut) <= NameRoom
  PROVE  LET p == Payload(pub, time, zeros, flags, cut)
         IN  /\ ParseAdvert(p) # BadAdvert
             /\ ParseAdvert(p) = [pub |-> pub, type |-> flags % 16, name |-> cut]
             /\ Len(p) <= HEADER_LEN + MAX_ADVERT_DATA_SIZE
<1>1. PICK h : h = pub \o time \o zeros
  OBVIOUS
<1>2. h \in Seq(Nat) /\ Len(h) = 100 /\ SubSeq(h, 1, 32) = pub /\ 32 \in 1..Len(h)
  <2>1. Len(pub) > 0
    OBVIOUS
  <2>2. LET g == pub \o time \o zeros
        IN  /\ g \in Seq(Nat) /\ Len(g) = Len(pub) + Len(time) + Len(zeros)
            /\ Len(pub) \in 1..Len(g) /\ SubSeq(g, 1, Len(pub)) = pub
    BY ONLY <2>1, pub \in Seq(Nat), time \in Seq(Nat), zeros \in Seq(Nat), ThreeFacts
  <2>3. /\ h \in Seq(Nat) /\ Len(h) = Len(pub) + Len(time) + Len(zeros)
        /\ Len(pub) \in 1..Len(h) /\ SubSeq(h, 1, Len(pub)) = pub
    BY <1>1, <2>2
  <2> QED
    BY <2>3
<1>3. PICK p : p = h \o (<<flags>> \o cut)
  OBVIOUS
<1>7. /\ p \in Seq(Nat) /\ Len(p) = HEADER_LEN + 1 + Len(cut) /\ Len(cut) \in Nat
      /\ p[HEADER_LEN + 1] = flags
      /\ SubSeq(p, 1, PUB_KEY_SIZE) = pub
      /\ SubSeq(p, HEADER_LEN + 2, Len(p)) = cut
  <2>1. h \in Seq(Nat)
    BY <1>2
  <2>2. LET q == h \o (<<flags>> \o cut)
        IN  /\ q \in Seq(Nat) /\ Len(q) = Len(h) + 1 + Len(cut)
            /\ q[Len(h) + 1] = flags
            /\ \A i \in 1..Len(h) : SubSeq(q, 1, i) = SubSeq(h, 1, i)
            /\ SubSeq(q, Len(h) + 2, Len(q)) = cut
    BY ONLY <2>1, flags \in Nat, cut \in Seq(Nat), HeaderFacts
  <2>3. /\ p \in Seq(Nat) /\ Len(p) = Len(h) + 1 + Len(cut)
        /\ p[Len(h) + 1] = flags
        /\ \A i \in 1..Len(h) : SubSeq(p, 1, i) = SubSeq(h, 1, i)
        /\ SubSeq(p, Len(h) + 2, Len(p)) = cut
    BY <1>3, <2>2
  <2>4. Len(cut) \in Nat
    OBVIOUS
  <2>5. Len(h) + 1 = HEADER_LEN + 1 /\ Len(h) + 2 = HEADER_LEN + 2
    BY <1>2
  <2>6. SubSeq(p, 1, PUB_KEY_SIZE) = pub
    BY <1>2, <2>3
  <2> QED
    BY <2>3, <2>4, <2>5, <2>6, Zenon
<1>8. p = Payload(pub, time, zeros, flags, cut)
  BY <1>1, <1>3 DEF Payload
<1>4. Len(p) > HEADER_LEN /\ Len(p) <= HEADER_LEN + MAX_ADVERT_DATA_SIZE
  <2>1. Len(cut) \in Nat /\ Len(cut) <= 31 /\ Len(p) = 101 + Len(cut)
    BY <1>7
  <2>2. Len(p) > 100 /\ Len(p) <= 132
    BY ONLY <2>1
  <2>3. HEADER_LEN = 100 /\ HEADER_LEN + MAX_ADVERT_DATA_SIZE = 132
    OBVIOUS
  <2> QED
    BY <2>2, <2>3
<1>5. ParseAdvert(p) = Parsed(p, flags) /\ ParseAdvert(p) # BadAdvert
  BY <1>7, <1>4, ParseFacts
<1>6. Parsed(p, flags) = [pub |-> pub, type |-> flags % 16, name |-> cut]
  BY <1>7 DEF Parsed
<1> QED
  BY <1>4, <1>5, <1>6, <1>8

\* An advert of ours is understood as we mean it, with a name that the cap may cut.
OurAdvert(k, n) == AssembleAdvertPayload(Pub(k), 1, BuildAdvertAppdata(ADV_TYPE_CHAT, n))

LEMMA OwnIsRead ==
  ASSUME NEW k \in Nat, k # NoKey, NEW n \in Seq(Nat), n # <<>>
  PROVE  /\ ParseAdvert(OurAdvert(k, n)) # BadAdvert
         /\ ParseAdvert(OurAdvert(k, n)) =
              [pub |-> Pub(k), type |-> ADV_TYPE_CHAT, name |-> CutName(n)]
         /\ Len(OurAdvert(k, n)) <= HEADER_LEN + MAX_ADVERT_DATA_SIZE
<1> DEFINE pub   == Pub(k)
           time  == LittleEndian(1)
           zeros == Repeated(0, SIGNATURE_SIZE)
           flags == ADV_TYPE_CHAT + ADV_NAME_MASK
           cut   == CutName(n)
<1>1. pub \in Seq(Nat) /\ Len(pub) = PUB_KEY_SIZE
  BY DEF Pub, Repeated
<1>2. zeros \in Seq(Nat) /\ Len(zeros) = SIGNATURE_SIZE
  BY DEF Repeated
<1>3. time \in Seq(Nat) /\ Len(time) = 4
  BY DEF LittleEndian
<1>4. cut \in Seq(Nat) /\ Len(cut) <= NameRoom
  BY CutFacts DEF CutName
<1>5. flags \in Nat /\ flags % 16 = ADV_TYPE_CHAT /\ Has(flags, ADV_NAME_MASK) /\ NameAt(flags) = 2
  BY DEF ADV_TYPE_CHAT, ADV_NAME_MASK, Has, NameAt, ADV_LATLON_MASK, ADV_FEAT1_MASK, ADV_FEAT2_MASK
<1>6. OurAdvert(k, n) = Payload(pub, time, zeros, flags, cut)
  BY DEF OurAdvert, AssembleAdvertPayload, BuildAdvertAppdata, Payload
<1> HIDE DEF pub, time, zeros, flags, cut
<1> DEFINE p == Payload(pub, time, zeros, flags, cut)
<1>7. /\ ParseAdvert(p) # BadAdvert
      /\ ParseAdvert(p) = [pub |-> pub, type |-> flags % 16, name |-> cut]
      /\ Len(p) <= HEADER_LEN + MAX_ADVERT_DATA_SIZE
  BY <1>1, <1>2, <1>3, <1>4, <1>5, PayloadIsRead
<1> HIDE DEF p
<1>8. OurAdvert(k, n) = p
  BY <1>6 DEF p
<1> QED
  BY <1>5, <1>7, <1>8 DEF pub, cut

HIDE DEF PUB_KEY_SIZE, SIGNATURE_SIZE, HEADER_LEN, MAX_ADVERT_DATA_SIZE, NameRoom

-----------------------------------------------------------------------------
(* What the tables say of each other, of what was advertised and of the     *)
(* identity.                                                               *)

\* The key pairs are those that were made.
PairsMade ==
  /\ made \in 0..PAIRS
  /\ key \in 1..made \cup {NoKey}
  /\ name \in UserNames \cup {NoName} \cup {BadgeName(k) : k \in 1..made}
  /\ fresh \in [Threads -> 1..made \cup {NoKey}]
  /\ gpc \in [Threads -> {"idle", "make", "commit", "name", "rename", "tell", "lower"}]
  /\ \A t \in Threads : gpc[t] \in {"commit", "name", "rename", "tell"} => fresh[t] # NoKey

FlagsTyped ==
  /\ keygenRunning \in BOOLEAN /\ busy \in BOOLEAN /\ genShown \in BOOLEAN
  /\ home \in BOOLEAN /\ refreshDue \in BOOLEAN /\ pressed \in BOOLEAN

\* What is in the air was ours.
AirIsOurs ==
  /\ \A a \in air : /\ a.key \in 1..made
                    /\ a.name \in Seq(Nat) /\ a.name # <<>>
                    /\ a.bytes = OurAdvert(a.key, a.name)
  /\ air # {} => key # NoKey

\* The table of the companions.
NodesKept ==
  /\ IsFiniteSet(DOMAIN nodes) /\ Cardinality(DOMAIN nodes) <= MAX_NODES
  /\ seq \in 0..HEARD
  /\ \A p \in DOMAIN nodes : nodes[p].seq \in 1..seq
  /\ \A p \in DOMAIN nodes : \A q \in DOMAIN nodes : nodes[p].seq = nodes[q].seq => p = q

\* What was advertised, and the table.
After(p) == {q \in DOMAIN nodes : nodes[q].seq > nodes[p].seq}

AdvertisedTyped ==
  \A p \in DOMAIN advertised :
    /\ advertised[p] = [name |-> advertised[p].name, after |-> advertised[p].after]
    /\ IsFiniteSet(advertised[p].after)

NodesAdvertised ==
  \A p \in DOMAIN nodes :
    /\ p \in DOMAIN advertised
    /\ nodes[p].name = advertised[p].name
    /\ advertised[p].after = After(p)

OthersPassed ==
  \A p \in DOMAIN advertised :
    p \notin DOMAIN nodes =>
      /\ DOMAIN nodes \subseteq advertised[p].after
      /\ Cardinality(DOMAIN nodes) = MAX_NODES

ContactsNamed ==
  /\ contacts = [p \in DOMAIN contacts |-> contacts[p]]
  /\ saved = contacts /\ contacts = called
  /\ \A p \in DOMAIN contacts : contacts[p] # NoName
  /\ \A row \in rows : row[2] # NoName

\* Keys that are known are those of others, while we made one pair only.
IsOther(p) == p # NoName /\ (made <= 1 => \A k \in 1..PAIRS : p # Pub(k))

OthersOnly ==
  /\ \A p \in DOMAIN nodes : IsOther(p)
  /\ \A p \in DOMAIN contacts : IsOther(p)
  /\ \A row \in rows : IsOther(row[1])

TablesInv == /\ PairsMade /\ FlagsTyped /\ AirIsOurs
             /\ NodesKept /\ AdvertisedTyped /\ NodesAdvertised /\ OthersPassed
             /\ ContactsNamed /\ OthersOnly

LEMMA CutNameFacts ==
  ASSUME NEW n \in Seq(Nat)
  PROVE  /\ IsPrefix(CutName(n), n)
         /\ CutName(n) = n \/ Len(CutName(n)) = MAX_ADVERT_DATA_SIZE - 1
<1>1. PICK cut : cut = CutName(n)
  OBVIOUS
<1>2. /\ cut \in Seq(Nat) /\ Len(cut) <= Len(n)
      /\ \A i \in 1..Len(cut) : cut[i] = n[i]
      /\ cut = n \/ Len(cut) = NameRoom
  <2>1. NameRoom \in Nat
    BY DEF NameRoom, MAX_ADVERT_DATA_SIZE
  <2> QED
    BY <1>1, <2>1, CutFacts DEF CutName
<1>3. IsPrefix(cut, n)
  <2>1. PICK k : k = Len(cut)
    OBVIOUS
  <2>2. k \in Nat /\ k <= Len(n) /\ \A i \in 1..k : n[i] = cut[i]
    BY <1>2, <2>1
  <2>3. SubSeq(n, 1, k) = SubSeq(cut, 1, k)
    BY <2>2
  <2> QED
    BY <1>2, <2>1, <2>3 DEF IsPrefix
<1> QED
  BY <1>1, <1>2, <1>3 DEF NameRoom

-----------------------------------------------------------------------------
(* The identity.                                                           *)

\* The identity goes on: pairs are made, and a node that has one keeps having one.
Onward == /\ PairsMade' /\ FlagsTyped'
          /\ made \in Nat /\ made' \in Nat /\ made <= made'
          /\ key # NoKey => key' # NoKey

LEMMA MadeFacts ==
  ASSUME PairsMade
  PROVE  made \in Nat /\ made <= PAIRS /\ made <= made /\ 1..made \subseteq 1..PAIRS /\ NoKey \notin 1..made
BY IdentityAssumption DEF PairsMade

\* What ensure_identity does to it, with whatever else the step does to the screen.
LEMMA EnsureOnward ==
  ASSUME PairsMade, FlagsTyped, EnsureIdentity, UNCHANGED <<key, name, fresh, made>>,
         busy' \in BOOLEAN, genShown' \in BOOLEAN, home' \in BOOLEAN, refreshDue' \in BOOLEAN,
         pressed' \in BOOLEAN
  PROVE  Onward
<1>1. keygenRunning' \in BOOLEAN
  BY DEF EnsureIdentity, FlagsTyped
<1>2. PairsMade'
  <2>1. CASE NeedsIdentity
    <3> DEFINE t == IF gpc["first"] = "idle" THEN "first" ELSE "second"
    <3>1. gpc' = [gpc EXCEPT ![t] = "make"]
      BY <2>1 DEF EnsureIdentity, Move
    <3> QED
      BY <3>1 DEF PairsMade
  <2>2. CASE ~NeedsIdentity
    BY <2>2 DEF EnsureIdentity, PairsMade
  <2> QED BY <2>1, <2>2
<1> QED
  BY <1>1, <1>2, MadeFacts DEF Onward, FlagsTyped

LEMMA GenerateOnward ==
  ASSUME PairsMade, FlagsTyped, NEW t \in Threads, Generate(t)
  PROVE  Onward
<1>1. FlagsTyped'
  BY DEF FlagsTyped, Generate, MakePair, MakeFails, Commit, ReadName, Rename, Tell, Lower, screen
<1>2. CASE MakePair(t)
  <2>1. made' = made + 1 /\ made \in Nat /\ made' \in Nat /\ made <= made' /\ made' \in 0..PAIRS
        /\ 1..made \subseteq 1..made' /\ made' \in 1..made'
    BY <1>2, IdentityAssumption DEF MakePair, PairsMade
  <2>2. made' # NoKey
    BY <2>1, IdentityAssumption
  <2>3. PairsMade'
    BY <1>2, <2>1, <2>2 DEF MakePair, Move, PairsMade
  <2> QED
    BY <1>1, <1>2, <2>1, <2>3 DEF Onward, MakePair
<1>3. CASE MakeFails(t)
  BY <1>1, <1>3, MadeFacts DEF MakeFails, Move, PairsMade, Onward
<1>4. CASE Commit(t)
  <2>1. key' \in {key, fresh[t]} /\ fresh[t] # NoKey /\ fresh[t] \in 1..made
    BY <1>4 DEF Commit, PairsMade
  <2> QED
    BY <1>1, <1>4, <2>1, MadeFacts DEF Commit, Move, PairsMade, Onward
<1>5. CASE ReadName(t)
  <2>1. fresh[t] # NoKey
    BY <1>5 DEF ReadName, PairsMade
  <2> QED
    BY <1>1, <1>5, <2>1, MadeFacts DEF ReadName, Move, PairsMade, Onward
<1>6. CASE Rename(t)
  <2>1. fresh[t] # NoKey /\ fresh[t] \in 1..made
    BY <1>6 DEF Rename, PairsMade
  <2> QED
    BY <1>1, <1>6, <2>1, MadeFacts DEF Rename, Move, PairsMade, Onward
<1>7. CASE Tell(t)
  BY <1>1, <1>7, MadeFacts DEF Tell, Move, PairsMade, Onward
<1>8. CASE Lower(t)
  BY <1>1, <1>8, MadeFacts DEF Lower, Move, PairsMade, Onward
<1> QED
  BY <1>2, <1>3, <1>4, <1>5, <1>6, <1>7, <1>8 DEF Generate

LEMMA StayOnward ==
  ASSUME PairsMade, FlagsTyped, UNCHANGED identityVars
  PROVE  Onward
BY MadeFacts DEF identityVars, screen, PairsMade, FlagsTyped, Onward

\* Every step of Identity goes on.
LEMMA IdentityOnward ==
  ASSUME PairsMade, FlagsTyped,
         \/ IdentityNext \/ \E n \in UserNames : PickName(n)
         \/ CreateHome \/ ResumeHome \/ LeaveHome \/ RebootIdentity
  PROVE  Onward
<1>1. CASE \E t \in Threads : Generate(t)
  BY <1>1, GenerateOnward
<1>2. CASE StartService
  BY <1>2, EnsureOnward DEF StartService, FlagsTyped, screen
<1>3. CASE RefreshIdentity
  <2>1. FlagsTyped'
    BY <1>3 DEF RefreshIdentity, FlagsTyped, ShowsButton
  <2> QED
    BY <1>3, <2>1, MadeFacts DEF RefreshIdentity, PairsMade, Onward
<1>4. CASE TapGenerate
  BY <1>4, MadeFacts DEF TapGenerate, Move, PairsMade, FlagsTyped, Onward
<1>5. ASSUME NEW n \in UserNames, PickName(n) PROVE Onward
  BY <1>5, MadeFacts DEF PickName, screen, PairsMade, FlagsTyped, Onward
<1>6. CASE CreateHome
  BY <1>6, EnsureOnward DEF CreateHome, FlagsTyped
<1>7. CASE ResumeHome
  BY <1>7, EnsureOnward DEF ResumeHome, FlagsTyped
<1>8. CASE LeaveHome
  BY <1>8, MadeFacts DEF LeaveHome, PairsMade, FlagsTyped, Onward
<1>9. CASE RebootIdentity
  BY <1>9, MadeFacts DEF RebootIdentity, PairsMade, FlagsTyped, Onward
<1> QED
  BY <1>1, <1>2, <1>3, <1>4, <1>5, <1>6, <1>7, <1>8, <1>9 DEF IdentityNext

-----------------------------------------------------------------------------
(* What is in the air.                                                     *)

\* What was ours stays ours as the identity goes on.
LEMMA AirStays ==
  ASSUME AirIsOurs, Onward, air' = air
  PROVE  AirIsOurs'
<1>1. 1..made \subseteq 1..made'
  BY DEF Onward
<1> QED
  BY <1>1 DEF AirIsOurs, Onward

\* So do the keys of others.
LEMMA OthersStay ==
  ASSUME Onward, NEW p, IsOther(p)
  PROVE  IsOther(p)'
<1>1. made' <= 1 => made <= 1
  BY DEF Onward
<1> QED
  BY <1>1 DEF IsOther

LEMMA PairIsNoOther ==
  ASSUME NEW k \in Nat, NEW j \in Nat, k # NoKey, j # NoKey, Pub(k) = Pub(j)
  PROVE  k = j
<1>1. Pub(k)[1] = k /\ Pub(j)[1] = j
  BY DEF Pub, Repeated, PUB_KEY_SIZE
<1> QED
  BY <1>1

LEMMA PubFacts ==
  ASSUME NEW k \in Nat, k # NoKey
  PROVE  Pub(k) \in Seq(Nat) /\ Len(Pub(k)) = PUB_KEY_SIZE /\ Pub(k) # NoName
BY DEF Pub, Repeated, NoName, PUB_KEY_SIZE

\* The name of a node that has a key is not empty.
LEMMA NicknameFacts ==
  ASSUME PairsMade, key # NoKey
  PROVE  Nickname \in Seq(Nat) /\ Nickname # <<>>
<1>1. \A k \in Nat : BadgeName(k) \in Seq(Nat) /\ BadgeName(k) # <<>>
  BY DEF BadgeName
<1>2. CASE name # NoName
  <2>1. name \in Seq(Nat)
    BY <1>1, <1>2, IdentityAssumption DEF PairsMade
  <2> QED
    BY <1>2, <2>1 DEF Nickname, NoName
<1>3. CASE name = NoName
  <2>1. key \in Nat /\ Nickname = BadgeName(key)
    BY <1>3 DEF PairsMade, Nickname
  <2> QED
    BY <1>1, <2>1
<1> QED
  BY <1>2, <1>3

\* An advert of ours is.
LEMMA AdvertiseAir ==
  ASSUME PairsMade, AirIsOurs, Advertise
  PROVE  AirIsOurs'
<1> DEFINE a == [key |-> key, name |-> Nickname, bytes |-> OurAdvert(key, Nickname)]
<1>1. air' = air \cup {a} /\ key' = key /\ made' = made /\ key # NoKey
  BY DEF Advertise, OurAdvert, identityVars
<1>2. key \in 1..made /\ Nickname \in Seq(Nat) /\ Nickname # <<>>
  BY <1>1, NicknameFacts DEF PairsMade
<1>3. /\ a.key \in 1..made /\ a.name \in Seq(Nat) /\ a.name # <<>>
      /\ a.bytes = OurAdvert(a.key, a.name)
  BY <1>2
<1> HIDE DEF a
<1> QED
  BY <1>1, <1>3 DEF AirIsOurs

\* How an advert in the air is read: it is heard as a companion's if it is not of
\* the key pair we have.
LEMMA AirIsRead ==
  ASSUME PairsMade, AirIsOurs, NEW a \in air
  PROVE  /\ ParseAdvert(a.bytes) # BadAdvert
         /\ ParseAdvert(a.bytes) =
              [pub |-> Pub(a.key), type |-> ADV_TYPE_CHAT, name |-> CutName(a.name)]
         /\ Len(a.bytes) <= HEADER_LEN + MAX_ADVERT_DATA_SIZE
         /\ IsOwn(ParseAdvert(a.bytes)) <=> a.key = key
         /\ Pub(a.key) # NoName
<1>1. /\ a.key \in Nat /\ a.key # NoKey /\ a.name \in Seq(Nat) /\ a.name # <<>>
      /\ a.bytes = OurAdvert(a.key, a.name)
      /\ key # NoKey /\ key \in Nat
  BY MadeFacts DEF AirIsOurs, PairsMade
<1>2. /\ ParseAdvert(a.bytes) # BadAdvert
      /\ ParseAdvert(a.bytes) =
           [pub |-> Pub(a.key), type |-> ADV_TYPE_CHAT, name |-> CutName(a.name)]
      /\ Len(a.bytes) <= HEADER_LEN + MAX_ADVERT_DATA_SIZE
  BY <1>1, OwnIsRead
<1>3. ParseAdvert(a.bytes).pub = Pub(a.key)
  BY <1>2
<1>4. IsOwn(ParseAdvert(a.bytes)) <=> a.key = key
  BY <1>1, <1>3, PairIsNoOther DEF IsOwn
<1> QED
  BY <1>1, <1>2, <1>4, PubFacts

-----------------------------------------------------------------------------
(* What is heard.                                                          *)

\* Companion pub advertised name n, or what was heard is no companion's.
Table(pub, n) ==
  LET heard == Put(nodes, pub, [name |-> n, seq |-> seq + 1])
  IN  IF pub \in DOMAIN nodes THEN heard ELSE Evicted(heard)

Renames(pub, n) == pub \in DOMAIN contacts /\ n \notin {NoName, contacts[pub]}

Learns(pub, n) ==
  /\ seq' = seq + 1
  /\ nodes' = Table(pub, n)
  /\ IF Renames(pub, n)
     THEN contacts' = [contacts EXCEPT ![pub] = n] /\ saved' = contacts'
     ELSE UNCHANGED <<contacts, saved>>
  /\ Note(pub, n)

LearnsNothing == UNCHANGED <<nodes, seq, contacts, saved, history>>

LEMMA HandleLearns ==
  ASSUME NEW pub, NEW n, NEW payload,
         ParseAdvert(payload) # BadAdvert,
         ParseAdvert(payload) = [pub |-> pub, type |-> ADV_TYPE_CHAT, name |-> n],
         ~IsOwn(ParseAdvert(payload)), HandleAdvert(payload), Note(pub, n)
  PROVE  Learns(pub, n)
<1> DEFINE adv == ParseAdvert(payload)
<1>1. adv.pub = pub /\ adv.type = ADV_TYPE_CHAT /\ adv.name = n
  OBVIOUS
<1>2. /\ seq' = seq + 1
      /\ nodes' = IF adv.pub \in DOMAIN nodes THEN Heard(adv) ELSE Evicted(Heard(adv))
      /\ RenameContact(adv)
  BY <1>1 DEF HandleAdvert
<1> HIDE DEF adv
<1>3. Heard(adv) = Put(nodes, pub, [name |-> n, seq |-> seq + 1])
  BY <1>1 DEF Heard
<1>4. nodes' = Table(pub, n)
  BY <1>1, <1>2, <1>3 DEF Table
<1>5. IF Renames(pub, n)
      THEN contacts' = [contacts EXCEPT ![pub] = n] /\ saved' = contacts'
      ELSE UNCHANGED <<contacts, saved>>
  BY <1>1, <1>2 DEF RenameContact, SaveContacts, Renames
<1> QED
  BY <1>2, <1>4, <1>5 DEF Learns

LEMMA HandleLearnsNothing ==
  ASSUME NEW payload, HandleAdvert(payload), UNCHANGED history,
         LET adv == ParseAdvert(payload)
         IN  adv = BadAdvert \/ IsOwn(adv) \/ adv.type # ADV_TYPE_CHAT
  PROVE  LearnsNothing
BY DEF HandleAdvert, LearnsNothing

\* What a node learns from a foreign advert is what its sender means.
LEMMA ForeignLearns ==
  ASSUME PairsMade, NEW f \in Foreign, HearForeign(f)
  PROVE  \/ LearnsNothing
         \/ IsOther(f.pub) /\ Learns(f.pub, f.name)
<1>1. CASE f.chat
  <2>1. /\ ParseAdvert(f.bytes) # BadAdvert
        /\ ParseAdvert(f.bytes) = [pub |-> f.pub, type |-> ADV_TYPE_CHAT, name |-> f.name]
    BY <1>1, ForeignIsRead
  <2>2. /\ f.bytes \in Seq(Nat) /\ Len(f.bytes) > HEADER_LEN
        /\ f.pub = SubSeq(f.bytes, 1, PUB_KEY_SIZE)
        /\ \A k \in 1..PAIRS : f.pub # Pub(k)
    BY <1>1, ForeignAssumption
  <2>3. f.pub # NoName
    <3>1. PUB_KEY_SIZE \in 0..Len(f.bytes) /\ PUB_KEY_SIZE = 32
      BY <2>2 DEF HEADER_LEN, PUB_KEY_SIZE, SIGNATURE_SIZE
    <3>2. Len(SubSeq(f.bytes, 1, PUB_KEY_SIZE)) = 32
      BY <2>2, <3>1, PartFacts
    <3>3. Len(f.pub) = 32
      BY <2>2, <3>2
    <3>4. Len(NoName) # 32
      BY DEF NoName
    <3> QED
      BY <3>3, <3>4
  <2>4. ParseAdvert(f.bytes).pub = f.pub
    BY <2>1
  <2>5. ~IsOwn(ParseAdvert(f.bytes))
    BY <2>2, <2>4, MadeFacts DEF IsOwn, PairsMade
  <2>6. HandleAdvert(f.bytes) /\ Note(f.pub, f.name)
    BY <1>1 DEF HearForeign
  <2>7. Learns(f.pub, f.name)
    BY <2>1, <2>5, <2>6, HandleLearns
  <2> QED
    BY <2>2, <2>3, <2>7 DEF IsOther
<1>2. CASE ~f.chat
  BY <1>2, ForeignIsRead, HandleLearnsNothing DEF HearForeign
<1> QED
  BY <1>1, <1>2

\* From one of our own we learn of an earlier key pair only.
LEMMA OwnLearns ==
  ASSUME PairsMade, AirIsOurs, NEW a \in air, HearOwn(a)
  PROVE  \/ LearnsNothing
         \/ IsOther(Pub(a.key)) /\ Learns(Pub(a.key), CutName(a.name))
<1>1. CASE a.key = key
  BY <1>1, AirIsRead, HandleLearnsNothing DEF HearOwn
<1>2. CASE a.key # key
  <2>1. HandleAdvert(a.bytes) /\ Note(Pub(a.key), CutName(a.name))
    BY <1>2 DEF HearOwn
  <2>2. Learns(Pub(a.key), CutName(a.name))
    BY <1>2, <2>1, AirIsRead, HandleLearns
  <2>3. made > 1
    BY <1>2, MadeFacts DEF AirIsOurs, PairsMade
  <2>4. ~(made <= 1)
    BY <2>3, MadeFacts
  <2>5. Pub(a.key) # NoName
    BY AirIsRead
  <2>6. IsOther(Pub(a.key))
    BY <2>4, <2>5, Zenon DEF IsOther
  <2> QED
    BY <2>2, <2>6
<1> QED
  BY <1>1, <1>2

-----------------------------------------------------------------------------
(* The table of the companions.                                            *)

LEMMA PutFacts ==
  ASSUME NEW table, NEW p, NEW v
  PROVE  /\ DOMAIN Put(table, p, v) = DOMAIN table \cup {p}
         /\ Put(table, p, v)[p] = v
         /\ \A q \in DOMAIN table : q # p => Put(table, p, v)[q] = table[q]
BY DEF Put

LEMMA LessIsWellFounded == IsWellFoundedOn({ss \in Nat \X Nat : ss[1] < ss[2]}, Nat)
BY NatLessThanWellFounded DEF OpToRel

\* A node that was heard the longest ago, among those of a table.
LEMMA OldestExists ==
  ASSUME NEW table, NEW p \in DOMAIN table, \A q \in DOMAIN table : table[q].seq \in Nat
  PROVE  \E o \in DOMAIN table : \A q \in DOMAIN table : table[o].seq <= table[q].seq
<1> DEFINE seqs == {table[q].seq : q \in DOMAIN table}
<1>1. seqs \in SUBSET Nat /\ table[p].seq \in seqs
  OBVIOUS
<1>2. \E m \in seqs : \A k \in seqs : m <= k
  <2>1. PICK m \in seqs : \A k \in seqs : ~ <<k, m>> \in {ss \in Nat \X Nat : ss[1] < ss[2]}
    <3> HIDE DEF seqs
    <3>1. seqs \subseteq Nat /\ seqs # {}
      BY <1>1
    <3> QED
      BY <3>1, LessIsWellFounded, WFMin
  <2> HIDE DEF seqs
  <2>2. ASSUME NEW k \in seqs PROVE m <= k
    <3>1. m \in Nat /\ k \in Nat
      BY <1>1, <2>1
    <3>2. ~(k < m)
      BY <2>1, <3>1
    <3> QED
      BY <3>1, <3>2
  <2> QED
    BY <2>1, <2>2
<1> QED
  BY <1>2

\* What the table becomes: the node is in it with what it advertised, as the last
\* one; out of it is the oldest, if it was full.
Outs(out, pub) ==
  \/ out = {} /\ (pub \in DOMAIN nodes \/ Cardinality(DOMAIN nodes) < MAX_NODES)
  \/ /\ pub \notin DOMAIN nodes /\ Cardinality(DOMAIN nodes) = MAX_NODES
     /\ \E o \in DOMAIN nodes : /\ out = {o}
                                /\ \A q \in DOMAIN nodes : nodes[o].seq <= nodes[q].seq

Becomes(table, out, pub, n) ==
  /\ Outs(out, pub)
  /\ DOMAIN table = (DOMAIN nodes \ out) \cup {pub}
  /\ table[pub] = [name |-> n, seq |-> seq + 1]
  /\ \A q \in DOMAIN nodes \ out : q # pub => table[q] = nodes[q]

LEMMA TableFacts ==
  ASSUME NodesKept, NEW pub, NEW n
  PROVE  \E out \in SUBSET DOMAIN nodes : Becomes(Table(pub, n), out, pub, n)
<1> DEFINE new   == [name |-> n, seq |-> seq + 1]
           heard == Put(nodes, pub, new)
           size  == Cardinality(DOMAIN nodes)
<1>1. /\ DOMAIN heard = DOMAIN nodes \cup {pub}
      /\ heard[pub] = new
      /\ \A q \in DOMAIN nodes : q # pub => heard[q] = nodes[q]
  <2> HIDE DEF new
  <2> QED
    BY DEF Put
<1>2. size \in Nat /\ size <= MAX_NODES /\ MAX_NODES \in Nat /\ MAX_NODES >= 1
  BY FS_CardinalityType, CompanionsAssumption DEF NodesKept
<1>3. seq \in Nat /\ seq + 1 \in Nat /\ new.seq = seq + 1
  BY CompanionsAssumption DEF NodesKept
<1> HIDE DEF new, heard
<1>4. CASE pub \in DOMAIN nodes
  <2>1. Table(pub, n) = heard /\ Outs({}, pub)
    BY <1>4 DEF Table, heard, new, Outs
  <2> QED
    BY <1>1, <2>1 DEF Becomes, new
<1>5. CASE pub \notin DOMAIN nodes
  <2>1. Table(pub, n) = Evicted(heard)
    BY <1>5 DEF Table, heard, new
  <2>2. Cardinality(DOMAIN heard) = size + 1
    BY <1>1, <1>5, FS_AddElement DEF NodesKept
  <2>3. CASE size < MAX_NODES
    <3>1. ~IsTooMany(heard)
      BY <1>2, <2>2, <2>3 DEF IsTooMany
    <3>2. Evicted(heard) = heard
      BY <3>1 DEF Evicted
    <3>3. Outs({}, pub)
      BY <2>3 DEF Outs
    <3> QED
      BY <1>1, <2>1, <3>2, <3>3 DEF Becomes, new
  <2>4. CASE ~(size < MAX_NODES)
    <3>1. size = MAX_NODES
      BY <1>2, <2>4
    <3>2. IsTooMany(heard)
      BY <1>2, <2>2, <3>1 DEF IsTooMany
    <3> DEFINE o == CHOOSE p \in DOMAIN heard : \A q \in DOMAIN heard : heard[p].seq <= heard[q].seq
    <3>3. Evicted(heard) = [p \in DOMAIN heard \ {o} |-> heard[p]]
      BY <3>2 DEF Evicted
    <3>4. \A q \in DOMAIN heard : heard[q].seq \in Nat
      BY <1>1, <1>3 DEF NodesKept
    <3>5. pub \in DOMAIN heard
      BY <1>1
    <3>6. \E p \in DOMAIN heard : \A q \in DOMAIN heard : heard[p].seq <= heard[q].seq
      BY <3>4, <3>5, OldestExists
    <3>7. o \in DOMAIN heard /\ \A q \in DOMAIN heard : heard[o].seq <= heard[q].seq
      BY <3>6
    <3> HIDE DEF o
    <3>8. o # pub
      <4>1. DOMAIN nodes # {}
        BY <1>2, <3>1, FS_EmptySet
      <4>2. PICK q \in DOMAIN nodes : TRUE
        BY <4>1
      <4>3. q # pub /\ q \in DOMAIN heard /\ heard[q].seq <= seq /\ heard[q].seq \in Nat
        BY <1>1, <1>3, <1>5, <4>2 DEF NodesKept
      <4>4. heard[pub].seq = seq + 1
        BY <1>1, <1>3
      <4>5. ~(seq + 1 <= heard[q].seq)
        BY <1>3, <4>3
      <4> QED
        BY <3>7, <4>3, <4>4, <4>5
    <3>9. o \in DOMAIN nodes /\ \A q \in DOMAIN nodes : nodes[o].seq <= nodes[q].seq
      BY <1>1, <1>5, <3>7, <3>8
    <3>10. Outs({o}, pub)
      BY <1>5, <3>1, <3>9 DEF Outs
    <3>11. Becomes(Evicted(heard), {o}, pub, n)
      <4>1. DOMAIN Evicted(heard) = (DOMAIN nodes \ {o}) \cup {pub}
        BY <1>1, <3>3, <3>8
      <4>2. Evicted(heard)[pub] = [name |-> n, seq |-> seq + 1]
        BY <1>1, <3>3, <3>5, <3>8 DEF new
      <4>3. \A q \in DOMAIN nodes \ {o} : q # pub => Evicted(heard)[q] = nodes[q]
        BY <1>1, <3>3
      <4> QED
        BY <3>10, <4>1, <4>2, <4>3 DEF Becomes
    <3> QED
      BY <2>1, <3>9, <3>11
  <2> QED
    BY <2>3, <2>4
<1> QED
  BY <1>4, <1>5

\* Companions are kept as what was advertised says.
LEMMA LearnsNodes ==
  ASSUME NodesKept, NodesAdvertised, OthersPassed, AdvertisedTyped,
         NEW pub, NEW n, Learns(pub, n)
  PROVE  NodesKept' /\ NodesAdvertised' /\ OthersPassed' /\ AdvertisedTyped'
<1>1. PICK out \in SUBSET DOMAIN nodes : Becomes(nodes', out, pub, n)
  BY TableFacts DEF Learns
<1>2. /\ Outs(out, pub)
      /\ DOMAIN nodes' = (DOMAIN nodes \ out) \cup {pub}
      /\ nodes'[pub] = [name |-> n, seq |-> seq + 1]
      /\ \A q \in DOMAIN nodes \ out : q # pub => nodes'[q] = nodes[q]
  BY <1>1 DEF Becomes
<1>3. /\ seq' = seq + 1 /\ seq < HEARD /\ seq \in Nat /\ seq' \in 0..HEARD /\ seq' \in 1..seq'
      /\ MAX_NODES \in Nat
  BY CompanionsAssumption DEF Learns, Note, NodesKept
<1>4. nodes'[pub].seq = seq' /\ nodes'[pub].name = n
  BY <1>2, <1>3
<1>5. \A q \in DOMAIN nodes : nodes[q].seq \in 1..seq /\ nodes[q].seq < seq' /\ nodes[q].seq \in Nat
  BY <1>3 DEF NodesKept
<1>6. /\ DOMAIN advertised' = DOMAIN advertised \cup {pub}
      /\ advertised'[pub] = [name |-> n, after |-> {}]
      /\ \A p \in DOMAIN advertised : p # pub =>
           advertised'[p] = [name |-> advertised[p].name, after |-> advertised[p].after \cup {pub}]
  <2> DEFINE marked == [p \in DOMAIN advertised |-> [advertised[p] EXCEPT !.after = @ \cup {pub}]]
  <2>1. advertised' = Put(marked, pub, [name |-> n, after |-> {}])
    BY DEF Learns, Note
  <2>2. DOMAIN marked = DOMAIN advertised
    OBVIOUS
  <2>3. \A p \in DOMAIN advertised :
          marked[p] = [name |-> advertised[p].name, after |-> advertised[p].after \cup {pub}]
    BY DEF AdvertisedTyped
  <2> HIDE DEF marked
  <2> QED
    BY <2>1, <2>2, <2>3 DEF Put
\* The table.
<1>7. /\ IsFiniteSet(DOMAIN nodes) /\ Cardinality(DOMAIN nodes) \in Nat
      /\ Cardinality(DOMAIN nodes) <= MAX_NODES
  BY FS_CardinalityType DEF NodesKept
<1>8. /\ IsFiniteSet(DOMAIN nodes') /\ Cardinality(DOMAIN nodes') <= MAX_NODES
      /\ out # {} => Cardinality(DOMAIN nodes') = MAX_NODES
  <2>1. CASE out = {}
    <3>1. DOMAIN nodes' = DOMAIN nodes \cup {pub}
      BY <1>2, <2>1
    <3>2. pub \in DOMAIN nodes \/ Cardinality(DOMAIN nodes) < MAX_NODES
      BY <1>2, <2>1 DEF Outs
    <3>3. /\ IsFiniteSet(DOMAIN nodes')
          /\ Cardinality(DOMAIN nodes') =
               IF pub \in DOMAIN nodes THEN Cardinality(DOMAIN nodes) ELSE Cardinality(DOMAIN nodes) + 1
      BY <1>7, <3>1, FS_AddElement
    <3> QED
      BY <1>3, <1>7, <2>1, <3>2, <3>3
  <2>2. CASE out # {}
    <3>1. PICK o \in DOMAIN nodes : out = {o}
      BY <1>2, <2>2 DEF Outs
    <3>2. pub \notin DOMAIN nodes /\ Cardinality(DOMAIN nodes) = MAX_NODES
      BY <1>2, <2>2 DEF Outs
    <3> DEFINE rest == DOMAIN nodes \ {o}
    <3>3. IsFiniteSet(rest) /\ Cardinality(rest) = MAX_NODES - 1
      BY <1>7, <3>2, FS_RemoveElement
    <3>4. pub \notin rest /\ DOMAIN nodes' = rest \cup {pub}
      BY <1>2, <3>1, <3>2
    <3> HIDE DEF rest
    <3>5. IsFiniteSet(DOMAIN nodes') /\ Cardinality(DOMAIN nodes') = MAX_NODES - 1 + 1
      BY <3>3, <3>4, FS_AddElement
    <3> QED
      BY <1>3, <3>5
  <2> QED
    BY <2>1, <2>2
<1>9. \A p \in DOMAIN nodes' : nodes'[p].seq \in 1..seq'
  BY <1>2, <1>3, <1>4, <1>5
<1>10. \A p \in DOMAIN nodes' : \A q \in DOMAIN nodes' : nodes'[p].seq = nodes'[q].seq => p = q
  <2> SUFFICES ASSUME NEW p \in DOMAIN nodes', NEW q \in DOMAIN nodes', nodes'[p].seq = nodes'[q].seq
               PROVE  p = q
    OBVIOUS
  <2>1. CASE p = pub \/ q = pub
    BY <1>2, <1>3, <1>4, <1>5, <2>1
  <2>2. CASE p # pub /\ q # pub
    BY <1>2, <2>2 DEF NodesKept
  <2> QED
    BY <2>1, <2>2
<1>11. NodesKept'
  BY <1>3, <1>8, <1>9, <1>10 DEF NodesKept
\* What was advertised.
<1>12. AdvertisedTyped'
  <2> SUFFICES ASSUME NEW p \in DOMAIN advertised'
               PROVE  /\ advertised'[p] = [name |-> advertised'[p].name, after |-> advertised'[p].after]
                      /\ IsFiniteSet(advertised'[p].after)
    BY DEF AdvertisedTyped
  <2>1. CASE p = pub
    BY <1>6, <2>1, FS_EmptySet
  <2>2. CASE p # pub
    <3>1. IsFiniteSet(advertised[p].after \cup {pub})
      BY <1>6, <2>2, FS_AddElement DEF AdvertisedTyped
    <3>2. PICK later : later = advertised[p].after \cup {pub}
      OBVIOUS
    <3>3. advertised'[p] = [name |-> advertised[p].name, after |-> later]
      BY <1>6, <2>2, <3>2
    <3>4. advertised'[p].name = advertised[p].name /\ advertised'[p].after = later
      BY <3>3
    <3> QED
      BY <3>1, <3>2, <3>3, <3>4
  <2> QED
    BY <2>1, <2>2
\* Who is after whom.
<1>13. \A p \in DOMAIN nodes' \ {pub} : After(p)' = After(p) \cup {pub}
  <2> SUFFICES ASSUME NEW p \in DOMAIN nodes' \ {pub}
               PROVE  \A q : q \in After(p)' <=> q \in After(p) \cup {pub}
    BY DEF After
  <2>1. p \in DOMAIN nodes \ out /\ nodes'[p].seq = nodes[p].seq
    BY <1>2
  <2>2. After(p)' = {q \in DOMAIN nodes' : nodes'[q].seq > nodes'[p].seq}
    BY DEF After
  <2>3. pub \in After(p)'
    BY <1>2, <1>4, <1>5, <2>1, <2>2
  <2>4. ASSUME NEW q, q # pub PROVE q \in After(p)' <=> q \in After(p)
    <3>1. q \in out => q \notin After(p)
      <4> SUFFICES ASSUME q \in out PROVE q \notin After(p)
        OBVIOUS
      <4>1. nodes[q].seq <= nodes[p].seq
        BY <1>2, <2>1 DEF Outs
      <4>2. ~(nodes[q].seq > nodes[p].seq)
        BY <1>5, <2>1, <4>1
      <4> QED
        BY <4>2 DEF After
    <3>2. q \in DOMAIN nodes \ out => nodes'[q].seq = nodes[q].seq
      BY <1>2, <2>4
    <3>3. q \in DOMAIN nodes' <=> q \in DOMAIN nodes \ out
      BY <1>2, <2>4
    <3> QED
      BY <2>1, <2>2, <3>1, <3>2, <3>3 DEF After
  <2> QED
    BY <2>3, <2>4
<1>14. NodesAdvertised'
  <2> SUFFICES ASSUME NEW p \in DOMAIN nodes'
               PROVE  /\ p \in DOMAIN advertised'
                      /\ nodes'[p].name = advertised'[p].name
                      /\ advertised'[p].after = After(p)'
    BY DEF NodesAdvertised
  <2>1. CASE p = pub
    <3>1. After(pub)' = {}
      <4>1. \A q \in DOMAIN nodes' : ~(nodes'[q].seq > nodes'[pub].seq)
        BY <1>3, <1>4, <1>9
      <4> QED
        BY <4>1 DEF After
    <3> QED
      BY <1>4, <1>6, <2>1, <3>1
  <2>2. CASE p # pub
    <3>1. p \in DOMAIN nodes /\ nodes'[p] = nodes[p]
      BY <1>2, <2>2
    <3>2. /\ p \in DOMAIN advertised /\ nodes[p].name = advertised[p].name
          /\ advertised[p].after = After(p)
      BY <3>1 DEF NodesAdvertised
    <3>3. advertised'[p].name = advertised[p].name /\ advertised'[p].after = advertised[p].after \cup {pub}
      BY <1>6, <2>2, <3>2
    <3> QED
      BY <1>6, <1>13, <2>2, <3>1, <3>2, <3>3
  <2> QED
    BY <2>1, <2>2
<1>15. OthersPassed'
  <2> SUFFICES ASSUME NEW p \in DOMAIN advertised', p \notin DOMAIN nodes'
               PROVE  /\ DOMAIN nodes' \subseteq advertised'[p].after
                      /\ Cardinality(DOMAIN nodes') = MAX_NODES
    BY DEF OthersPassed
  <2>1. p # pub /\ p \in DOMAIN advertised /\ advertised'[p].after = advertised[p].after \cup {pub}
    BY <1>2, <1>6
  <2>2. CASE p \in DOMAIN nodes
    <3>1. p \in out
      BY <1>2, <2>2
    <3>2. out = {p} /\ \A q \in DOMAIN nodes : nodes[p].seq <= nodes[q].seq
      BY <1>2, <3>1 DEF Outs
    <3>3. DOMAIN nodes \ {p} \subseteq After(p)
      <4> SUFFICES ASSUME NEW q \in DOMAIN nodes, q # p PROVE q \in After(p)
        OBVIOUS
      <4>1. nodes[p].seq <= nodes[q].seq /\ nodes[p].seq # nodes[q].seq
        BY <2>2, <3>2 DEF NodesKept
      <4>2. nodes[q].seq > nodes[p].seq
        BY <1>5, <2>2, <4>1
      <4> QED
        BY <4>2 DEF After
    <3>4. advertised[p].after = After(p)
      BY <2>2 DEF NodesAdvertised
    <3> QED
      BY <1>2, <1>8, <2>1, <3>2, <3>3, <3>4
  <2>3. CASE p \notin DOMAIN nodes
    <3>1. DOMAIN nodes \subseteq advertised[p].after /\ Cardinality(DOMAIN nodes) = MAX_NODES
      BY <2>1, <2>3 DEF OthersPassed
    <3>2. DOMAIN nodes' \subseteq advertised'[p].after
      BY <1>2, <2>1, <3>1
    <3>3. Cardinality(DOMAIN nodes') = MAX_NODES
      <4>1. CASE out = {}
        <5>1. pub \in DOMAIN nodes
          BY <1>2, <1>3, <3>1, <4>1 DEF Outs
        <5>2. DOMAIN nodes' = DOMAIN nodes
          BY <1>2, <4>1, <5>1
        <5> QED
          BY <3>1, <5>2
      <4>2. CASE out # {}
        BY <1>8, <4>2
      <4> QED
        BY <4>1, <4>2
    <3> QED
      BY <3>2, <3>3
  <2> QED
    BY <2>2, <2>3
<1> QED
  BY <1>11, <1>12, <1>14, <1>15

-----------------------------------------------------------------------------
(* The contacts, and whose keys are known.                                 *)

LEMMA LearnsContacts ==
  ASSUME ContactsNamed, NEW pub, NEW n, Learns(pub, n), rows' = rows
  PROVE  ContactsNamed' /\ DOMAIN contacts' = DOMAIN contacts
<1>1. called' = [p \in DOMAIN called |-> IF p = pub /\ n # NoName THEN n ELSE called[p]]
  BY DEF Learns, Note
<1>2. CASE Renames(pub, n)
  <2>1. contacts' = [contacts EXCEPT ![pub] = n] /\ saved' = contacts' /\ n # NoName
    BY <1>2 DEF Learns, Renames
  <2>2. called' = contacts'
    BY <1>1, <2>1 DEF ContactsNamed
  <2> QED
    BY <2>1, <2>2 DEF ContactsNamed
<1>3. CASE ~Renames(pub, n)
  <2>1. contacts' = contacts /\ saved' = saved
    BY <1>3 DEF Learns
  <2>2. \A p \in DOMAIN contacts : (IF p = pub /\ n # NoName THEN n ELSE contacts[p]) = contacts[p]
    BY <1>3 DEF Renames
  <2>3. called' = [p \in DOMAIN contacts |-> contacts[p]]
    BY <1>1, <2>2 DEF ContactsNamed
  <2> QED
    BY <2>1, <2>3 DEF ContactsNamed
<1> QED
  BY <1>2, <1>3

LEMMA LearnsOthers ==
  ASSUME NodesKept, OthersOnly, NEW pub, NEW n, IsOther(pub), Learns(pub, n),
         DOMAIN contacts' = DOMAIN contacts, made' = made, rows' = rows
  PROVE  OthersOnly'
<1>1. PICK out \in SUBSET DOMAIN nodes : Becomes(nodes', out, pub, n)
  BY TableFacts DEF Learns
<1>2. DOMAIN nodes' \subseteq DOMAIN nodes \cup {pub}
  BY <1>1 DEF Becomes
<1> QED
  BY <1>2 DEF OthersOnly, IsOther

\* What the user's interface shows has names, and is of others.
LEMMA RowsFacts ==
  ASSUME OthersOnly
  PROVE  \A row \in Rows : row[2] # NoName /\ IsOther(row[1])
<1> SUFFICES ASSUME NEW p \in DOMAIN nodes
             PROVE  <<p, RowName(p)>>[2] # NoName /\ IsOther(<<p, RowName(p)>>[1])
  BY DEF Rows
<1>1. RowName(p) # NoName
  BY DEF RowName, NoName
<1> QED
  BY <1>1 DEF OthersOnly

\* Steps that leave the tables alone, whatever else they do.
LEMMA TablesStay ==
  ASSUME TablesInv, UNCHANGED <<nodes, seq, contacts, saved, history>>
  PROVE  NodesKept' /\ AdvertisedTyped' /\ NodesAdvertised' /\ OthersPassed'
BY DEF TablesInv, NodesKept, AdvertisedTyped, NodesAdvertised, OthersPassed, After, history

-----------------------------------------------------------------------------
\* Nothing is known when the device starts.
LEMMA TablesInit == Init => TablesInv
<1> SUFFICES ASSUME Init PROVE TablesInv
  OBVIOUS
<1>1. PairsMade /\ FlagsTyped
  <2>1. /\ made = 0 /\ key = NoKey /\ name = NoName
        /\ gpc = [t \in Threads |-> "idle"] /\ fresh = [t \in Threads |-> NoKey]
    BY DEF Init, IdentityInit
  <2>2. made \in 0..PAIRS
    BY <2>1, IdentityAssumption
  <2>3. PairsMade
    BY <2>1, <2>2 DEF PairsMade
  <2>4. FlagsTyped
    BY DEF Init, IdentityInit, FlagsTyped
  <2> QED
    BY <2>3, <2>4
<1>2. AirIsOurs
  BY DEF Init, AirIsOurs
<1>3. DOMAIN nodes = {} /\ DOMAIN contacts = {} /\ DOMAIN advertised = {}
  BY DEF Init
<1>4. NodesKept
  BY <1>3, FS_EmptySet, CompanionsAssumption DEF Init, NodesKept
<1>5. AdvertisedTyped /\ NodesAdvertised /\ OthersPassed
  BY <1>3 DEF AdvertisedTyped, NodesAdvertised, OthersPassed
<1>6. ContactsNamed
  BY <1>3 DEF Init, ContactsNamed
<1>7. OthersOnly
  BY <1>3 DEF Init, OthersOnly
<1> QED
  BY <1>1, <1>2, <1>4, <1>5, <1>6, <1>7 DEF TablesInv

\* Every step keeps what the tables say.
LEMMA LearnsOK ==
  ASSUME TablesInv, NEW pub, NEW n, IsOther(pub), Learns(pub, n), UNCHANGED <<identityVars, rows, air>>
  PROVE  TablesInv'
<1>1. Onward
  BY StayOnward DEF TablesInv
<1>2. PairsMade' /\ FlagsTyped' /\ made' = made
  BY <1>1 DEF Onward, identityVars
<1>3. AirIsOurs'
  BY <1>1, AirStays DEF TablesInv
<1>4. NodesKept' /\ NodesAdvertised' /\ OthersPassed' /\ AdvertisedTyped'
  BY LearnsNodes DEF TablesInv
<1>5. ContactsNamed' /\ DOMAIN contacts' = DOMAIN contacts
  BY LearnsContacts DEF TablesInv
<1>6. OthersOnly'
  BY <1>2, <1>5, LearnsOthers DEF TablesInv
<1> QED
  BY <1>2, <1>3, <1>4, <1>5, <1>6 DEF TablesInv

LEMMA QuietOK ==
  ASSUME TablesInv, Onward, AirIsOurs', UNCHANGED <<nodes, seq, contacts, saved, history>>,
         \A row \in rows' : row[2] # NoName /\ IsOther(row[1])
  PROVE  TablesInv'
<1>1. NodesKept' /\ AdvertisedTyped' /\ NodesAdvertised' /\ OthersPassed'
  BY TablesStay
<1>2. \A p : IsOther(p) => IsOther(p)'
  BY OthersStay
<1>3. ContactsNamed'
  BY DEF TablesInv, ContactsNamed, history
<1>4. OthersOnly'
  BY <1>2 DEF TablesInv, OthersOnly
<1> QED
  BY <1>1, <1>3, <1>4 DEF TablesInv, Onward

LEMMA AddContactOK ==
  ASSUME TablesInv, NEW row \in rows, AddContact(row)
  PROVE  TablesInv'
<1>1. Onward /\ AirIsOurs'
  BY StayOnward, AirStays DEF AddContact, TablesInv
<1>2. NodesKept' /\ AdvertisedTyped' /\ NodesAdvertised' /\ OthersPassed'
  BY DEF AddContact, TablesInv, NodesKept, AdvertisedTyped, NodesAdvertised, OthersPassed, After
<1>3. /\ contacts' = Put(contacts, row[1], row[2]) /\ saved' = contacts'
      /\ called' = Put(called, row[1], row[2]) /\ rows' = rows /\ nodes' = nodes
  BY DEF AddContact, SaveContacts
<1>4. row[2] # NoName /\ IsOther(row[1])
  BY DEF TablesInv, ContactsNamed, OthersOnly
<1>5. ContactsNamed'
  BY <1>3, <1>4 DEF TablesInv, ContactsNamed, Put
<1>6. \A p : IsOther(p) => IsOther(p)'
  BY <1>1, OthersStay
<1>7. DOMAIN contacts' = DOMAIN contacts \cup {row[1]}
  BY <1>3 DEF Put
<1>8. OthersOnly'
  BY <1>3, <1>4, <1>6, <1>7 DEF TablesInv, OthersOnly
<1> QED
  BY <1>1, <1>2, <1>5, <1>8 DEF TablesInv, Onward

LEMMA RemoveContactOK ==
  ASSUME TablesInv, NEW p \in DOMAIN contacts, RemoveContact(p)
  PROVE  TablesInv'
<1>1. Onward /\ AirIsOurs'
  BY StayOnward, AirStays DEF RemoveContact, TablesInv
<1>2. NodesKept' /\ AdvertisedTyped' /\ NodesAdvertised' /\ OthersPassed'
  BY DEF RemoveContact, TablesInv, NodesKept, AdvertisedTyped, NodesAdvertised, OthersPassed, After
<1>3. /\ contacts' = [q \in DOMAIN contacts \ {p} |-> contacts[q]] /\ saved' = contacts'
      /\ called' = [q \in DOMAIN called \ {p} |-> called[q]] /\ rows' = rows /\ nodes' = nodes
  BY DEF RemoveContact, SaveContacts
<1>4. ContactsNamed'
  BY <1>3 DEF TablesInv, ContactsNamed
<1>5. \A q : IsOther(q) => IsOther(q)'
  BY <1>1, OthersStay
<1>6. DOMAIN contacts' \subseteq DOMAIN contacts
  BY <1>3
<1>7. OthersOnly'
  BY <1>3, <1>5, <1>6 DEF TablesInv, OthersOnly
<1> QED
  BY <1>1, <1>2, <1>4, <1>7 DEF TablesInv, Onward

\* A restart forgets the companions, and loads the contacts.
LEMMA RebootOK ==
  ASSUME TablesInv, Reboot
  PROVE  TablesInv'
<1>1. Onward
  BY IdentityOnward DEF Reboot, TablesInv
<1>2. AirIsOurs'
  BY <1>1, AirStays DEF Reboot, TablesInv
<1>3. /\ DOMAIN nodes' = {} /\ seq' = 0 /\ rows' = {} /\ DOMAIN advertised' = {}
      /\ contacts' = contacts /\ saved' = saved /\ called' = called
  BY DEF Reboot, TablesInv, ContactsNamed
<1>4. NodesKept'
  BY <1>3, FS_EmptySet, CompanionsAssumption DEF NodesKept
<1>5. AdvertisedTyped' /\ NodesAdvertised' /\ OthersPassed'
  BY <1>3 DEF AdvertisedTyped, NodesAdvertised, OthersPassed
<1>6. ContactsNamed'
  BY <1>3 DEF TablesInv, ContactsNamed
<1>7. \A q : IsOther(q) => IsOther(q)'
  BY <1>1, OthersStay
<1>8. OthersOnly'
  BY <1>3, <1>7 DEF TablesInv, OthersOnly
<1> QED
  BY <1>1, <1>2, <1>4, <1>5, <1>6, <1>8 DEF TablesInv, Onward

LEMMA TablesStep == TablesInv /\ [Next]_vars => TablesInv'
<1> SUFFICES ASSUME TablesInv, [Next]_vars PROVE TablesInv'
  OBVIOUS
<1>0. PairsMade /\ FlagsTyped /\ AirIsOurs /\ \A row \in rows : row[2] # NoName /\ IsOther(row[1])
  BY DEF TablesInv, ContactsNamed, OthersOnly
<1>1. CASE (IdentityNext \/ \E n \in UserNames : PickName(n)) /\ UNCHANGED companionVars
  <2>1. Onward
    BY <1>0, <1>1, IdentityOnward
  <2> QED
    BY <1>0, <1>1, <2>1, AirStays, QuietOK DEF companionVars
<1>2. CASE EnterHome
  <2>1. Onward
    BY <1>0, <1>2, IdentityOnward DEF EnterHome
  <2> QED
    BY <1>0, <1>2, <2>1, AirStays, RowsFacts, QuietOK DEF EnterHome, TablesInv
<1>3. CASE LeaveCompanions
  <2>1. Onward
    BY <1>0, <1>3, IdentityOnward DEF LeaveCompanions
  <2> QED
    BY <1>0, <1>3, <2>1, AirStays, QuietOK DEF LeaveCompanions
<1>4. ASSUME NEW f \in Foreign, HearForeign(f) PROVE TablesInv'
  <2>1. UNCHANGED <<identityVars, rows, air>>
    BY <1>4 DEF HearForeign
  <2>2. CASE LearnsNothing
    <3>1. Onward /\ AirIsOurs'
      BY <1>0, <2>1, StayOnward, AirStays
    <3> QED
      BY <1>0, <2>1, <2>2, <3>1, QuietOK DEF LearnsNothing
  <2> QED
    BY <1>0, <1>4, <2>1, <2>2, ForeignLearns, LearnsOK
<1>5. ASSUME NEW a \in air, HearOwn(a) PROVE TablesInv'
  <2>1. UNCHANGED <<identityVars, rows, air>>
    BY <1>5 DEF HearOwn
  <2>2. CASE LearnsNothing
    <3>1. Onward /\ AirIsOurs'
      BY <1>0, <2>1, StayOnward, AirStays
    <3> QED
      BY <1>0, <2>1, <2>2, <3>1, QuietOK DEF LearnsNothing
  <2> QED
    BY <1>0, <1>5, <2>1, <2>2, OwnLearns, LearnsOK
<1>6. CASE Advertise
  <2>1. Onward
    BY <1>0, <1>6, StayOnward DEF Advertise
  <2> QED
    BY <1>0, <1>6, <2>1, AdvertiseAir, QuietOK DEF Advertise
<1>7. CASE RefreshRows
  <2>1. Onward
    BY <1>0, <1>7, StayOnward DEF RefreshRows
  <2> QED
    BY <1>0, <1>7, <2>1, AirStays, RowsFacts, QuietOK DEF RefreshRows, TablesInv
<1>8. CASE UNCHANGED vars
  <2>1. Onward
    BY <1>0, <1>8, StayOnward DEF vars
  <2> QED
    BY <1>0, <1>8, <2>1, AirStays, QuietOK DEF vars, companionVars
<1> QED
  BY <1>1, <1>2, <1>3, <1>4, <1>5, <1>6, <1>7, <1>8, AddContactOK, RemoveContactOK, RebootOK DEF Next

-----------------------------------------------------------------------------
LEMMA TypeHolds == TablesInv => TypeOK
<1> SUFFICES ASSUME TablesInv PROVE TypeOK
  OBVIOUS
<1>1. IdentityTypeOK
  BY MadeFacts DEF TablesInv, PairsMade, FlagsTyped, IdentityTypeOK
<1> QED
  BY <1>1 DEF TablesInv, NodesKept, ContactsNamed, TypeOK

LEMMA FollowHolds == TablesInv => TablesFollowAdverts
<1> SUFFICES ASSUME TablesInv PROVE TablesFollowAdverts
  OBVIOUS
<1>1. /\ IsFiniteSet(DOMAIN nodes) /\ Cardinality(DOMAIN nodes) \in Nat
      /\ Cardinality(DOMAIN nodes) <= MAX_NODES /\ MAX_NODES \in Nat
  BY FS_CardinalityType, CompanionsAssumption DEF TablesInv, NodesKept
<1>2. ASSUME NEW p \in DOMAIN nodes PROVE Cardinality(advertised[p].after) < MAX_NODES
  <2>1. nodes[p].seq \in Nat
    BY CompanionsAssumption DEF TablesInv, NodesKept
  <2>2. After(p) \subseteq DOMAIN nodes \ {p}
    BY <2>1 DEF After
  <2>3. /\ IsFiniteSet(DOMAIN nodes \ {p})
        /\ Cardinality(DOMAIN nodes \ {p}) = Cardinality(DOMAIN nodes) - 1
    BY <1>1, FS_RemoveElement
  <2>4. Cardinality(After(p)) \in Nat /\ Cardinality(After(p)) <= Cardinality(DOMAIN nodes \ {p})
    BY <2>2, <2>3, FS_Subset, FS_CardinalityType
  <2>5. advertised[p].after = After(p)
    BY DEF TablesInv, NodesAdvertised
  <2> QED
    BY <1>1, <2>3, <2>4, <2>5
<1>3. ASSUME NEW p \in DOMAIN advertised, p \notin DOMAIN nodes
      PROVE  ~(Cardinality(advertised[p].after) < MAX_NODES)
  <2>1. /\ DOMAIN nodes \subseteq advertised[p].after /\ Cardinality(DOMAIN nodes) = MAX_NODES
        /\ IsFiniteSet(advertised[p].after)
    BY <1>3 DEF TablesInv, OthersPassed, AdvertisedTyped
  <2>2. Cardinality(advertised[p].after) \in Nat /\ MAX_NODES <= Cardinality(advertised[p].after)
    BY <2>1, FS_Subset, FS_CardinalityType
  <2> QED
    BY <1>1, <2>2
<1>4. DOMAIN nodes = {p \in DOMAIN advertised : Cardinality(advertised[p].after) < MAX_NODES}
  BY <1>2, <1>3 DEF TablesInv, NodesAdvertised
<1> QED
  BY <1>4 DEF TablesInv, NodesAdvertised, ContactsNamed, TablesFollowAdverts

LEMMA OneNodeHolds == TablesInv => ActsAsOneNode
<1> SUFFICES ASSUME TablesInv, made <= 1 PROVE ActsAsOneNode
  BY DEF ActsAsOneNode
<1>1. PairsMade /\ AirIsOurs
  BY DEF TablesInv
<1>2. \A k \in 1..made : k = 1
  BY <1>1, MadeFacts
<1>3. key # NoKey /\ name \notin UserNames => Nickname = BadgeName(key)
  BY <1>1, <1>2 DEF PairsMade, Nickname
<1>4. ASSUME NEW a \in air
      PROVE  LET adv == ParseAdvert(a.bytes)
             IN  /\ adv # BadAdvert /\ adv.type = ADV_TYPE_CHAT /\ adv.pub = Pub(key)
                 /\ IsPrefix(adv.name, a.name)
                 /\ adv.name = a.name \/ Len(adv.name) = MAX_ADVERT_DATA_SIZE - 1
                 /\ Len(a.bytes) <= HEADER_LEN + MAX_ADVERT_DATA_SIZE
  <2>1. /\ ParseAdvert(a.bytes) # BadAdvert
        /\ ParseAdvert(a.bytes) =
             [pub |-> Pub(a.key), type |-> ADV_TYPE_CHAT, name |-> CutName(a.name)]
        /\ Len(a.bytes) <= HEADER_LEN + MAX_ADVERT_DATA_SIZE
    BY <1>1, AirIsRead
  <2>2. a.key = key
    BY <1>1, <1>2 DEF AirIsOurs, PairsMade
  <2>3. a.name \in Seq(Nat)
    BY <1>1 DEF AirIsOurs
  <2>4. /\ IsPrefix(CutName(a.name), a.name)
        /\ CutName(a.name) = a.name \/ Len(CutName(a.name)) = MAX_ADVERT_DATA_SIZE - 1
    BY <2>3, CutNameFacts
  <2>5. /\ ParseAdvert(a.bytes).pub = Pub(key) /\ ParseAdvert(a.bytes).type = ADV_TYPE_CHAT
        /\ ParseAdvert(a.bytes).name = CutName(a.name)
    BY <2>1, <2>2
  <2> QED
    BY <2>1, <2>4, <2>5
<1>5. Pub(key) \notin DOMAIN nodes \cup DOMAIN contacts
  <2>1. ASSUME NEW p, IsOther(p) PROVE p # Pub(key)
    <3>1. CASE key = NoKey
      BY <2>1, <3>1 DEF IsOther, Pub
    <3>2. CASE key # NoKey
      BY <1>1, <2>1, <3>2, MadeFacts DEF IsOther, PairsMade
    <3> QED BY <3>1, <3>2
  <2> QED
    BY <2>1 DEF TablesInv, OthersOnly
<1> QED
  BY <1>3, <1>4, <1>5 DEF ActsAsOneNode

\* Who was heard after whom, what the two tables hold of it and what is on the
\* air fit together in every reachable state: in both dictionaries the worker
\* drops the entries heard longest ago (_handle_advert, _remember_contact).
THEOREM TablesInvIsInvariant == Spec => []TablesInv
BY TablesInit, TablesStep, PTL DEF Spec

\* Type correctness: both dictionaries keep to their caps, and every name that
\* is kept is within its length (_handle_advert, _remember_contact).
THEOREM TypesHold == Spec => []TypeOK
BY TablesInvIsInvariant, TypeHolds, PTL

\* The dictionary of heard nodes holds the MAX_NODES companions heard last, each
\* under the name of its last advert, and a saved contact that is still in it is
\* called the same (_handle_advert).
THEOREM CompanionsFollow == Spec => []TablesFollowAdverts
BY TablesInvIsInvariant, FollowHolds, PTL

\* As long as one key pair was made the device is one node: every advert it sent
\* reads back as its own key and name, and it never lists itself
\* (build_advert, parse_advert, _handle_advert).
THEOREM OneNode == Spec => []ActsAsOneNode
BY TablesInvIsInvariant, OneNodeHolds, PTL
==============================================================================
