------------------------ MODULE CalendarSourceProofs ------------------------
(***************************************************************************)
(* What one account's polls report, for any calendars, events, patterns,    *)
(* window and number of changes.                                            *)
(*                                                                          *)
(* Complete does not mention the middle of a poll, so it is not inductive.  *)
(* Counted says what a poll has counted so far: of the events that nobody   *)
(* has changed since it began, those before its place in the list have one  *)
(* entry and those after it have none.  Sourced remembers for every entry   *)
(* the version of an event that it was made of, from which WasSo and        *)
(* Joinable follow by what ClassifyCandidate and selectURL compute.         *)
(***************************************************************************)
EXTENDS CalendarSource, FiniteSetTheorems, SequenceTheorems,
        WellFoundedInduction, TLAPS

-----------------------------------------------------------------------------
(* Keys and links *)

(* Two events have one key if and only if they are versions of one          *)
(* occurrence.                                                              *)
LEMMA KeysAreIdentities ==
  ASSUME NEW o \in Occurrences, NEW p \in Occurrences,
         NEW x \in Versions[o], NEW y \in Versions[p],
         adaptEvent(x), adaptEvent(y)
  PROVE  o = p <=> OccurrenceKey(o[1], x) = OccurrenceKey(p[1], y)
<1>1. CASE o = p
  <2>1. x.id = y.id /\ x.series = y.series
    BY <1>1, IdentityAssumption
  <2>2. x.series # None => Instant(x.original) = Instant(y.original)
    BY <1>1, <2>1, IdentityAssumption
  <2> QED  BY <1>1, <2>1, <2>2 DEF OccurrenceKey
<1>2. CASE o[1] # p[1]
  BY <1>2 DEF OccurrenceKey
<1>3. CASE o # p /\ o[1] = p[1]
  <2>1. x.id # y.id
    BY <1>3, IdentityAssumption
  <2>2. x.series = y.series /\ x.series # None =>
          Instant(x.original) # Instant(y.original)
    BY <1>3, IdentityAssumption
  <2>3. CASE x.series = None
    BY <1>3, <2>1, <2>3 DEF OccurrenceKey
  <2>4. CASE x.series # None
    <3>1. {Instant(x.original)} # {}
      OBVIOUS
    <3>2. CASE y.series = None
      BY <1>3, <2>4, <3>1, <3>2 DEF OccurrenceKey
    <3>3. CASE y.series # None
      BY <1>3, <2>2, <2>4, <3>3 DEF OccurrenceKey
    <3> QED  BY <3>2, <3>3
  <2> QED  BY <2>3, <2>4
<1> QED  BY <1>1, <1>2, <1>3

(* A set of numbers that is not empty has a smallest one. *)
LEMMA Smallest ==
  ASSUME NEW T, T \subseteq Nat, T # {}
  PROVE  \E x \in T : \A y \in T : x =< y
<1>1. PICK R : R = {ss \in Nat \X Nat : ss[1] < ss[2]}
  OBVIOUS
<1>2. OpToRel(<, Nat) = R
  BY <1>1 DEF OpToRel
<1>3. IsWellFoundedOn(R, Nat)
  BY <1>2, NatLessThanWellFounded
<1>4. PICK x \in T : \A y \in T : ~(<<y, x>> \in R)
  BY <1>3, WFMin
<1>5. ASSUME NEW y \in T PROVE x =< y
  <2>1. x \in Nat /\ y \in Nat
    OBVIOUS
  <2>2. y < x => <<y, x>> \in R
    BY <1>1, <2>1
  <2> QED  BY <1>4, <2>1, <2>2
<1> QED  BY <1>5

(* Of some places, one is the first. *)
LEMMA FirstIsOne ==
  ASSUME NEW P, P \subseteq Nat \X Nat, P # {}
  PROVE  First(P) # {}
<1>1. PICK T : T = {p[1] : p \in P}
  OBVIOUS
<1>2. PICK f \in T : \A g \in T : f =< g
  <2>1. T # {} /\ T \subseteq Nat
    BY <1>1
  <2> QED  BY <2>1, Smallest
<1>3. PICK U : U = {p[2] : p \in {q \in P : q[1] = f}}
  OBVIOUS
<1>4. PICK i \in U : \A j \in U : i =< j
  <2>1. U # {} /\ U \subseteq Nat
    BY <1>1, <1>2, <1>3
  <2> QED  BY <2>1, Smallest
<1>5. PICK p \in P : p[1] = f /\ p[2] = i
  BY <1>3, <1>4
<1>6. ASSUME NEW q \in P PROVE p = q \/ Before(p, q)
  <2>1. q = <<q[1], q[2]>> /\ p = <<p[1], p[2]>>
    OBVIOUS
  <2>2. q[1] \in T /\ p[1] \in Nat /\ q[1] \in Nat /\ p[2] \in Nat /\ q[2] \in Nat
    BY <1>1
  <2>3. p[1] < q[1] \/ p[1] = q[1]
    BY <1>2, <1>5, <2>2
  <2>4. p[1] = q[1] => p[2] < q[2] \/ p[2] = q[2]
    BY <1>3, <1>4, <1>5, <2>2
  <2> QED  BY <2>1, <2>3, <2>4 DEF Before
<1> QED  BY <1>6 DEF First

(* The places of the links of an event. *)
LEMMA LinkPlaces ==
  ASSUME NEW o \in Occurrences, NEW e \in Versions[o]
  PROVE  /\ allURLs(e) \subseteq (1..4) \X Nat
         /\ \A p \in allURLs(e) : /\ p[2] \in DOMAIN Fields(e)[p[1]]
                                  /\ At(e, p) \in InField(e, p[1])
                                  /\ At(e, p) \in LinkType
<1> SUFFICES ASSUME NEW p \in allURLs(e)
             PROVE  /\ p \in (1..4) \X Nat
                    /\ p[2] \in DOMAIN Fields(e)[p[1]]
                    /\ At(e, p) \in InField(e, p[1])
                    /\ At(e, p) \in LinkType
  OBVIOUS
<1>1. PICK f \in 1..4 :
        p \in {f} \X (IF f > 2 THEN extractURLs(Fields(e)[f])
                      ELSE DOMAIN Fields(e)[f])
  BY DEF allURLs
<1>2. PICK s : s = Fields(e)[f]
  OBVIOUS
<1>3. s \in Seq(LinkType)
  BY <1>2, EventsAssumption
<1>4. p = <<f, p[2]>> /\ p[1] = f /\ p[2] \in DOMAIN s
  BY <1>1, <1>2 DEF extractURLs
<1>5. p[2] \in Nat /\ s[p[2]] \in LinkType
  BY <1>3, <1>4
<1>6. At(e, p) = s[p[2]]
  BY <1>2, <1>4 DEF At
<1>7. At(e, p) \in InField(e, f)
  BY <1>2, <1>4, <1>6 DEF InField, ToSet
<1> QED  BY <1>2, <1>4, <1>5, <1>6, <1>7

(* A link that is valid is found wherever it stands. *)
LEMMA ValidIsFound ==
  ASSUME NEW o \in Occurrences, NEW e \in Versions[o],
         NEW f \in 1..4, NEW link \in InField(e, f), ValidateURL(link)
  PROVE  \E i \in Nat : <<f, i>> \in allURLs(e) /\ At(e, <<f, i>>) = link
<1>1. PICK s : s = Fields(e)[f]
  OBVIOUS
<1>2. s \in Seq(LinkType)
  BY <1>1, EventsAssumption
<1>3. PICK i \in DOMAIN s : s[i] = link
  BY <1>1 DEF InField, ToSet
<1>4. i \in Nat
  BY <1>2
<1>5. i \in extractURLs(s)
  BY <1>3 DEF extractURLs, ValidateURL
<1>6. <<f, i>> \in {f} \X (IF f > 2 THEN extractURLs(Fields(e)[f])
                          ELSE DOMAIN Fields(e)[f])
  BY <1>1, <1>5
<1>7. <<f, i>> \in allURLs(e)
  BY <1>6 DEF allURLs
<1>8. At(e, <<f, i>>) = link
  BY <1>1, <1>3 DEF At
<1> QED  BY <1>4, <1>7, <1>8

(* TrustedHosts is what the user means by the patterns of the               *)
(* configuration: of the hosts that links name, those that allowedHost      *)
(* accepts.                                                                 *)
PatternsMeant ==
  \A o \in Occurrences : \A e \in Versions[o] : \A f \in 1..4 :
    \A link \in InField(e, f) :
      link.host \in TrustedHosts
        <=> link.host # <<>> /\ allowedHost(Hostname(link.host))

LEMMA ValidIsTrusted ==
  ASSUME PatternsMeant, NEW o \in Occurrences, NEW e \in Versions[o],
         NEW f \in 1..4, NEW link \in InField(e, f)
  PROVE  ValidateURL(link) <=> Trusted(link)
BY DEF PatternsMeant, ValidateURL, Trusted

(* What is selected is the link of the most authoritative field, and nothing *)
(* is selected only if there is none.                                        *)
LEMMA Selects ==
  ASSUME NEW o \in Occurrences, NEW e \in Versions[o]
  PROVE  /\ \A link \in selectURL(e) :
              /\ ValidateURL(link) /\ link \in LinkType
              /\ \E f \in 1..4 : link \in InField(e, f)
              /\ PatternsMeant => Best(e, link)
         /\ PatternsMeant /\ selectURL(e) = {} =>
              \A f \in 1..4 : \A link \in InField(e, f) : ~Trusted(link)
<1>1. PICK P : P = {q \in allURLs(e) : ValidateURL(At(e, q))}
  OBVIOUS
<1>2. selectURL(e) = {At(e, p) : p \in First(P)}
  BY <1>1 DEF selectURL
<1>3. P \subseteq Nat \X Nat
  BY <1>1, LinkPlaces
<1>4. ASSUME NEW link \in selectURL(e)
      PROVE  /\ ValidateURL(link) /\ link \in LinkType
             /\ \E f \in 1..4 : link \in InField(e, f)
             /\ PatternsMeant => Best(e, link)
  <2>1. PICK p \in First(P) : link = At(e, p)
    BY <1>2
  <2>2. p \in P /\ \A q \in P : p = q \/ Before(p, q)
    BY <2>1 DEF First
  <2>3. PICK f : f = p[1]
    OBVIOUS
  <2>4. /\ p \in (1..4) \X Nat /\ f \in 1..4
        /\ link \in InField(e, f) /\ link \in LinkType /\ ValidateURL(link)
    BY <1>1, <2>1, <2>2, <2>3, LinkPlaces
  <2>5. ASSUME PatternsMeant, NEW g \in 1..(f - 1), NEW l \in InField(e, g),
               Trusted(l)
        PROVE  FALSE
    <3>1. g \in 1..4 /\ g < f
      BY <2>4
    <3>2. ValidateURL(l)
      BY <2>5, <3>1, ValidIsTrusted
    <3>3. PICK i \in Nat : <<g, i>> \in allURLs(e) /\ At(e, <<g, i>>) = l
      BY <3>1, <3>2, ValidIsFound
    <3>4. <<g, i>> \in P
      BY <1>1, <3>2, <3>3
    <3>5. p = <<g, i>> \/ Before(p, <<g, i>>)
      BY <2>2, <3>4
    <3> QED  BY <2>3, <2>4, <3>1, <3>5 DEF Before
  <2>6. PatternsMeant => Trusted(link)
    BY <2>4, ValidIsTrusted
  <2>7. PatternsMeant => Best(e, link)
    BY <2>4, <2>5, <2>6 DEF Best
  <2> QED  BY <2>4, <2>7
<1>5. ASSUME PatternsMeant, selectURL(e) = {}, NEW f \in 1..4,
             NEW link \in InField(e, f), Trusted(link)
      PROVE  FALSE
  <2>1. ValidateURL(link)
    BY <1>5, ValidIsTrusted
  <2>2. PICK i \in Nat : <<f, i>> \in allURLs(e) /\ At(e, <<f, i>>) = link
    BY <2>1, ValidIsFound
  <2>3. P # {}
    BY <1>1, <2>1, <2>2
  <2>4. First(P) # {}
    BY <1>3, <2>3, FirstIsOne
  <2> QED  BY <1>2, <1>5, <2>4
<1> QED  BY <1>4, <1>5

-----------------------------------------------------------------------------
(* Events *)

(* The key that a version of an occurrence is given. *)
KeyOf(o, e) == OccurrenceKey(o[1], e)

LEMMA EntryKey ==
  ASSUME NEW c, NEW e
  PROVE  ClassifyCandidate(c, e).key = OccurrenceKey(c, e)
BY DEF ClassifyCandidate, Meeting, Observation

(* What is said of an event is true of it. *)
LEMMA EntryIsTrue ==
  ASSUME PatternsMeant, NEW o \in Occurrences, NEW e \in Versions[o],
         adaptEvent(e), NEW m, m = ClassifyCandidate(o[1], e)
  PROVE  IF m.kind = "meeting"
           THEN m.start = Instant(e.start) /\ Live(e) /\ Best(e, m.url)
           ELSE /\ ~Live(e)
                /\ (m.reason \in {"cancelled", "declined"})
                     # (m.exclusion \in Exclusions)
<1>1. PICK reason : reason = IF e.cancelled THEN "cancelled"
                             ELSE IF e.declined THEN "declined" ELSE None
  OBVIOUS
<1>2. PICK exclusion :
        exclusion = IF reason = None THEN normalizeCandidate(e) ELSE None
  OBVIOUS
<1>3. m = IF reason = None /\ exclusion = None
            THEN Meeting(o[1], e, CHOOSE link \in selectURL(e) : TRUE)
            ELSE Observation(o[1], e, reason, exclusion)
  BY <1>1, <1>2 DEF ClassifyCandidate
<1>4. e.start.form \in {None, "date", "offset", "zone"}
  BY EventsAssumption DEF adaptEvent, parseEventTime
<1>5. /\ normalizeCandidate(e) \in Exclusions \cup {None}
      /\ normalizeCandidate(e) = None <=>
           e.start.form \in {"offset", "zone"} /\ selectURL(e) # {}
  <2>1. classifyURLExclusion(e)
          \in {"missing-url", "unsupported-url", "malformed-url"}
    BY DEF classifyURLExclusion
  <2> QED  BY <1>4, <2>1 DEF normalizeCandidate, Exclusions, None
<1>6. CASE reason = None /\ exclusion = None
  <2>1. PICK link : link = CHOOSE l \in selectURL(e) : TRUE
    OBVIOUS
  <2>2. link \in selectURL(e) /\ e.start.form \in {"offset", "zone"}
    BY <1>2, <1>5, <1>6, <2>1
  <2>3. m = Meeting(o[1], e, link)
    BY <1>3, <1>6, <2>1
  <2>4. m.kind = "meeting" /\ m.start = Instant(e.start) /\ m.url = link
    BY <2>3 DEF Meeting
  <2>5. Best(e, link)
    BY <2>2, Selects
  <2>6. ~e.cancelled /\ ~e.declined
    BY <1>1, <1>6 DEF None
  <2>7. Live(e)
    BY <2>2, <2>5, <2>6 DEF Live, Best
  <2> QED  BY <2>4, <2>5, <2>7
<1>7. CASE ~(reason = None /\ exclusion = None)
  <2>1. m = Observation(o[1], e, reason, exclusion)
    BY <1>3, <1>7
  <2>2. m.kind = "observation" /\ m.reason = reason /\ m.exclusion = exclusion
    BY <2>1 DEF Observation
  <2>3. CASE reason = None
    <3>1. exclusion \in Exclusions /\ reason \notin {"cancelled", "declined"}
      BY <1>2, <1>5, <1>7, <2>3 DEF None
    <3>2. ~(e.start.form \in {"offset", "zone"} /\ selectURL(e) # {})
      BY <1>2, <1>5, <1>7, <2>3
    <3>3. ~Live(e)
      BY <3>2, Selects DEF Live
    <3> QED  BY <2>2, <3>1, <3>3
  <2>4. CASE reason # None
    <3>1. reason \in {"cancelled", "declined"} /\ ~Live(e)
      BY <1>1, <2>4 DEF Live
    <3>2. exclusion \notin Exclusions
      BY <1>2, <2>4 DEF Exclusions, None
    <3> QED  BY <2>2, <3>1, <3>2
  <2> QED  BY <2>3, <2>4
<1> QED  BY <1>6, <1>7

(* What is announced can be opened. *)
LEMMA EntryCanBeOpened ==
  ASSUME PatternsMeant, NEW o \in Occurrences, NEW e \in Versions[o],
         adaptEvent(e), NEW m, m = ClassifyCandidate(o[1], e),
         m.kind = "meeting"
  PROVE  /\ Open(m.url) # {} \/ (m.url.zoom /\ ~m.url.query)
         /\ \A l \in Open(m.url) : Trusted(l)
<1>1. PICK link : link = m.url
  OBVIOUS
<1>2. Best(e, link)
  BY <1>1, EntryIsTrue
<1>3. PICK f \in 1..4 : link \in InField(e, f) /\ Trusted(link)
  BY <1>2 DEF Best
<1>4. ValidateURL(link) /\ link \in LinkType
  <2>1. ValidateURL(link)
    BY <1>3, ValidIsTrusted
  <2>2. PICK i \in Nat : <<f, i>> \in allURLs(e) /\ At(e, <<f, i>>) = link
    BY <1>3, <2>1, ValidIsFound
  <2> QED  BY <2>1, <2>2, LinkPlaces
<1>5. Open(link) = {l \in ZoomWebClientURL(link) : ValidateURL(l)}
  BY <1>4 DEF Open
<1>6. PICK l2 : l2 = [link EXCEPT !.zoom = FALSE]
  OBVIOUS
<1>7. l2.form = link.form /\ l2.host = link.host
  BY <1>4, <1>6 DEF LinkType
<1>8. ValidateURL(l2) /\ Trusted(l2)
  BY <1>3, <1>4, <1>7 DEF ValidateURL, Trusted
<1>9. ZoomWebClientURL(link) \subseteq {link, l2}
  BY <1>6 DEF ZoomWebClientURL
<1>10. (link.zoom /\ ~link.query) \/ ZoomWebClientURL(link) # {}
  <2>1. link.zoom \in BOOLEAN /\ link.query \in BOOLEAN
    BY <1>4 DEF LinkType
  <2> QED  BY <2>1 DEF ZoomWebClientURL
<1> QED  BY <1>1, <1>3, <1>4, <1>5, <1>8, <1>9, <1>10

-----------------------------------------------------------------------------
(* The invariant *)

(* Type correctness. *)
Events == UNION {Versions[o] : o \in Occurrences}

Entries ==
  UNION {{ClassifyCandidate(o[1], e) : e \in Versions[o]} : o \in Occurrences}

ErrorTypes == {None, "setup", "cancellation", "authentication", "rate-limit",
               "transient", "permanent"}

PollType == [at: {"idle", "list", "done", "returned"}, cal: Nat,
             after: Nat \X Nat, entries: Seq(Entries), err: ErrorTypes]

TypeOK ==
  /\ calendar \in [Occurrences -> Events]
  /\ versions \in [Occurrences -> SUBSET Events]
  /\ keys \in [Occurrences -> SUBSET {KeyOf(o, e) : o \in Occurrences, e \in Events}]
  /\ poll \in PollType

(* What is remembered of an occurrence is what it may be. *)
History ==
  \A o \in Occurrences : calendar[o] \in versions[o] /\ versions[o] \subseteq Versions[o]

(* Every entry was made of what its event has been since the poll began. *)
Sourced ==
  \A k \in DOMAIN poll.entries :
    \E o \in Occurrences : \E e \in versions[o] :
      adaptEvent(e) /\ poll.entries[k] = ClassifyCandidate(o[1], e)

(* An entry with a key: one, or none. *)
Once(entries, key) ==
  \E k \in DOMAIN entries : \A j \in DOMAIN entries :
    entries[j].key = key <=> j = k
Never(entries, key) == \A j \in DOMAIN entries : entries[j].key # key

(* Whether the poll is past an occurrence. *)
Passed(o) ==
  o[1] < poll.cal \/ (o[1] = poll.cal /\ ~Before(poll.after, Place(o)))

Unchanged(o) == versions[o] = {calendar[o]} /\ Listed(o)

(* What the poll is past of has been read, and has its entry; of the rest   *)
(* there is none yet.                                                       *)
Counted ==
  \A o \in Occurrences : Unchanged(o) =>
    LET key == KeyOf(o, calendar[o]) IN
    /\ poll.at = "list" /\ Passed(o) =>
         adaptEvent(calendar[o]) /\ Once(poll.entries, key)
    /\ poll.at = "list" /\ ~Passed(o) /\ adaptEvent(calendar[o]) =>
         Never(poll.entries, key)
    /\ Reported => Once(poll.entries, key)

(* Keys are those of what the occurrence may be. *)
KeysKnown ==
  \A o \in Occurrences : \A x \in keys[o] :
    \E e \in Versions[o] : adaptEvent(e) /\ x = KeyOf(o, e)

CInv == TypeOK /\ History /\ Sourced /\ Counted /\ KeysKnown

LEMMA PlaceType ==
  ASSUME TypeOK, History, NEW o \in Occurrences
  PROVE  /\ calendar[o] \in Versions[o] /\ Place(o) \in Nat \X Nat
         /\ o[1] \in Nat \ {0} /\ Before(Start, Place(o))
<1>1. calendar[o] \in Versions[o]
  BY DEF History
<1>2. Instant(calendar[o].start) \in Nat
  BY <1>1, EventsAssumption
<1>3. o \in (Nat \ {0}) \X (Nat \ {0})
  BY CalendarsAssumption
<1> QED  BY <1>1, <1>2, <1>3 DEF Place, Before, Start

(* The order of the list is one. *)
LEMMA OrderOfPlaces ==
  ASSUME NEW p \in Nat \X Nat, NEW q \in Nat \X Nat, NEW r \in Nat \X Nat
  PROVE  /\ ~Before(p, p)
         /\ Before(p, q) /\ Before(q, r) => Before(p, r)
         /\ Before(p, q) => ~Before(q, p)
BY DEF Before

LEMMA EntryTyped ==
  ASSUME NEW o \in Occurrences, NEW e \in Versions[o]
  PROVE  ClassifyCandidate(o[1], e) \in Entries /\ e \in Events
BY DEF Entries, Events

LEMMA InitCalendar == Init => CInv
<1> SUFFICES ASSUME Init PROVE CInv
  OBVIOUS
<1>1. calendar \in [Occurrences -> Events]
  BY DEF Init, Events
<1>2. \A o \in Occurrences : calendar[o] \in Versions[o]
  BY DEF Init
<1>3. versions = [o \in Occurrences |-> {calendar[o]}]
      /\ keys = [o \in Occurrences |-> {}] /\ poll = NoPoll
  BY DEF Init
<1>4. /\ poll.at = "idle" /\ poll.cal = 1 /\ poll.after = Start
      /\ poll.entries = <<>> /\ poll.err = None /\ NoPoll \in PollType
  BY <1>3 DEF NoPoll, PollType, Start, ErrorTypes
<1>5. TypeOK
  BY <1>1, <1>3, <1>4 DEF TypeOK
<1>6. History
  BY <1>2, <1>3 DEF History
<1>7. Sourced /\ Counted /\ KeysKnown
  BY <1>3, <1>4 DEF Sourced, Counted, KeysKnown, Reported
<1> QED  BY <1>5, <1>6, <1>7 DEF CInv

(* An organiser changes an event. *)
LEMMA ChangeKeeps ==
  ASSUME CInv, NEW o \in Occurrences, NEW e \in Revisions[o], Change(o, e)
  PROVE  CInv'
<1>1. /\ calendar' = [calendar EXCEPT ![o] = e]
      /\ versions' = [versions EXCEPT ![o] = @ \cup {e}]
      /\ e # calendar[o] /\ poll' = poll /\ keys' = keys
  BY DEF Change
<1>2. e \in Versions[o] /\ e \in Events
  BY CalendarsAssumption, EntryTyped
<1>3. TypeOK'
  BY <1>1, <1>2 DEF CInv, TypeOK
<1>4. /\ calendar'[o] = e /\ versions'[o] = versions[o] \cup {e}
      /\ \A p \in Occurrences : p # o =>
           calendar'[p] = calendar[p] /\ versions'[p] = versions[p]
      /\ \A p \in Occurrences : versions[p] \subseteq versions'[p]
  BY <1>1 DEF CInv, TypeOK
<1>5. History'
  BY <1>2, <1>4 DEF CInv, History
<1>6. Sourced'
  BY <1>1, <1>4 DEF CInv, Sourced
<1>7. KeysKnown'
  BY <1>1 DEF CInv, KeysKnown
<1>8. versions'[o] # {calendar'[o]}
  BY <1>1, <1>4 DEF CInv, History
<1>9. ASSUME NEW p \in Occurrences, Unchanged(p)'
      PROVE  p # o /\ Unchanged(p) /\ calendar'[p] = calendar[p]
             /\ Place(p)' = Place(p)
  BY <1>4, <1>8, <1>9 DEF Unchanged, Listed, Place
<1>10. Counted'
  BY <1>1, <1>9 DEF CInv, Counted, Passed, Reported
<1> QED  BY <1>1, <1>3, <1>5, <1>6, <1>7, <1>10 DEF CInv

(* A poll that has listed nothing. *)
Nothing(at, err) == [NoPoll EXCEPT !.at = at, !.err = err]

LEMMA EmptyPoll ==
  ASSUME NEW at \in {"idle", "list", "done", "returned"}, NEW err \in ErrorTypes,
         NEW q, q = Nothing(at, err)
  PROVE  /\ q.at = at /\ q.err = err /\ q.cal = 1 /\ q.after = Start
         /\ q.entries = <<>> /\ q \in PollType
         /\ Nothing(at, None) = [NoPoll EXCEPT !.at = at]
         /\ Nothing("idle", None) = NoPoll
<1>1. PICK s : s = <<>>
  OBVIOUS
<1>2. PICK start : start = Start
  OBVIOUS
<1>3. PICK r : r = [at |-> "idle", cal |-> 1, after |-> start, entries |-> s,
                    err |-> None]
  OBVIOUS
<1>4. NoPoll = r
  BY <1>1, <1>2, <1>3 DEF NoPoll
<1>5. q = [r EXCEPT !.at = at, !.err = err]
  BY <1>4 DEF Nothing
<1>6. q = [at |-> at, cal |-> 1, after |-> start, entries |-> s, err |-> err]
  BY <1>3, <1>5
<1>7. start \in Nat \X Nat /\ s \in Seq(Entries)
  BY <1>1, <1>2 DEF Start
<1>8. q \in PollType
  BY <1>6, <1>7 DEF PollType
<1>9. [r EXCEPT !.at = at]
        = [at |-> at, cal |-> 1, after |-> start, entries |-> s, err |-> None]
  BY <1>3
<1>10. Nothing(at, None) = [NoPoll EXCEPT !.at = at]
  <2>1. Nothing(at, None) = [r EXCEPT !.at = at, !.err = None]
    BY <1>4 DEF Nothing
  <2>2. Nothing(at, None)
          = [at |-> at, cal |-> 1, after |-> start, entries |-> s, err |-> None]
    BY <1>3, <2>1
  <2> QED  BY <1>4, <1>9, <2>2
<1>11. Nothing("idle", None) = NoPoll
  <2>1. Nothing("idle", None) = [r EXCEPT !.at = "idle", !.err = None]
    BY <1>4 DEF Nothing
  <2>2. Nothing("idle", None) = r
    BY <1>3, <2>1
  <2> QED  BY <1>4, <2>2
<1> QED  BY <1>1, <1>2, <1>6, <1>8, <1>10, <1>11

(* A poll begins, or has no client to begin with. *)
LEMMA BeginKeeps ==
  ASSUME CInv, NEW ok \in BOOLEAN, Begin(ok)
  PROVE  CInv'
<1>1. /\ calendar' = calendar /\ keys' = keys
      /\ versions' = [o \in Occurrences |-> {calendar[o]}]
      /\ poll' = [NoPoll EXCEPT !.at = IF ok THEN "list" ELSE "done",
                                !.err = IF ok THEN None ELSE "setup"]
  BY DEF Begin
<1>2. /\ poll'.at = (IF ok THEN "list" ELSE "done")
      /\ poll'.err = (IF ok THEN None ELSE "setup")
      /\ poll'.cal = 1 /\ poll'.after = Start /\ poll'.entries = <<>>
      /\ poll' \in PollType
  <2>1. PICK at : at = IF ok THEN "list" ELSE "done"
    OBVIOUS
  <2>2. PICK err : err = IF ok THEN None ELSE "setup"
    OBVIOUS
  <2>3. at \in {"idle", "list", "done", "returned"} /\ err \in ErrorTypes
    BY <2>1, <2>2 DEF ErrorTypes
  <2>4. poll' = Nothing(at, err)
    BY <1>1, <2>1, <2>2 DEF Nothing
  <2> QED  BY <2>1, <2>2, <2>3, <2>4, EmptyPoll
<1>3. TypeOK' /\ KeysKnown'
  BY <1>1, <1>2 DEF CInv, TypeOK, KeysKnown
<1>4. History' /\ Sourced'
  BY <1>1, <1>2 DEF CInv, History, Sourced
<1>5. ~Reported'
  BY <1>2 DEF Reported, None
<1>6. ASSUME NEW o \in Occurrences PROVE ~Passed(o)'
  <2>1. o[1] \in Nat \ {0} /\ Before(Start, Place(o))
    BY PlaceType DEF CInv
  <2>2. Place(o)' = Place(o)
    BY <1>1 DEF Place
  <2> QED  BY <1>2, <2>1, <2>2 DEF Passed
<1>7. Counted'
  BY <1>2, <1>5, <1>6 DEF Counted, Never
<1> QED  BY <1>2, <1>3, <1>4, <1>7 DEF CInv

(* A poll fails, or there is none any more. *)
LEMMA DroppedKeeps ==
  ASSUME CInv, UNCHANGED <<calendar, versions, keys>>,
         NEW at \in {"idle", "done", "returned"}, NEW err \in ErrorTypes,
         at = "done" => err # None, at # "done" => err = None,
         poll' = Nothing(at, err)
  PROVE  CInv'
<1>1. /\ poll'.at = at /\ poll'.err = err /\ poll'.entries = <<>>
      /\ poll' \in PollType
  BY EmptyPoll
<1>2. TypeOK' /\ KeysKnown' /\ History' /\ Sourced'
  BY <1>1 DEF CInv, TypeOK, KeysKnown, History, Sourced
<1>3. Counted'
  BY <1>1 DEF Counted, Reported
<1> QED  BY <1>2, <1>3 DEF CInv

LEMMA FailedKeeps ==
  ASSUME CInv, NEW kind \in ErrorTypes \ {None}, Failed(kind)
  PROVE  CInv'
<1>1. poll' = Nothing("done", kind) /\ UNCHANGED <<calendar, versions, keys>>
  BY DEF Failed, Nothing
<1> QED  BY <1>1, DroppedKeeps

LEMMA ListFailsKeeps ==
  ASSUME CInv, NEW cause \in Causes, ListFails(cause)
  PROVE  CInv'
<1>1. ClassifyError(cause) \in ErrorTypes \ {None}
  BY DEF ClassifyError, ErrorTypes, None, Causes
<1>2. Failed(ClassifyError(cause))
  BY DEF ListFails
<1> QED  BY <1>1, <1>2, FailedKeeps

(* The result is taken, or the worker ends. *)
LEMMA PostKeeps ==
  ASSUME CInv, Post \/ WorkerReturns
  PROVE  CInv'
<1>1. UNCHANGED <<calendar, versions, keys>>
  BY DEF Post, WorkerReturns
<1>2. None \in ErrorTypes
  BY DEF ErrorTypes
<1>3. \/ poll' = Nothing("idle", None)
      \/ poll' = Nothing("returned", None)
  <2>1. NoPoll = Nothing("idle", None)
    BY <1>2, EmptyPoll
  <2>2. [NoPoll EXCEPT !.at = "returned"] = Nothing("returned", None)
    BY <1>2, EmptyPoll
  <2> QED  BY <2>1, <2>2 DEF Post, WorkerReturns
<1> QED  BY <1>1, <1>2, <1>3, DroppedKeeps

LEMMA QuietKeeps ==
  ASSUME CInv, UNCHANGED <<calendar, poll, versions, keys>>
  PROVE  CInv'
BY DEF CInv, TypeOK, History, Sourced, Counted, KeysKnown, Passed, Reported,
       Unchanged, Listed, Place

-----------------------------------------------------------------------------
(* A page *)

(* A list and what is put after it. *)
IsJoin(t, s, n, new) ==
  /\ \A i \in DOMAIN s : i \in DOMAIN t /\ t[i] = s[i]
  /\ \A i \in 1..n : /\ Len(s) + i \in DOMAIN t /\ t[Len(s) + i] = new[i]
                     /\ ~(Len(s) + i \in DOMAIN s)
  /\ \A j \in DOMAIN t : j \in DOMAIN s \/ \E i \in 1..n : j = Len(s) + i

LEMMA Joined ==
  ASSUME NEW S, NEW s \in Seq(S), NEW n \in Nat, NEW new \in [1..n -> S],
         NEW t, t = s \o new
  PROVE  t \in Seq(S) /\ IsJoin(t, s, n, new)
<1>1. new \in Seq(S) /\ Len(new) = n /\ DOMAIN new = 1..n
  OBVIOUS
<1>2. /\ t \in Seq(S) /\ Len(t) = Len(s) + n
      /\ \A j \in 1..Len(t) : t[j] = IF j =< Len(s) THEN s[j] ELSE new[j - Len(s)]
  <2>1. new \in Seq(S) /\ Len(new) = n
    BY <1>1
  <2>2. /\ s \o new \in Seq(S) /\ Len(s \o new) = Len(s) + Len(new)
        /\ \A j \in 1..Len(s) + Len(new) :
             (s \o new)[j] = IF j =< Len(s) THEN s[j] ELSE new[j - Len(s)]
    BY <2>1, ConcatProperties
  <2> QED  BY <2>1, <2>2
<1>3. DOMAIN s = 1..Len(s) /\ DOMAIN t = 1..Len(t) /\ Len(s) \in Nat
  BY <1>2
<1>4. ASSUME NEW i \in 1..n
      PROVE  /\ Len(s) + i \in DOMAIN t /\ t[Len(s) + i] = new[i]
             /\ ~(Len(s) + i \in DOMAIN s)
  <2>1. PICK j : j = Len(s) + i
    OBVIOUS
  <2>2. j \in 1..Len(t) /\ ~(j =< Len(s)) /\ j - Len(s) = i
    BY <1>2, <1>3, <2>1
  <2> QED  BY <1>2, <1>3, <2>1, <2>2
<1>5. ASSUME NEW j \in DOMAIN t
      PROVE  j \in DOMAIN s \/ \E i \in 1..n : j = Len(s) + i
  <2>1. CASE j =< Len(s)
    BY <1>2, <1>3, <2>1
  <2>2. CASE ~(j =< Len(s))
    <3>1. j - Len(s) \in 1..n /\ j = Len(s) + (j - Len(s))
      BY <1>2, <1>3, <2>2
    <3> QED  BY <3>1
  <2> QED  BY <2>1, <2>2
<1>6. \A i \in DOMAIN s : i \in DOMAIN t /\ t[i] = s[i]
  BY <1>2, <1>3
<1> QED  BY <1>2, <1>4, <1>5, <1>6 DEF IsJoin

(* How often a key occurs in the joined list. *)
OnlyAt(i, new, n, x) == \A j \in 1..n : new[j].key = x <=> j = i

LEMMA JoinedCount ==
  ASSUME NEW t, NEW s, NEW n, NEW new, IsJoin(t, s, n, new), NEW x
  PROVE  /\ (\A i \in 1..n : new[i].key # x) =>
              (Once(s, x) => Once(t, x)) /\ (Never(s, x) => Never(t, x))
         /\ \A i : i \in 1..n /\ Never(s, x) /\ OnlyAt(i, new, n, x) => Once(t, x)
<1>1. /\ \A i \in DOMAIN s : i \in DOMAIN t /\ t[i] = s[i]
      /\ \A i \in 1..n : Len(s) + i \in DOMAIN t /\ t[Len(s) + i] = new[i]
      /\ \A j \in DOMAIN t : j \in DOMAIN s \/ \E i \in 1..n : j = Len(s) + i
      /\ \A i \in 1..n : ~(Len(s) + i \in DOMAIN s)
  BY DEF IsJoin
<1>2. ASSUME \A i \in 1..n : new[i].key # x
      PROVE  (Once(s, x) => Once(t, x)) /\ (Never(s, x) => Never(t, x))
  <2>1. \A j \in DOMAIN t : t[j].key = x => j \in DOMAIN s /\ s[j].key = x
    BY <1>1, <1>2
  <2>2. ASSUME Once(s, x) PROVE Once(t, x)
    <3>1. PICK k \in DOMAIN s : \A j \in DOMAIN s : s[j].key = x <=> j = k
      BY <2>2 DEF Once
    <3>2. k \in DOMAIN t /\ t[k].key = x
      BY <1>1, <3>1
    <3>3. \A j \in DOMAIN t : t[j].key = x <=> j = k
      BY <2>1, <3>1, <3>2
    <3> QED  BY <3>2, <3>3 DEF Once
  <2>3. Never(s, x) => Never(t, x)
    BY <2>1 DEF Never
  <2> QED  BY <2>2, <2>3
<1>3. ASSUME NEW i \in 1..n, OnlyAt(i, new, n, x), Never(s, x)
      PROVE  Once(t, x)
  <2>a. \A j \in 1..n : new[j].key = x <=> j = i
    BY <1>3 DEF OnlyAt
  <2>1. PICK k : k = Len(s) + i
    OBVIOUS
  <2>2. k \in DOMAIN t /\ t[k].key = x
    BY <1>1, <2>a, <2>1
  <2>3. ASSUME NEW j \in DOMAIN t, t[j].key = x PROVE j = k
    <3>1. ~(j \in DOMAIN s)
      BY <1>1, <1>3, <2>3 DEF Never
    <3>2. PICK h \in 1..n : j = Len(s) + h
      BY <1>1, <3>1
    <3>3. new[h].key = x
      BY <1>1, <2>3, <3>2
    <3> QED  BY <2>a, <2>1, <3>2, <3>3
  <2> QED  BY <2>2, <2>3 DEF Once
<1> QED  BY <1>2, <1>3

(* A page names every occurrence at most once, none that the poll is past   *)
(* of, and passes over none of the rest.                                    *)
LEMMA PageFacts ==
  ASSUME CInv, NEW n \in 0..Cardinality(Remaining),
         NEW page \in [1..n -> Remaining], IsPage(page)
  PROVE  /\ n \in Nat
         /\ \A i \in 1..n : /\ page[i] \in Occurrences /\ page[i][1] = poll.cal
                            /\ Before(poll.after, Place(page[i])) /\ ~Passed(page[i])
         /\ \A i, j \in 1..n : page[i] = page[j] => i = j
         /\ \A i \in 1..n : n \in 1..n /\ ~Before(Place(page[n]), Place(page[i]))
<1>1. n \in Nat
  <2>1. IsFiniteSet(Remaining)
    <3>1. Remaining \subseteq Occurrences
      BY DEF Remaining
    <3> QED  BY <3>1, CalendarsAssumption, FS_Subset
  <2> QED  BY <2>1, FS_CardinalityType
<1>2. ASSUME NEW i \in 1..n
      PROVE  /\ page[i] \in Occurrences /\ page[i][1] = poll.cal
             /\ Before(poll.after, Place(page[i]))
             /\ Place(page[i]) \in Nat \X Nat
  <2>1. page[i] \in Remaining
    OBVIOUS
  <2>2. page[i] \in Occurrences
    BY <2>1 DEF Remaining
  <2> QED  BY <2>1, <2>2, PlaceType DEF Remaining, CInv
<1>3. \A i \in 1..n : ~Passed(page[i])
  <2>1. poll.cal \in Nat
    BY DEF CInv, TypeOK, PollType
  <2> QED  BY <1>2, <2>1 DEF Passed
<1>4. \A i, j \in 1..n : i < j => Before(Place(page[i]), Place(page[j]))
  BY DEF IsPage
<1>5. ASSUME NEW i \in 1..n, NEW j \in 1..n, page[i] = page[j]
      PROVE  i = j
  <2>1. ~Before(Place(page[i]), Place(page[j]))
    BY <1>2, <1>5, OrderOfPlaces
  <2>2. ~Before(Place(page[j]), Place(page[i]))
    BY <1>2, <1>5, OrderOfPlaces
  <2> QED  BY <1>1, <1>4, <2>1, <2>2
<1>6. ASSUME NEW i \in 1..n
      PROVE  n \in 1..n /\ ~Before(Place(page[n]), Place(page[i]))
  <2>1. n \in 1..n
    BY <1>1
  <2>2. CASE i = n
    BY <1>2, <2>1, <2>2, OrderOfPlaces
  <2>3. CASE i < n
    <3>1. Before(Place(page[i]), Place(page[n]))
      BY <1>4, <2>1, <2>3
    <3> QED  BY <1>2, <2>1, <3>1, OrderOfPlaces
  <2> QED  BY <1>1, <2>1, <2>2, <2>3
<1> QED  BY <1>1, <1>2, <1>3, <1>5, <1>6

(* The calendars are numbered without a gap. *)
LEMMA LaterCalendar ==
  ASSUME NEW c \in Nat, c + 1 \notin Calendars, NEW o \in Occurrences
  PROVE  o[1] =< c
<1>1. PICK f : f = [p \in Occurrences |-> p[1]]
  OBVIOUS
<1>2. f \in Surjection(Occurrences, Calendars)
  BY <1>1 DEF Surjection, Calendars
<1>3. IsFiniteSet(Calendars)
  BY <1>2, FS_Surjection, CalendarsAssumption
<1>4. Cardinality(Calendars) \in Nat
  BY <1>3, FS_CardinalityType
<1>5. o[1] \in Calendars
  BY DEF Calendars
<1> QED  BY <1>4, <1>5, CalendarsAssumption

(* Where a page takes the poll, and what is behind a place. *)
Moves(at, cal, after, n, page, more) ==
  /\ at = IF more \/ poll.cal + 1 \in Calendars THEN "list" ELSE "done"
  /\ cal = IF more \/ poll.cal + 1 \notin Calendars THEN poll.cal ELSE poll.cal + 1
  /\ after = IF ~more THEN Start
             ELSE IF n = 0 THEN poll.after ELSE Place(page[n])

Behind(o, cal, after) == o[1] < cal \/ (o[1] = cal /\ ~Before(after, Place(o)))

LEMMA PageMoves ==
  ASSUME CInv, poll.at = "list", NEW n \in 0..Cardinality(Remaining),
         NEW page \in [1..n -> Remaining], NEW more \in BOOLEAN,
         IsPage(page), ToSet(page) # Remaining => more,
         NEW at, NEW cal, NEW after, Moves(at, cal, after, n, page, more),
         NEW o \in Occurrences, Listed(o)
  PROVE  /\ at = "list" =>
              (Behind(o, cal, after) <=> Passed(o) \/ \E i \in 1..n : page[i] = o)
         /\ at = "done" => Passed(o) \/ \E i \in 1..n : page[i] = o
<1>a. /\ at = IF more \/ poll.cal + 1 \in Calendars THEN "list" ELSE "done"
      /\ cal = IF more \/ poll.cal + 1 \notin Calendars THEN poll.cal ELSE poll.cal + 1
      /\ after = IF ~more THEN Start
                 ELSE IF n = 0 THEN poll.after ELSE Place(page[n])
  BY DEF Moves
<1>b. Behind(o, cal, after) <=>
        (o[1] < cal \/ (o[1] = cal /\ ~Before(after, Place(o))))
  BY DEF Behind
<1>1. /\ poll.cal \in Nat /\ poll.after \in Nat \X Nat
      /\ Start \in Nat \X Nat
  BY DEF CInv, TypeOK, PollType, Start
<1>2. /\ n \in Nat
      /\ \A i \in 1..n : /\ page[i] \in Occurrences /\ page[i][1] = poll.cal
                         /\ Before(poll.after, Place(page[i]))
      /\ \A i \in 1..n : n \in 1..n /\ ~Before(Place(page[n]), Place(page[i]))
  BY PageFacts
<1>3. /\ Place(o) \in Nat \X Nat /\ o[1] \in Nat /\ Before(Start, Place(o))
      /\ n # 0 => Place(page[n]) \in Nat \X Nat
                  /\ Before(poll.after, Place(page[n]))
  <2>1. n # 0 => n \in 1..n
    BY <1>2
  <2> QED  BY <1>2, <2>1, PlaceType DEF CInv
<1>4. cal \in Nat /\ after \in Nat \X Nat
  BY <1>a, <1>1, <1>3
<1>5. CASE \E i \in 1..n : page[i] = o
  <2>1. PICK i \in 1..n : page[i] = o
    BY <1>5
  <2>2. o[1] = poll.cal /\ n # 0 /\ ~Before(Place(page[n]), Place(o))
    BY <1>2, <2>1
  <2>3. CASE more
    BY <1>a, <1>b, <1>4, <1>5, <2>2, <2>3
  <2>4. CASE ~more
    BY <1>a, <1>b, <1>1, <1>4, <1>5, <2>2, <2>4
  <2> QED  BY <2>3, <2>4
<1>6. CASE Passed(o) /\ ~(\E i \in 1..n : page[i] = o)
  <2>1. o[1] < poll.cal \/ (o[1] = poll.cal /\ ~Before(poll.after, Place(o)))
    BY <1>6 DEF Passed
  <2>2. CASE more /\ n # 0
    <3>1. Before(Place(page[n]), Place(o)) => Before(poll.after, Place(o))
      BY <1>1, <1>3, <2>2, OrderOfPlaces
    <3>2. after = Place(page[n]) /\ cal = poll.cal /\ at = "list"
      BY <1>a, <2>2
    <3>3. Behind(o, cal, after)
      BY <1>b, <2>1, <3>1, <3>2
    <3> QED  BY <1>6, <3>2, <3>3
  <2>3. CASE more /\ n = 0
    BY <1>a, <1>b, <1>4, <1>6, <2>1, <2>3
  <2>4. CASE ~more
    BY <1>a, <1>b, <1>1, <1>3, <1>4, <1>6, <2>1, <2>4
  <2> QED  BY <2>2, <2>3, <2>4
<1>7. CASE ~Passed(o) /\ ~(\E i \in 1..n : page[i] = o)
  <2>1. o[1] > poll.cal \/ (o[1] = poll.cal /\ Before(poll.after, Place(o)))
    BY <1>1, <1>3, <1>7 DEF Passed
  <2>2. CASE o[1] = poll.cal
    <3>1. o \in Remaining /\ o \notin ToSet(page)
      <4>1. o \in Remaining
        BY <1>1, <1>3, <2>1, <2>2 DEF Remaining
      <4>2. DOMAIN page = 1..n
        OBVIOUS
      <4>3. o \notin ToSet(page)
        <5>1. ToSet(page) = {page[i] : i \in 1..n}
          BY <4>2 DEF ToSet
        <5>2. \A i \in 1..n : page[i] # o
          BY <1>7
        <5> QED  BY <5>1, <5>2
      <4> QED  BY <4>1, <4>3
    <3>2. more /\ \A i \in 1..n : Before(Place(page[i]), Place(o))
      BY <3>1 DEF IsPage
    <3>3. Before(after, Place(o))
      <4>1. CASE n = 0
        <5>1. after = poll.after
          BY <1>a, <3>2, <4>1
        <5>2. Before(poll.after, Place(o))
          BY <1>1, <2>1, <2>2
        <5> QED  BY <5>1, <5>2
      <4>2. CASE n # 0
        <5>1. after = Place(page[n]) /\ n \in 1..n
          BY <1>a, <1>2, <3>2, <4>2
        <5> QED  BY <3>2, <5>1
      <4> QED  BY <4>1, <4>2
    <3> QED  BY <1>a, <1>b, <1>4, <1>7, <2>2, <3>2, <3>3
  <2>3. CASE o[1] > poll.cal
    <3>1. poll.cal + 1 \in Calendars
      BY <1>1, <1>3, <2>3, LaterCalendar
    <3>2. CASE more
      BY <1>a, <1>b, <1>1, <1>3, <1>4, <1>7, <2>3, <3>1, <3>2
    <3>3. CASE ~more
      <4>1. cal = poll.cal + 1 /\ after = Start /\ at = "list"
        BY <1>a, <3>1, <3>3
      <4> QED  BY <1>a, <1>b, <1>1, <1>3, <1>4, <1>7, <2>3, <4>1
    <3> QED  BY <3>2, <3>3
  <2> QED  BY <2>1, <2>2, <2>3
<1> QED  BY <1>5, <1>6, <1>7

(* A page is listed. *)
LEMMA ListPageKeeps ==
  ASSUME CInv, NEW n \in 0..Cardinality(Remaining),
         NEW page \in [1..n -> Remaining], NEW more \in BOOLEAN,
         ListPage(n, page, more)
  PROVE  CInv'
<1>1. poll.at = "list" /\ IsPage(page) /\ (ToSet(page) # Remaining => more)
  BY DEF ListPage
<1>2. CASE \E i \in 1..n : ~adaptEvent(calendar[page[i]])
  <2>1. Failed("permanent")
    BY <1>2 DEF ListPage
  <2> QED  BY <2>1, FailedKeeps DEF ErrorTypes, None
<1>3. CASE ~(\E i \in 1..n : ~adaptEvent(calendar[page[i]]))
  <2>1. PICK new : new = [i \in 1..n |-> ClassifyCandidate(poll.cal, calendar[page[i]])]
    OBVIOUS
  <2>2. PICK at : at = IF more \/ poll.cal + 1 \in Calendars THEN "list" ELSE "done"
    OBVIOUS
  <2>3. PICK cal : cal = IF more \/ poll.cal + 1 \notin Calendars THEN poll.cal
                         ELSE poll.cal + 1
    OBVIOUS
  <2>4. PICK after : after = IF ~more THEN Start
                             ELSE IF n = 0 THEN poll.after ELSE Place(page[n])
    OBVIOUS
  <2>5. PICK entries : entries = poll.entries \o new
    OBVIOUS
  <2>6. /\ UNCHANGED <<calendar, versions>>
        /\ keys' = [o \in Occurrences |-> keys[o] \cup
             {OccurrenceKey(o[1], calendar[o]) : i \in {i \in 1..n : page[i] = o}}]
    BY <1>3 DEF ListPage
  <2>7. poll' = [poll EXCEPT !.entries = entries, !.after = after,
                             !.cal = cal, !.at = at]
    BY <1>1, <1>3, <2>1, <2>2, <2>3, <2>4, <2>5 DEF ListPage
  <2>8. poll \in PollType /\ poll.entries \in Seq(Entries)
    BY DEF CInv, TypeOK, PollType
  <2>9. /\ n \in Nat
        /\ \A i \in 1..n : page[i] \in Occurrences /\ page[i][1] = poll.cal
                           /\ ~Passed(page[i])
        /\ \A i, j \in 1..n : page[i] = page[j] => i = j
    BY <1>1, PageFacts
  <2>10. \A i \in 1..n :
           /\ calendar[page[i]] \in Versions[page[i]] /\ adaptEvent(calendar[page[i]])
           /\ new[i] = ClassifyCandidate(page[i][1], calendar[page[i]])
           /\ new[i] \in Entries /\ new[i].key = KeyOf(page[i], calendar[page[i]])
    BY <1>3, <2>1, <2>9, EntryTyped, EntryKey DEF CInv, History, KeyOf
  <2>11. new \in [1..n -> Entries]
    BY <2>1, <2>10
  <2>12. entries \in Seq(Entries) /\ IsJoin(entries, poll.entries, n, new)
    BY <2>5, <2>8, <2>9, <2>11, Joined
  <2>13. ASSUME NEW o \in Occurrences, Listed(o)
         PROVE  /\ at = "list" =>
                     (Behind(o, cal, after)
                        <=> Passed(o) \/ \E i \in 1..n : page[i] = o)
                /\ at = "done" => Passed(o) \/ \E i \in 1..n : page[i] = o
    <3>1. Moves(at, cal, after, n, page, more)
      BY <2>2, <2>3, <2>4 DEF Moves
    <3> QED  BY <1>1, <2>13, <3>1, PageMoves
  <2>14. cal \in Nat /\ after \in Nat \X Nat
    <3>1. poll.cal \in Nat /\ poll.after \in Nat \X Nat
      BY <2>8 DEF PollType
    <3>2. n # 0 => Place(page[n]) \in Nat \X Nat
      <4>1. n # 0 => page[n] \in Occurrences
        BY <2>9
      <4> QED  BY <4>1, PlaceType DEF CInv
    <3> QED  BY <2>3, <2>4, <3>1, <3>2 DEF Start
  <2>15. /\ poll'.at = at /\ poll'.cal = cal /\ poll'.after = after
         /\ poll'.entries = entries /\ poll'.err = poll.err
         /\ poll' \in PollType
    BY <2>2, <2>7, <2>8, <2>12, <2>14 DEF PollType
  <2>16. ASSUME NEW o \in Occurrences, NEW x \in keys'[o]
         PROVE  /\ x \in {KeyOf(p, e) : p \in Occurrences, e \in Events}
                /\ \E e \in Versions[o] : adaptEvent(e) /\ x = KeyOf(o, e)
    <3>1. CASE x \in keys[o]
      <4>1. PICK e \in Versions[o] : adaptEvent(e) /\ x = KeyOf(o, e)
        BY <3>1 DEF CInv, KeysKnown
      <4> QED  BY <4>1, EntryTyped
    <3>2. CASE x \notin keys[o]
      <4>1. PICK i \in 1..n : page[i] = o /\ x = KeyOf(o, calendar[o])
        BY <2>6, <3>2 DEF KeyOf
      <4> QED  BY <2>10, <4>1, EntryTyped
    <3> QED  BY <3>1, <3>2
  <2>17. TypeOK'
    <3>1. keys' \in [Occurrences ->
                       SUBSET {KeyOf(o, e) : o \in Occurrences, e \in Events}]
      <4> DEFINE D == {KeyOf(o, e) : o \in Occurrences, e \in Events}
      <4>1. \A o \in Occurrences : \A x \in keys'[o] : x \in D
        BY <2>16
      <4>2. \A o \in Occurrences : keys'[o] \in SUBSET D
        BY <4>1
      <4> HIDE DEF D
      <4>3. keys' = [o \in Occurrences |-> keys'[o]]
        BY <2>6
      <4>4. keys' \in [Occurrences -> SUBSET D]
        BY <4>2, <4>3
      <4> QED  BY <4>4 DEF D
    <3>2. calendar' = calendar /\ versions' = versions /\ poll' \in PollType
      BY <2>6, <2>15
    <3> QED  BY <3>1, <3>2 DEF CInv, TypeOK
  <2>18. KeysKnown' /\ History'
    BY <2>6, <2>16 DEF CInv, History, KeysKnown
  <2>19. Sourced'
    <3>1. ASSUME NEW k \in DOMAIN entries
          PROVE  \E o \in Occurrences : \E e \in versions[o] :
                   adaptEvent(e) /\ entries[k] = ClassifyCandidate(o[1], e)
      <4>1. CASE k \in DOMAIN poll.entries
        <5>1. entries[k] = poll.entries[k]
          BY <2>12, <4>1 DEF IsJoin
        <5> QED  BY <4>1, <5>1 DEF CInv, Sourced
      <4>2. CASE k \notin DOMAIN poll.entries
        <5>1. PICK i \in 1..n : entries[k] = new[i]
          BY <2>12, <3>1, <4>2 DEF IsJoin
        <5>2. page[i] \in Occurrences /\ calendar[page[i]] \in versions[page[i]]
          BY <2>9 DEF CInv, History
        <5> QED  BY <2>10, <5>1, <5>2
      <4> QED  BY <4>1, <4>2
    <3> QED  BY <2>6, <2>15, <3>1 DEF Sourced
  <2>20. ASSUME NEW o \in Occurrences, Unchanged(o), NEW key,
                key = KeyOf(o, calendar[o])
         PROVE  /\ Passed(o) \/ (\E i \in 1..n : page[i] = o) =>
                     adaptEvent(calendar[o]) /\ Once(entries, key)
                /\ ~Passed(o) /\ ~(\E i \in 1..n : page[i] = o)
                     /\ adaptEvent(calendar[o]) => Never(entries, key)
    <3>1. /\ Passed(o) => adaptEvent(calendar[o]) /\ Once(poll.entries, key)
          /\ ~Passed(o) /\ adaptEvent(calendar[o]) => Never(poll.entries, key)
      BY <1>1, <2>20 DEF CInv, Counted
    <3>2. adaptEvent(calendar[o]) =>
            \A i \in 1..n : new[i].key = key <=> page[i] = o
      <4>1. calendar[o] \in Versions[o]
        BY DEF CInv, History
      <4> QED  BY <2>9, <2>10, <2>20, <4>1, KeysAreIdentities DEF KeyOf
    <3>3. CASE \E i \in 1..n : page[i] = o
      <4>1. PICK i \in 1..n : page[i] = o
        BY <3>3
      <4>2. ~Passed(o) /\ adaptEvent(calendar[o])
        BY <2>9, <2>10, <4>1
      <4>3. OnlyAt(i, new, n, key)
        BY <2>9, <3>2, <4>1, <4>2 DEF OnlyAt
      <4>4. Never(poll.entries, key)
        BY <3>1, <4>2
      <4>5. Once(entries, key)
        BY <2>12, <4>3, <4>4, JoinedCount
      <4> QED  BY <3>3, <4>2, <4>5
    <3>4. CASE ~(\E i \in 1..n : page[i] = o)
      <4>1. adaptEvent(calendar[o]) => \A i \in 1..n : new[i].key # key
        BY <3>2, <3>4
      <4>2. adaptEvent(calendar[o]) =>
              /\ Once(poll.entries, key) => Once(entries, key)
              /\ Never(poll.entries, key) => Never(entries, key)
        BY <2>12, <4>1, JoinedCount
      <4> QED  BY <3>1, <3>4, <4>2
    <3> QED  BY <3>3, <3>4
  <2>21. ASSUME NEW o \in Occurrences, Unchanged(o)'
         PROVE  /\ Unchanged(o) /\ Listed(o) /\ Place(o)' = Place(o)
                /\ KeyOf(o, calendar[o])' = KeyOf(o, calendar[o])
    BY <2>6, <2>21 DEF Unchanged, Listed, Place, KeyOf
  <2>22. Counted'
    <3> SUFFICES ASSUME NEW o \in Occurrences, Unchanged(o)'
                 PROVE  LET key == KeyOf(o, calendar[o])' IN
                        /\ poll'.at = "list" /\ Passed(o)' =>
                             adaptEvent(calendar[o])' /\ Once(poll'.entries, key)
                        /\ poll'.at = "list" /\ ~Passed(o)'
                             /\ adaptEvent(calendar[o])' =>
                               Never(poll'.entries, key)
                        /\ Reported' => Once(poll'.entries, key)
      BY DEF Counted, Once, Never
    <3>1. PICK key : key = KeyOf(o, calendar[o])
      OBVIOUS
    <3>2. /\ Unchanged(o) /\ Listed(o) /\ Place(o)' = Place(o)
          /\ KeyOf(o, calendar[o])' = key
      BY <2>21, <3>1
    <3>3. Passed(o)' <=> Behind(o, cal, after)
      BY <2>15, <3>2 DEF Passed, Behind
    <3>4. adaptEvent(calendar[o])' <=> adaptEvent(calendar[o])
      BY <2>6
    <3>5. Reported' => at = "done"
      BY <2>15 DEF Reported
    <3> QED  BY <2>13, <2>15, <2>20, <3>1, <3>2, <3>3, <3>4, <3>5
  <2> QED  BY <2>17, <2>18, <2>19, <2>22 DEF CInv
<1> QED  BY <1>2, <1>3

-----------------------------------------------------------------------------
(* The theorems *)

LEMMA NextCalendar ==
  ASSUME CInv, [Next]_vars
  PROVE  CInv'
<1>1. CASE \E o \in Occurrences : \E e \in Revisions[o] : Change(o, e)
  BY <1>1, ChangeKeeps
<1>2. CASE \E ok \in BOOLEAN : Begin(ok)
  BY <1>2, BeginKeeps
<1>3. CASE \E n \in 0..Cardinality(Remaining) :
             \E page \in [1..n -> Remaining], more \in BOOLEAN : ListPage(n, page, more)
  BY <1>3, ListPageKeeps
<1>4. CASE \E cause \in Causes \ {"canceled", "deadline"} : ListFails(cause)
  BY <1>4, ListFailsKeeps
<1>5. CASE Expire \/ Cancelled
  BY <1>5, ListFailsKeeps DEF Expire, Cancelled, Causes
<1>6. CASE Stop
  BY <1>6, QuietKeeps DEF Stop
<1>7. CASE Post \/ WorkerReturns
  BY <1>7, PostKeeps
<1>8. CASE UNCHANGED vars
  BY <1>8, QuietKeeps DEF vars
<1> QED  BY <1>1, <1>2, <1>3, <1>4, <1>5, <1>6, <1>7, <1>8 DEF Next

LEMMA CalendarInvariant == Spec => []CInv
<1>1. CInv /\ [Next]_vars => CInv'
  BY NextCalendar
<1> QED  BY <1>1, InitCalendar, PTL DEF Spec

(* Nothing that stays as it is while a poll runs is lost between two pages  *)
(* or calendars, or reported twice: a poll that succeeds has exactly one    *)
(* entry for it, however the pages were cut and whatever else was moved     *)
(* under them.                                                              *)
THEOREM PollsAreComplete == Spec => []Complete
<1>1. CInv => Complete
  BY DEF CInv, Counted, Unchanged, Once, KeyOf, Complete
<1> QED  BY <1>1, CalendarInvariant, PTL

(* Whatever a poll reports was so of some event while it ran: a meeting is  *)
(* a live, timed event with its most authoritative trusted link, and an     *)
(* observation says why an event is none.                                   *)
THEOREM ReportsAreTrue == PatternsMeant => (Spec => []WasSo)
<1> SUFFICES ASSUME PatternsMeant PROVE Spec => []WasSo
  OBVIOUS
<1>1. ASSUME CInv PROVE WasSo
  <2> SUFFICES ASSUME NEW k \in DOMAIN poll.entries, NEW m, m = poll.entries[k]
               PROVE  \E o \in Occurrences : \E e \in versions[o] :
                        /\ m.key = OccurrenceKey(o[1], e)
                        /\ IF m.kind = "meeting"
                             THEN m.start = Instant(e.start) /\ Live(e) /\ Best(e, m.url)
                             ELSE /\ ~Live(e)
                                  /\ (m.reason \in {"cancelled", "declined"})
                                       # (m.exclusion \in Exclusions)
    BY DEF WasSo
  <2>a. PICK o \in Occurrences :
          \E e \in versions[o] : adaptEvent(e) /\ m = ClassifyCandidate(o[1], e)
    BY <1>1 DEF CInv, Sourced
  <2>1. PICK e \in versions[o] : adaptEvent(e) /\ m = ClassifyCandidate(o[1], e)
    BY <2>a
  <2>2. e \in Versions[o]
    BY <1>1 DEF CInv, History
  <2>3. m.key = OccurrenceKey(o[1], e)
    BY <2>1, EntryKey
  <2>4. IF m.kind = "meeting"
          THEN m.start = Instant(e.start) /\ Live(e) /\ Best(e, m.url)
          ELSE /\ ~Live(e)
               /\ (m.reason \in {"cancelled", "declined"})
                    # (m.exclusion \in Exclusions)
    BY <2>1, <2>2, EntryIsTrue
  <2> QED  BY <2>3, <2>4
<1>2. CInv => WasSo
  BY <1>1
<1> QED  BY <1>2, CalendarInvariant, PTL

(* The key of an occurrence is the same in every version and poll, and no   *)
(* other occurrence has it.                                                 *)
THEOREM KeysIdentify == Spec => []OneKey
<1>1. ASSUME CInv PROVE OneKey
  <2> SUFFICES ASSUME NEW o \in Occurrences, NEW p \in Occurrences,
                      NEW x \in keys[o], NEW y \in keys[p]
               PROVE  (o = p) <=> (x = y)
    BY DEF OneKey
  <2>1. PICK e \in Versions[o] : adaptEvent(e) /\ x = KeyOf(o, e)
    BY <1>1 DEF CInv, KeysKnown
  <2>2. PICK f \in Versions[p] : adaptEvent(f) /\ y = KeyOf(p, f)
    BY <1>1 DEF CInv, KeysKnown
  <2> QED  BY <2>1, <2>2, KeysAreIdentities DEF KeyOf
<1>2. CInv => OneKey
  BY <1>1
<1> QED  BY <1>2, CalendarInvariant, PTL

(* Every link that is announced is opened by the launcher, on a trusted     *)
(* host, but for a Zoom link whose query cannot be parsed.                  *)
THEOREM AnnouncedCanBeJoined == PatternsMeant => (Spec => []Joinable)
<1> SUFFICES ASSUME PatternsMeant PROVE Spec => []Joinable
  OBVIOUS
<1>1. ASSUME CInv PROVE Joinable
  <2> SUFFICES ASSUME NEW k \in DOMAIN poll.entries, NEW m, m = poll.entries[k],
                      m.kind = "meeting"
               PROVE  /\ Open(m.url) # {} \/ (m.url.zoom /\ ~m.url.query)
                      /\ \A l \in Open(m.url) : Trusted(l)
    BY DEF Joinable
  <2>a. PICK o \in Occurrences :
          \E e \in versions[o] : adaptEvent(e) /\ m = ClassifyCandidate(o[1], e)
    BY <1>1 DEF CInv, Sourced
  <2>1. PICK e \in versions[o] : adaptEvent(e) /\ m = ClassifyCandidate(o[1], e)
    BY <2>a
  <2>2. e \in Versions[o]
    BY <1>1 DEF CInv, History
  <2> QED  BY <2>1, <2>2, EntryCanBeOpened
<1>2. CInv => Joinable
  BY <1>1
<1> QED  BY <1>2, CalendarInvariant, PTL
=============================================================================
