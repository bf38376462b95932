---------------------------- MODULE CalendarSource ----------------------------
(***************************************************************************)
(* One account's calendar source: RunPollWorker runs SyncAccount, which     *)
(* lists the account's calendars one after the other and page by page,      *)
(* adapts every event and classifies it as a meeting or as an observation   *)
(* about one.  Organisers change events while the pages are read.           *)
(*                                                                          *)
(* A link is a record of what the code tells apart in its text, a host is   *)
(* the sequence of its labels from the root (a final dot is an empty root   *)
(* label), and a time is a form, a reading of the clock and the zone of the *)
(* reading, as the hours that the zone is west of UTC.  Meetings and        *)
(* observations are entries of one list, for which the code has two: no     *)
(* event adds to both, and nothing asks which of the two came first.        *)
(***************************************************************************)
EXTENDS Naturals, FiniteSets, SequencesExt

CONSTANTS
  Versions,      \* for each occurrence <<c, i>>, event i of calendar c of the
                 \* bundle, what it may be at first
  Revisions,     \* and the versions that an organiser may change it to
  AllowedHosts,  \* the configured patterns, [wild: BOOLEAN, host: labels]
  TrustedHosts,  \* the hosts that these patterns stand for
  From, End,     \* the window that is polled
  MaxChanges,    \* bound: changes that organisers make
  MaxPolls       \* bound: polls

None == "none"
Occurrences == DOMAIN Versions
Calendars == {o[1] : o \in Occurrences}

Before(p, q) == p[1] < q[1] \/ (p[1] = q[1] /\ p[2] < q[2])

ASSUME CalendarsAssumption ==
  /\ IsFiniteSet(Occurrences) /\ Occurrences \subseteq (Nat \ {0}) \X (Nat \ {0})
  /\ Calendars = 1..Cardinality(Calendars)
  /\ \A o \in Occurrences : Revisions[o] \subseteq Versions[o]

VARIABLES
  calendar,  \* what Google has for each occurrence
  left,      \* changes and polls that the bounds still allow
  running,   \* the context of the worker is not cancelled
  poll,      \* SyncAccount: where it is, the calendar and the place in its
             \* list, the result so far and the kind of its error
  versions,  \* history: what each occurrence has been since the poll began
  keys       \* history: the keys that each occurrence has been given

vars == <<calendar, left, running, poll, versions, keys>>

Exclusions == {"all-day", "missing-start", "malformed-url", "missing-url",
               "unsupported-url"}

-----------------------------------------------------------------------------
(* Links *)

(* The form of a link's text is blank, broken (not a URL), http (a URL of   *)
(* another scheme), user (one with user info) or https.                     *)

Hostname(host) ==
  IF host # <<>> /\ Head(host) = "" THEN Tail(host) ELSE host

(* Mutant: a wildcard also stands for the parent itself. *)
AllowedParent(host) ==
  \E allowed \in AllowedHosts :
    IF allowed.wild THEN IsPrefix(Hostname(allowed.host), host)
                    ELSE host = Hostname(allowed.host)

allowedHost(host) ==
  \E allowed \in AllowedHosts :
    IF allowed.wild THEN IsStrictPrefix(Hostname(allowed.host), host)
                    ELSE host = Hostname(allowed.host)

ValidateURL(link) ==
  link.form = "https" /\ link.host # <<>> /\ allowedHost(Hostname(link.host))

(* The fields of an event that may hold links, the best first, and the link *)
(* at a place of them.                                                      *)
Fields(e) == <<e.conference, <<e.hangout>>, e.location, e.description>>
At(e, p) == Fields(e)[p[1]][p[2]]

(* The links that the expression httpsURL finds in a text. *)
extractURLs(text) ==
  {i \in DOMAIN text : text[i].form \in {"broken", "user", "https"}}

(* The places of the links; only the last two fields are texts. *)
allURLs(e) ==
  UNION {{f} \X (IF f > 2 THEN extractURLs(Fields(e)[f])
                  ELSE DOMAIN Fields(e)[f]) : f \in 1..4}

(* The first of some places, as a set of one, or of none if there are none. *)
First(P) == {p \in P : \A q \in P : p = q \/ Before(p, q)}

(* The first valid link, or none. *)
selectURL(e) ==
  {At(e, p) : p \in First({q \in allURLs(e) : ValidateURL(At(e, q))})}

(* The first link that is not blank decides. *)
classifyURLExclusion(e) ==
  LET raw == {At(e, p) : p \in First({q \in allURLs(e) : At(e, q).form # "blank"})}
  IN IF raw = {} THEN "missing-url"
     ELSE IF \A link \in raw : link.form = "https" /\ link.host # <<>>
          THEN "unsupported-url" ELSE "malformed-url"

(* Mutant: the web client of every Zoom meeting is on one host. *)
ZoomOneHost(link) ==
  IF link.zoom /\ IsPrefix(<<"us", "zoom">>, Hostname(link.host))
    THEN IF link.query
           THEN {[link EXCEPT !.zoom = FALSE, !.host = <<"us", "zoom">>]}
           ELSE {}
    ELSE {link}

(* A Zoom join link becomes the one of the web client, on the same host, if *)
(* its query can be parsed; zoom says that the path is a join path.         *)
ZoomWebClientURL(link) ==
  IF link.zoom /\ IsPrefix(<<"us", "zoom">>, Hostname(link.host))
    THEN IF link.query THEN {[link EXCEPT !.zoom = FALSE]} ELSE {}
    ELSE {link}

(* launcher.Client.Open, up to the command: the link it is run with, if any. *)
Open(link) ==
  {l \in UNION {ZoomWebClientURL(v) : v \in {v \in {link} : ValidateURL(v)}} :
     ValidateURL(l)}

-----------------------------------------------------------------------------
(* Events *)

(* The form of a time is None, date, offset (a time with its offset), zone  *)
(* (one with the name of its zone) or bad, if it cannot be parsed.          *)

Instant(t) == IF t.form = None THEN 0 ELSE t.clock + t.west

parseEventTime(t) == t.form # "bad"

parseRequiredEventTime(t) == t.form \notin {None, "bad"}

(* adaptEvent: whether the event can be decoded. *)
adaptEvent(e) ==
  /\ parseEventTime(e.start) /\ parseEventTime(e.end)
  /\ e.series # None => parseRequiredEventTime(e.original)

(* Mutant: an instance is known by the time it now begins. *)
KeyOfStart(c, e) ==
  IF e.series # None THEN <<c, e.series, {Instant(e.start)}>>
                     ELSE <<c, e.id, {}>>

(* The key, before it is hashed: an instance of a series is known by its    *)
(* original start in UTC.                                                   *)
OccurrenceKey(c, e) ==
  IF e.series # None THEN <<c, e.series, {Instant(e.original)}>>
                     ELSE <<c, e.id, {}>>

Meeting(c, e, url) ==
  [kind |-> "meeting", key |-> OccurrenceKey(c, e), start |-> Instant(e.start),
   end |-> Instant(e.end), url |-> url]

Observation(c, e, reason, exclusion) ==
  [kind |-> "observation", key |-> OccurrenceKey(c, e), reason |-> reason,
   exclusion |-> exclusion]

(* The exclusion of an event that is neither cancelled nor declined, or None. *)
normalizeCandidate(e) ==
  IF e.start.form = "date" THEN "all-day"
  ELSE IF e.start.form = None THEN "missing-start"
  ELSE IF selectURL(e) = {} THEN classifyURLExclusion(e)
  ELSE None

(* What an event adds to the result: a meeting, or an observation. *)
ClassifyCandidate(c, e) ==
  LET reason == IF e.cancelled THEN "cancelled"
                ELSE IF e.declined THEN "declined" ELSE None
      exclusion == IF reason = None THEN normalizeCandidate(e) ELSE None
  IN IF reason = None /\ exclusion = None
       THEN Meeting(c, e, CHOOSE link \in selectURL(e) : TRUE)
       ELSE Observation(c, e, reason, exclusion)

-----------------------------------------------------------------------------
(* Google (external) *)

LinkType == [form: {"blank", "broken", "http", "user", "https"},
             host: Seq(STRING), zoom: BOOLEAN, query: BOOLEAN]

ASSUME EventsAssumption ==
  \A o \in Occurrences : \A e \in Versions[o] :
    /\ e.start.form \in {None, "date", "offset", "zone", "bad"}
    /\ Instant(e.start) \in Nat
    /\ {e.cancelled, e.declined} \subseteq BOOLEAN
    /\ \A f \in 1..4 : Fields(e)[f] \in Seq(LinkType)

(* An event keeps its id and its series, and an instance of a series the    *)
(* instant at which it was to start; ids tell the events of a calendar      *)
(* apart, and original starts the instances of a series.                    *)
ASSUME IdentityAssumption ==
  \A o, p \in Occurrences : \A x \in Versions[o], y \in Versions[p] :
    /\ o = p => x.id = y.id /\ x.series = y.series
    /\ o # p /\ o[1] = p[1] => x.id # y.id
    /\ /\ adaptEvent(x) /\ adaptEvent(y) /\ o[1] = p[1]
       /\ x.series = y.series /\ x.series # None
       => (o = p <=> Instant(x.original) = Instant(y.original))

(* The order of the list, and what of it is in the window and after the    *)
(* place that the page token stands for.  TimeMax bounds the start of an    *)
(* event and TimeMin its end; one without times is cancelled and is listed. *)
Place(o) == <<Instant(calendar[o].start), o[2]>>
Listed(o) ==
  /\ Instant(calendar[o].start) < End
  /\ calendar[o].end.form # None => From < Instant(calendar[o].end)

Remaining ==
  {o \in Occurrences : /\ o[1] = poll.cal /\ Listed(o)
                       /\ Before(poll.after, Place(o))}

(* A page lists what comes next in order and leaves out nothing between. *)
IsPage(page) ==
  /\ \A i, j \in DOMAIN page : i < j => Before(Place(page[i]), Place(page[j]))
  /\ \A o \in Remaining \ ToSet(page) :
       \A i \in DOMAIN page : Before(Place(page[i]), Place(o))

Change(o, e) ==
  /\ left.changes > 0 /\ e # calendar[o]
  /\ calendar' = [calendar EXCEPT ![o] = e]
  /\ left' = [left EXCEPT !.changes = @ - 1]
  /\ versions' = [versions EXCEPT ![o] = @ \cup {e}]
  /\ UNCHANGED <<running, poll, keys>>

-----------------------------------------------------------------------------
(* SyncAccount *)

Start == <<0, 0>>
NoPoll == [at |-> "idle", cal |-> 1, after |-> Start, entries |-> <<>>,
           err |-> None]

Init ==
  /\ calendar \in {f \in [Occurrences -> UNION {Versions[o] : o \in Occurrences}] :
                     \A o \in Occurrences : f[o] \in Versions[o]}
  /\ left = [changes |-> MaxChanges, polls |-> MaxPolls]
  /\ running = TRUE
  /\ poll = NoPoll
  /\ versions = [o \in Occurrences |-> {calendar[o]}]
  /\ keys = [o \in Occurrences |-> {}]

(* What may end a list call: the context, the token endpoint, the API or    *)
(* the network.                                                             *)
Causes == {"canceled", "deadline", "invalid_grant", "token endpoint", "401",
           "429", "403 quota", "403", "5xx", "offline"}

ClassifyError(cause) ==
  CASE cause = "canceled" -> "cancellation"
    [] cause \in {"invalid_grant", "401"} -> "authentication"
    [] cause \in {"429", "403 quota"} -> "rate-limit"
    [] cause \in {"5xx", "deadline"} -> "transient"
    [] OTHER -> "permanent"

(* The worker takes a command; SyncAccount makes the client, or fails. *)
Begin(ok) ==
  /\ poll.at = "idle" /\ left.polls > 0
  /\ poll' = [NoPoll EXCEPT !.at = IF ok THEN "list" ELSE "done",
                            !.err = IF ok THEN None ELSE "setup"]
  /\ left' = [left EXCEPT !.polls = @ - 1]
  /\ versions' = [o \in Occurrences |-> {calendar[o]}]
  /\ UNCHANGED <<calendar, running, keys>>

(* Every error drops what was listed before it. *)
Failed(kind) ==
  /\ poll' = [NoPoll EXCEPT !.at = "done", !.err = kind]
  /\ UNCHANGED <<calendar, left, running, versions, keys>>

(* Mutant: a calendar that cannot be listed is left out. *)
ListFailsSkipping(cause) ==
  /\ poll.at = "list"
  /\ poll' = [poll EXCEPT !.at = IF poll.cal + 1 \in Calendars THEN "list" ELSE "done",
                          !.cal = IF poll.cal + 1 \in Calendars THEN @ + 1 ELSE @,
                          !.after = Start]
  /\ UNCHANGED <<calendar, left, running, versions, keys>>

ListFails(cause) ==
  /\ poll.at = "list"
  /\ Failed(ClassifyError(cause))

(* ListPoll takes a page of n events.  One that cannot be decoded fails the *)
(* poll; without a next page the next calendar is listed, if there is one.  *)
ListPage(n, page, more) ==
  LET last == poll.cal + 1 \notin Calendars
  IN /\ poll.at = "list"
     /\ IsPage(page) /\ (ToSet(page) # Remaining => more)
     /\ IF \E i \in 1..n : ~adaptEvent(calendar[page[i]])
          THEN Failed("permanent")
          ELSE /\ poll' = [poll EXCEPT
                    !.entries = @ \o [i \in 1..n |->
                                  ClassifyCandidate(poll.cal, calendar[page[i]])],
                    !.after = IF ~more THEN Start
                              ELSE IF n = 0 THEN @ ELSE Place(page[n]),
                    !.cal = IF more \/ last THEN @ ELSE @ + 1,
                    !.at = IF more \/ ~last THEN @ ELSE "done"]
               /\ keys' = [o \in Occurrences |-> keys[o] \cup
                            {OccurrenceKey(o[1], calendar[o]) : i \in {i \in 1..n : page[i] = o}}]
               /\ UNCHANGED <<calendar, left, running, versions>>

-----------------------------------------------------------------------------
(* RunPollWorker *)

(* Mutant: the call has no deadline. *)
NoDeadline == FALSE

(* pollDeadline ends the list call that is under way.  Before a call the    *)
(* token may be refreshed and saved under the lock of the account, and      *)
(* withAccountLock does not look at the context: that wait ends because     *)
(* whoever holds the lock ends on its own (SetupEnds of Authorization).     *)
Expire == ListFails("deadline")

Stop ==
  /\ running /\ running' = FALSE
  /\ UNCHANGED <<calendar, left, poll, versions, keys>>

Cancelled == ~running /\ ListFails("canceled")

(* The owner takes the result, or the worker ends without it. *)
Post ==
  /\ poll.at = "done"
  /\ poll' = NoPoll
  /\ UNCHANGED <<calendar, left, running, versions, keys>>

WorkerReturns ==
  /\ ~running /\ poll.at \in {"idle", "done"}
  /\ poll' = [NoPoll EXCEPT !.at = "returned"]
  /\ UNCHANGED <<calendar, left, running, versions, keys>>

Next ==
  \/ \E o \in Occurrences : \E e \in Revisions[o] : Change(o, e)
  \/ \E ok \in BOOLEAN : Begin(ok)
  \/ \E n \in 0..Cardinality(Remaining) :
       \E page \in [1..n -> Remaining], more \in BOOLEAN : ListPage(n, page, more)
  \/ \E cause \in Causes \ {"canceled", "deadline"} : ListFails(cause)
  \/ Expire \/ Stop \/ Cancelled \/ Post \/ WorkerReturns

Spec == Init /\ [][Next]_vars

FairSpec == Spec /\ WF_vars(Expire) /\ WF_vars(Post)

-----------------------------------------------------------------------------
(* Properties *)

Reported == poll.at = "done" /\ poll.err = None

(* A poll that succeeds has an entry for every occurrence that nobody       *)
(* changed while it ran, and only one: reconcile closes the notification of *)
(* a meeting without an entry as deleted, so an occurrence lost between two *)
(* pages or calendars would take its notification with it.                  *)
Complete ==
  Reported => \A o \in Occurrences :
    versions[o] = {calendar[o]} /\ Listed(o) =>
      \E k \in DOMAIN poll.entries : \A j \in DOMAIN poll.entries :
        poll.entries[j].key = OccurrenceKey(o[1], calendar[o]) <=> j = k

(* What a user would call a live meeting, and its link. *)
Trusted(link) == link.form = "https" /\ link.host \in TrustedHosts
InField(e, f) == ToSet(Fields(e)[f])
Best(e, link) ==
  \E f \in 1..4 : /\ link \in InField(e, f) /\ Trusted(link)
                  /\ \A g \in 1..(f - 1) : \A l \in InField(e, g) : ~Trusted(l)
Live(e) ==
  /\ ~e.cancelled /\ ~e.declined /\ e.start.form \in {"offset", "zone"}
  /\ \E f \in 1..4 : \E link \in InField(e, f) : Trusted(link)

(* Whatever is reported was so at some time during the poll: a meeting is   *)
(* a live, timed event with the trusted link that its most authoritative    *)
(* field has, and an observation is about an event that is none, with a     *)
(* reason to remove it or an exclusion, but never both.                     *)
WasSo ==
  Reported =>
    \A k \in DOMAIN poll.entries :
      LET m == poll.entries[k]
      IN \E o \in Occurrences : \E e \in versions[o] :
           /\ m.key = OccurrenceKey(o[1], e)
           /\ IF m.kind = "meeting"
                THEN m.start = Instant(e.start) /\ Live(e) /\ Best(e, m.url)
                ELSE /\ ~Live(e)
                     /\ (m.reason \in {"cancelled", "declined"})
                          # (m.exclusion \in Exclusions)

(* An occurrence keeps its key over reschedules, changes of time zone and   *)
(* polls, and no two occurrences share one: the durable lifecycle of a      *)
(* notification hangs on the key.                                           *)
OneKey ==
  \A o, p \in Occurrences : \A x \in keys[o], y \in keys[p] : (o = p) <=> (x = y)

(* Every meeting that is announced can be joined: launcher.Client.Open,     *)
(* which checks the link again before and after it rewrites it for Zoom,    *)
(* opens it on a trusted host.  The one exception is a Zoom link whose      *)
(* query cannot be parsed.                                                  *)
Joinable ==
  \A k \in DOMAIN poll.entries : poll.entries[k].kind = "meeting" =>
    LET url == poll.entries[k].url
    IN /\ Open(url) # {} \/ (url.zoom /\ ~url.query)
       /\ \A l \in Open(url) : Trusted(l)

(* A poll ends, although Google may not answer or may send page after page: *)
(* its deadline and the owner see to it.                                    *)
PollEnds == poll.at = "list" ~> poll.at \in {"idle", "returned"}

=============================================================================
