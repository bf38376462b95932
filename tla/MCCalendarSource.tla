--------------------------- MODULE MCCalendarSource ---------------------------
(* Two calendars: two instances of a weekly meeting in the first, and one    *)
(* event in the second.                                                      *)
EXTENDS CalendarSource

Zoom == <<"us", "zoom">>
TeamZoom == <<"us", "zoom", "team">>
Meet == <<"com", "google", "meet">>

MCAllowedHosts == {[wild |-> TRUE, host |-> Zoom], [wild |-> FALSE, host |-> Meet]}
MCTrustedHosts == {TeamZoom, Meet, <<"">> \o Meet}

Link(form, host, zoom, query) ==
  [form |-> form, host |-> host, zoom |-> zoom, query |-> query]
Blank == Link("blank", <<>>, FALSE, TRUE)
MeetLink == Link("https", Meet, FALSE, TRUE)
MeetDotLink == Link("https", <<"">> \o Meet, FALSE, TRUE)
ZoomLink == Link("https", TeamZoom, TRUE, TRUE)
ZoomBadQuery == Link("https", TeamZoom, TRUE, FALSE)
OtherLinks == {Link("https", Zoom, TRUE, TRUE),
               Link("https", <<"us", "notzoom">>, TRUE, TRUE),
               Link("https", Meet \o <<"us", "zoom">>, FALSE, TRUE),
               Link("http", Meet, FALSE, TRUE),
               Link("user", Meet, FALSE, TRUE),
               Link("broken", <<>>, FALSE, TRUE)}

Time(form, clock, west) == [form |-> form, clock |-> clock, west |-> west]
NoTime == Time(None, 0, 0)

Plain(id, series, original, start) ==
  [id |-> id, series |-> series, original |-> original, start |-> start,
   end |-> start, cancelled |-> FALSE, declined |-> FALSE,
   conference |-> <<>>, hangout |-> MeetLink, location |-> <<>>,
   description |-> <<>>]

(* The first instance as planned, later, respelled in another zone, and     *)
(* cancelled without its times.                                             *)
FirstInstance ==
  LET e == Plain("w1", "weekly", Time("offset", 1, 0), Time("offset", 1, 0))
  IN {e,
      [e EXCEPT !.start = Time("offset", 3, 0), !.end = Time("offset", 3, 0)],
      [e EXCEPT !.start = Time("zone", 0, 1), !.end = Time("zone", 0, 1),
                !.original = Time("zone", 0, 1)],
      [e EXCEPT !.start = NoTime, !.end = NoTime, !.cancelled = TRUE]}

(* The second as planned, at the time of the first, past the window, over   *)
(* before it, and with an original start that cannot be decoded.            *)
SecondInstance ==
  LET e == Plain("w2", "weekly", Time("offset", 2, 0), Time("offset", 2, 0))
  IN {e, [e EXCEPT !.start = Time("offset", 1, 0), !.end = Time("offset", 1, 0)],
      [e EXCEPT !.start = Time("offset", 4, 0), !.end = Time("offset", 4, 0)],
      [e EXCEPT !.start = Time("offset", 0, 0), !.end = Time("offset", 0, 0)],
      [e EXCEPT !.original = Time("bad", 0, 0)]}

(* The event with every link before a good one and with none after it, with *)
(* conference data, declined, for a whole day, without a time and           *)
(* undecodable.                                                             *)
Single ==
  LET e == [Plain("s", None, NoTime, Time("offset", 1, 0)) EXCEPT !.hangout = Blank]
  IN {[e EXCEPT !.hangout = a, !.location = <<ZoomLink>>] : a \in OtherLinks}
       \cup {[e EXCEPT !.location = <<a>>, !.description = <<MeetLink>>] :
               a \in {MeetDotLink, ZoomBadQuery}}
       \cup {[e EXCEPT !.location = <<a>>] : a \in OtherLinks}
       \cup {[e EXCEPT !.conference = <<Blank, ZoomLink>>, !.hangout = MeetLink],
             [e EXCEPT !.declined = TRUE],
             [e EXCEPT !.start = Time("date", 1, 0)],
             [e EXCEPT !.start = NoTime],
             [e EXCEPT !.end = Time("bad", 1, 0)]}

MCOccurrences == {<<1, 1>>, <<1, 2>>, <<2, 1>>}

MCVersions ==
  [o \in MCOccurrences |->
     CASE o = <<1, 1>> -> FirstInstance
       [] o = <<1, 2>> -> SecondInstance
       [] o = <<2, 1>> -> Single]

MCRevisions ==
  [o \in MCOccurrences |->
     IF o = <<2, 1>> THEN {e \in Single : e.declined \/ e.start.form = None}
                     ELSE MCVersions[o]]
=============================================================================
