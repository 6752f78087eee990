-------------------------------- MODULE Trumpet --------------------------------
(***************************************************************************)
(* The page of a shout: a click on the map asks the geocoder for a place,  *)
(* the size of the speaker says how wide a region around it is meant, and  *)
(* the list of what was shouted there is loaded.  Geocoder and server      *)
(* answer in any order.                                                    *)
(***************************************************************************)
EXTENDS Integers, Sequences, FiniteSets

CONSTANTS TpMaxClicks, (* bound: clicks on the map and on sizes             *)
          TpMaxLoads,  (* bound: lists asked for                            *)
          TpMaxPosts   (* bound: forms submitted                            *)

ASSUME TpAssumption == /\ TpMaxClicks \in Nat /\ TpMaxLoads \in Nat \ {0}
                       /\ TpMaxPosts \in Nat

VARIABLE tp
(* tp.level: speakerLevel, from which speakerSize.now follows; tp.button: the *)
(* level of the button drawn as selected; tp.place: 0 for null; tp.circle:    *)
(* <<place, level>> of the overlay; tp.shoutTo; tp.field: the value of        *)
(* shout_to; tp.geo: <<click, place>> under way to the geocoder; tp.loads:    *)
(* <<number, regions, type>> under way; tp.posts: the same, of posts;         *)
(* tp.list: the <<regions, type>> of the list shown; tp.clicks, tp.asked,     *)
(* tp.posted: how many so far; history: tp.last: the list asked for last;     *)
(* tp.clicked: the place last clicked; tp.typed: the field was changed by     *)
(* hand since; tp.cut: the last _parsePlace() threw; tp.unmarked: the last    *)
(* setSpeakerSize() did; tp.late, tp.lost: an answer came after a later one's *)
(* or failed, of lists and of the geocoder                                   *)

\* Placemarks, "" for what one lacks; a locality is in the area, or in the country
\* when there is none.
TpPlaces ==
  <<[country |-> "CN", area |-> "Beijing", locality |-> "Beijing", dependent |-> "Haidian"],
    [country |-> "CN", area |-> "Qinghai", locality |-> "", dependent |-> ""],
    [country |-> "SG", area |-> "", locality |-> "Singapore", dependent |-> ""],
    [country |-> "MN", area |-> "", locality |-> "", dependent |-> ""]>>
TpLevels == 1 .. 4

TpInit ==
  tp = [level |-> 1, button |-> 1, place |-> 0, circle |-> <<0, 1>>, shoutTo |-> <<>>,
        field |-> <<>>, geo |-> {}, loads |-> {<<1, <<"CN">>, 0>>}, posts |-> {},
        list |-> <<<<>>, 0>>, clicks |-> 0, asked |-> 1, posted |-> 0, last |-> <<<<"CN">>, 0>>,
        clicked |-> 0, typed |-> FALSE, cut |-> FALSE, unmarked |-> FALSE,
        late |-> FALSE, lost |-> FALSE]

-----------------------------------------------------------------------------
(* _parsePlace(): an area without locality throws at the third level, a      *)
(* locality without dependent locality at the fourth.                      *)

TpWords(words) == SelectSeq(words, LAMBDA w : w # "")
TpThrows(p, level) ==
  \/ level >= 3 /\ p.area # "" /\ p.locality = ""
  \/ level >= 4 /\ p.locality # "" /\ p.dependent = ""
TpRegions(p, level) ==
  TpWords(SubSeq(<<p.country, p.area, p.locality, p.dependent>>, 1, level))

\* load()
TpLoad(s, regions, type) ==
  [s EXCEPT !.asked = @ + 1, !.loads = @ \cup {<<s.asked + 1, regions, type>>},
            !.last = <<regions, type>>]

TpDrawCircle(s) == [s EXCEPT !.circle = <<s.place, s.level>>]

TpParsePlace(s) ==
  LET p     == TpPlaces[s.place]
      throw == TpThrows(p, s.level)
      drawn == [TpDrawCircle(s) EXCEPT !.shoutTo = TpRegions(p, s.level), !.cut = throw]
  IN IF throw THEN drawn
     ELSE TpLoad([drawn EXCEPT !.field = drawn.shoutTo, !.typed = FALSE],
                 drawn.shoutTo, 0)

\* Faulty: without an answer the place that is known is not parsed anew.
TpGetRegionNameOld(s, p) ==
  IF p # 0 THEN TpParsePlace([s EXCEPT !.place = p]) ELSE TpDrawCircle(s)

\* getRegionName(): a place, or 0 for no answer or a bad one.
TpGetRegionName(s, p) ==
  IF p # 0 THEN TpParsePlace([s EXCEPT !.place = p])
  ELSE IF s.place # 0 THEN TpParsePlace(s) ELSE TpDrawCircle(s)

-----------------------------------------------------------------------------
(* The page.                                                               *)

TpMayLoad == tp.asked < TpMaxLoads

TpGetAddress ==
  \E p \in DOMAIN TpPlaces :
    /\ tp.clicks < TpMaxClicks
    /\ tp' = [tp EXCEPT !.clicks = @ + 1, !.geo = @ \cup {<<tp.clicks + 1, p>>}, !.clicked = p]

TpGeocoded ==
  \E g \in tp.geo, ok \in BOOLEAN :
    /\ TpMayLoad
    /\ tp' = [TpGetRegionName([tp EXCEPT !.geo = @ \ {g}], IF ok THEN g[2] ELSE 0)
                EXCEPT !.lost = @ \/ ~ok \/ \E h \in tp.geo : h[1] < g[1]]

\* The button is marked when nothing before it threw.
TpSetSpeakerSize ==
  \E level \in TpLevels :
    /\ tp.clicks < TpMaxClicks /\ TpMayLoad
    /\ LET named == TpGetRegionName([tp EXCEPT !.level = level, !.cut = FALSE], 0)
           threw == named.cut
       IN tp' = [named EXCEPT !.clicks = @ + 1, !.unmarked = threw,
                              !.button = IF threw THEN @ ELSE level]

\* submitForm(): when the post is answered, the list of what the field says then.
TpSubmitForm ==
  /\ tp.posted < TpMaxPosts
  /\ tp' = [tp EXCEPT !.posted = @ + 1, !.posts = @ \cup {<<tp.posted + 1, tp.field>>}]
TpPosted ==
  \E p \in tp.posts, ok \in BOOLEAN :
    /\ TpMayLoad
    /\ LET done == [tp EXCEPT !.posts = @ \ {p}]
       IN tp' = IF ok THEN TpLoad(done, tp.field, 0) ELSE done
TpType == /\ ~tp.typed
          /\ tp' = [tp EXCEPT !.field = <<"typed">>, !.typed = TRUE]

\* display(), or nothing when the list did not come.
TpLoadAnswered ==
  \E a \in tp.loads, ok \in BOOLEAN :
    tp' = [tp EXCEPT !.loads = @ \ {a},
                     !.list = IF ok THEN <<a[2], a[3]>> ELSE @,
                     !.late = (@ /\ a[1] # tp.asked) \/ ~ok \/ \E b \in tp.loads : b[1] < a[1]]

\* A click on the regions of an item.
TpClickItem ==
  /\ TpMayLoad /\ tp.list[1] # <<>>
  /\ tp' = TpLoad(tp, tp.list[1], 1)

TpNext == \/ TpGetAddress \/ TpGeocoded \/ TpSetSpeakerSize \/ TpSubmitForm
          \/ TpPosted \/ TpType \/ TpLoadAnswered \/ TpClickItem

-----------------------------------------------------------------------------
(* Properties.                                                             *)

\* The circle is drawn around the place that is known with the size that is chosen;
\* its button is marked, and the field names its regions, unless _parsePlace() threw
\* or the field was changed by hand.
TpAgrees ==
  /\ tp.circle = <<tp.place, tp.level>>
  /\ ~tp.unmarked => tp.button = tp.level
  /\ tp.place # 0 => tp.shoutTo = TpRegions(TpPlaces[tp.place], tp.level)
  /\ tp.place # 0 /\ ~tp.cut /\ ~tp.typed => tp.field = tp.shoutTo

\* When all is answered, and no answer was overtaken or failed, the place is the one
\* clicked last and the list the one asked for last.
TpSettled ==
  /\ tp.geo = {} /\ ~tp.lost => tp.place = tp.clicked
  /\ tp.loads = {} /\ ~tp.late => tp.list = tp.last

\* The page of a shout is right about its place, its regions and its list.
TpShout == TpAgrees /\ TpSettled
================================================================================
