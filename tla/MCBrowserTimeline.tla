--------------------------- MODULE MCBrowserTimeline ---------------------------
(* Instances of BrowserTimeline for TLC. *)
EXTENDS BrowserTimeline

CONSTANTS s1, s2, text1, text2

\* Two texts and none, with every event or some of them.
MCExpr == {[text |-> NoText, filter |-> "all"], [text |-> text1, filter |-> "all"],
           [text |-> text2, filter |-> "all"], [text |-> text1, filter |-> "some"]}

\* The hits of the two texts differ, and neither is on the first page.
MCHitsAt(e) == CASE e.text = text1 -> {2, 3} [] e.text = text2 -> {3} [] OTHER -> {}

\* A new revision has one more event, the third one puts it in front.
MCTimelineOf(sess, filter, rev) ==
  CASE filter = "some" -> <<2, 3>>
    [] sess = s2 -> <<1, 2>>
    [] rev = 3 -> <<4, 1, 2, 3>>
    [] OTHER -> <<1, 2, 3>>
================================================================================
