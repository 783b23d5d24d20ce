---------------------------- MODULE MCBrowserJob ----------------------------
(* Small instances of BrowserJob. *)
EXTENDS BrowserJob

CONSTANTS d1, d2

Page(a, b) == [l \in Lines |-> IF l = d1 THEN a ELSE b]

\* Nothing open, one line, a second page.
SomeDraftGrids == {<<Page(0, 0)>>, <<Page(1, 0)>>, <<Page(1, 0), Page(0, 1)>>}

\* Nothing, one page, two pages, a day entered twice, and a day on both sides of a
\* page boundary of the three.
SomeMainGrids == {<<Page(0, 0)>>, <<Page(1, 0)>>, <<Page(0, 1), Page(1, 0)>>,
                  <<Page(2, 0), Page(0, 1)>>, <<Page(1, 0), Page(0, 1), Page(0, 1)>>}

\* An event in the week before, in this week, and in the week after.
SomeEvents == {0, 1, 2}
TheWeekOf == [e \in SomeEvents |-> e]

=============================================================================
