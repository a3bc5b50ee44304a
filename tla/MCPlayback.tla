---------------------------- MODULE MCPlayback ----------------------------
(* An instance of Playback for TLC. *)
EXTENDS Playback

CONSTANTS Ui, Mcp, s1, s2

\* The buttons of the music screens, and the tools and skills the cloud calls
UiAndMcp ==
    [t \in {Ui, Mcp} |->
        IF t = Ui THEN {"next", "prev", "play_async", "remove", "stop"}
        ELSE {"tool_next", "search", "push", "clear", "set_auto"}]

\* Two songs, of which the second has no URL
Files == {<<[id |-> 0, url |-> s1, aid |-> None], [id |-> 1, url |-> None, aid |-> s2]>>}
===========================================================================
