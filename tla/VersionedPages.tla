--------------------------- MODULE VersionedPages ---------------------------
(***************************************************************************)
(* What Roadkill promises of its pages, as long as nobody deletes one:     *)
(* every save of a text adds one numbered version, which stays as it is    *)
(* and is dated no earlier than the one it is numbered after; and what a   *)
(* reader is shown, though it may be out of date, is a version of the page *)
(* it is shown for.                                                        *)
(*                                                                         *)
(* There are no requests here, and no caches: PageProperties shows that    *)
(* PageService, whose requests interleave and whose caches go stale,       *)
(* implements this.                                                        *)
(***************************************************************************)
EXTENDS Naturals

CONSTANT PageIds

VARIABLES
    live,     \* the pages there are
    history,  \* every version saved: [row, page, version, body, at]
    shown     \* the texts a reader may be shown: [page, version, body]

store == <<live, history, shown>>

TextOf(v) == [page |-> v.page, version |-> v.version, body |-> v.body]

Saved == {TextOf(v) : v \in history}

Init ==
    /\ live \subseteq PageIds
    /\ \A v \in history : v.page \in live /\ v.version = 1
    /\ shown \subseteq Saved

Create(p) ==
    /\ p \notin live
    /\ live' = live \cup {p}
    /\ UNCHANGED <<history, shown>>

(* A new version comes after the one it is numbered after, in number and   *)
(* in time.  (Of two that are saved at once, the one that is dated later   *)
(* may be there first.)                                                    *)
Follows(v) ==
    /\ v.page \in live
    /\ \A w \in history : w.row # v.row
    /\ \/ v.version = 1
       \/ \E w \in history : /\ w.page = v.page
                             /\ w.version = v.version - 1
                             /\ w.at <= v.at

Save ==
    /\ \E v \in history' : Follows(v) /\ history' = history \cup {v}
    /\ UNCHANGED <<live, shown>>

(* Readers are shown other texts, but never one that is not in the history *)
(* yet.                                                                    *)
Show ==
    /\ shown' \subseteq shown \cup Saved
    /\ UNCHANGED <<live, history>>

Next == (\E p \in PageIds : Create(p)) \/ Save \/ Show

Spec == Init /\ [][Next]_store

=============================================================================
