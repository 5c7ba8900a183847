---------------------------- MODULE PublishedStore ----------------------------
(***************************************************************************)
(* What the model cache promises its readers (downloader.py, "Atomic       *)
(* publish"): a snapshot is not there, or it is there with the bytes of a  *)
(* listing the downloader could verify.  It appears in one step, never in  *)
(* part, and once it is there it neither changes nor goes away.            *)
(***************************************************************************)
CONSTANTS Files, Content, Listings, Nothing

VARIABLE shelf  \* what a reader that looks now may use: Nothing, or the files

Verifiable ==
    {c \in [Files -> Content] : \E L \in Listings : \A f \in L : c[f] = "good"}

Init == shelf = Nothing

Publish ==
    /\ shelf = Nothing
    /\ shelf' \in Verifiable

Spec == Init /\ [][Publish]_shelf
=============================================================================
