--------------------------- MODULE MCFeedPolling ---------------------------
(***************************************************************************)
(* Instances of FeedPolling for TLC.                                       *)
(***************************************************************************)
EXTENDS FeedPolling, TLC

\* The calendar with its credential; two feeds that share the merged cache; the
\* weather; one feed polled by a stopping daemon and by its successor at once.
MCInstances ==
  {<<("f1" :> "calendar" @@ "f2" :> "disabled"), {"d1"}>>,
   <<("f1" :> "local" @@ "f2" :> "custom"), {"d1"}>>,
   <<("f1" :> "weather" @@ "f2" :> "disabled"), {"d1"}>>,
   <<("f1" :> "custom" @@ "f2" :> "disabled"), {"d1"}>>,
   <<("f1" :> "news" @@ "f2" :> "disabled"), {"d1", "d2"}>>}
=============================================================================
