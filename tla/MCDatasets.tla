----------------------------- MODULE MCDatasets -----------------------------
(***************************************************************************)
(* Small instances of the dataset's machines for TLC.  The quality queue   *)
(* is explored twice: "pool" has one upload, two workers, a declaration    *)
(* that may be edited and no order; "versions" has two uploads, one        *)
(* worker, a declaration that stays, no fault and no delisting.            *)
(***************************************************************************)
EXTENDS DatasetQuality, Watchlist, Questions, Certificates, Masking, Screening, TLC

CONSTANTS u1, u2, n1, n2, w1, w2

MCNameOf == u1 :> n1 @@ u2 :> n2

(* Whole tokens and the pieces that glue to them.                          *)
MCFragments == {<<"1", "2", "5">>, <<"1", "5", "2">>, <<"5", "1", "1">>, <<"5">>, <<"X">>, <<" ">>,
                <<"E">>, <<"@", "E", ".", "E">>, <<Han, "E", "1">>, <<"E", "1", "2">>}
MCWeights == <<4, 2>>

MCCells == {"", "0", "1", "2", "60", "1.5", "yes", "abc"}
MCKindOf == "" :> "empty" @@ "0" :> "int" @@ "1" :> "int" @@ "2" :> "int" @@ "60" :> "int"
            @@ "1.5" :> "num" @@ "yes" :> "bool" @@ "abc" :> "text"
MCValueOf == "0" :> 0 @@ "1" :> 10 @@ "2" :> 20 @@ "60" :> 600 @@ "1.5" :> 15

VARIABLE machine

Init == /\ machine \in {"pool", "versions", "watch", "questions", "certificates",
                       "masking", "screening"}
        /\ DatasetInit /\ WatchInit /\ QuestionsInit /\ CertificatesInit
        /\ MaskingInit /\ ScreeningInit
        /\ machine # "pool" => declared = "no"

textVars == <<maskVars, screenVars>>

Next ==
    /\ UNCHANGED machine
    /\ \/ /\ machine = "pool" /\ DatasetNext
          /\ up'[u1] = "none" /\ sold' = sold
          /\ UNCHANGED <<watchVars, questionVars, certVars, textVars>>
       \/ /\ machine = "versions" /\ DatasetNext
          /\ declared' = declared /\ qfaults' = qfaults /\ qworker'[w2] = Idle
          /\ \A o \in Operators : ops'[o].stage # "delist"
          /\ UNCHANGED <<watchVars, questionVars, certVars, textVars>>
       \/ /\ machine = "watch" /\ WatchNext
          /\ UNCHANGED <<qvars, questionVars, certVars, textVars>>
       \/ /\ machine = "questions" /\ QuestionsNext
          /\ UNCHANGED <<qvars, watchVars, certVars, textVars>>
       \/ /\ machine = "certificates" /\ CertificatesNext
          /\ UNCHANGED <<qvars, watchVars, questionVars, textVars>>
       \/ /\ machine = "masking" /\ MaskingNext
          /\ UNCHANGED <<qvars, watchVars, questionVars, certVars, screenVars>>
       \/ /\ machine = "screening" /\ ScreeningNext
          /\ UNCHANGED <<qvars, watchVars, questionVars, certVars, maskVars>>

Spec == /\ Init /\ [][Next]_<<machine, qvars, watchVars, questionVars, certVars, textVars>>
        /\ DatasetFairness /\ WatchFairness
=============================================================================
