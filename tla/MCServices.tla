----------------------------- MODULE MCServices -----------------------------
(***************************************************************************)
(* The services around the core, checked one at a time: `scene` names the  *)
(* one whose steps are taken. They share no state in these models.         *)
(***************************************************************************)
EXTENDS Chain, Sap, Figures, Console, Channels, Evidence, Settings

CONSTANTS c1, c2, h1, h2, q1, q2, s1, s2, w1, w2

VARIABLE scene

vars == <<scene, chainVars, sapVars, figureVars, consoleVars, channelVars, evidenceVars, settingsVars>>

MCPosts == {[key |-> "k1", body |-> "run"], [key |-> "k1", body |-> "other"],
            [key |-> "k2", body |-> "reset"]}
MCBatches == {<<"m1", "m2">>, <<"mail">>}

\* Needs before now, within a day, within a recovery, after it, and two that differ in
\* size; sales on the day of a stock-out, before and after it, undated or not in USD.
Needs == {{[at |-> h, qty |-> 1] : h \in hours} : hours \in SUBSET {-1, 0, 2, 5}}
           \cup {{[at |-> 1, qty |-> 2], [at |-> 3, qty |-> 3]}}
Sales == {{[on |-> d, net |-> d + 1, usd |-> TRUE] : d \in days} : days \in SUBSET {0, 1, 3}}
           \cup {{[on |-> None, net |-> 1, usd |-> TRUE], [on |-> 1, net |-> 5, usd |-> FALSE]}}
MCCases == [onHand : 0..3, rate : {None, 0, 1}, needs : Needs, sales : Sales,
            recovery : {None, 3, 6}]
MCSuppliers ==
  {[lines |-> {[at |-> d, qty |-> 2] : d \in days},
    receipts |-> {[at |-> d, qty |-> q[d]] : d \in {e \in DOMAIN q : q[e] > 0}}] :
     days \in SUBSET {-4, -3, -2, -1}, q \in [{-4, -3, -1, 0} -> 0..3]}

\* What may be wrong with a message is wrong alone; and each way a quantity is read.
Letter == [channel |-> "EMAIL", form |-> "EMAIL", sender |-> "supplier", leaves |-> FALSE,
           proven |-> TRUE, hides |-> FALSE, text |-> "clean", image |-> "none", language |-> "en",
           says |-> <<1, 2>>, reads |-> {}, mends |-> {}]
Short == [Letter EXCEPT !.says = <<2>>]
MCArrivals ==
  {Letter, [Short EXCEPT !.leaves = TRUE, !.mends = {3}],
   [Letter EXCEPT !.image = "clean", !.reads = {[value |-> 1, sure |-> FALSE]}
                      \cup [value : {2}, sure : BOOLEAN]],
   [Letter EXCEPT !.image = "clean", !.reads = [value : {2}, sure : BOOLEAN], !.language = "id"],
   [Letter EXCEPT !.image = "clean", !.language = "none"],
   [Short EXCEPT !.channel = "MANUAL", !.proven = FALSE],
   [Short EXCEPT !.channel = "MANUAL", !.form = "CARRIER"],
   [Short EXCEPT !.sender = "stranger"], [Short EXCEPT !.proven = FALSE],
   [Short EXCEPT !.hides = TRUE], [Short EXCEPT !.text = "attack"],
   [Short EXCEPT !.image = "attack", !.reads = {[value |-> 2, sure |-> TRUE]}]}
  \cup {[Short EXCEPT !.channel = "CARRIER", !.form = "CARRIER", !.sender = s] :
          s \in {"carrier", "supplier"}}
  \cup {[Short EXCEPT !.channel = "AGENT", !.form = "NONE", !.sender = "stranger", !.text = t] :
          t \in {"clean", "attack"}}

\* Of each kind of setting one that is in range; of ratios one more, and one that is not
MCRequests ==
  {[key |-> k, value |-> v, other |-> TRUE] :
     <<k, v>> \in {<<"ratio", 0>>, <<"ratio", 1>>, <<"ratio", 2>>, <<"number", 3>>, <<"switch", 1>>}}
  \cup {[key |-> k, value |-> 2, other |-> b] :
          k \in {"rate", "approver", "freight", "priority"}, b \in BOOLEAN}

Scenes == {"settings", "evidence", "chain", "sap", "figures", "api", "live", "intake", "notice", "lab"}

Init ==
  /\ scene \in Scenes
  /\ ChainInit /\ ConsoleInit
  /\ SapInit /\ (scene # "sap" => job.kind = "STO")
  /\ ChannelsInit /\ (scene # "intake" => Len(batch) = 2) /\ (scene # "lab" => ~lab.hostile)
  /\ EvidenceInit /\ (scene # "evidence" => message = Letter)
  /\ SettingsInit
  /\ figures = NotYet
  /\ facts \in IF scene = "figures" THEN Cases \cup Suppliers ELSE {NotYet}

Next ==
  /\ UNCHANGED scene
  /\ \/ scene = "evidence" /\ EvidenceNext
        /\ UNCHANGED <<chainVars, sapVars, figureVars, consoleVars, channelVars, settingsVars>>
     \/ scene = "settings" /\ SettingsNext
        /\ UNCHANGED <<chainVars, sapVars, figureVars, consoleVars, channelVars, evidenceVars>>
     \/ scene = "chain" /\ ChainNext
        /\ UNCHANGED <<sapVars, figureVars, consoleVars, channelVars, evidenceVars, settingsVars>>
     \/ scene = "sap" /\ SapNext
        /\ UNCHANGED <<chainVars, figureVars, consoleVars, channelVars, evidenceVars, settingsVars>>
     \/ scene = "figures" /\ FiguresNext
        /\ UNCHANGED <<chainVars, sapVars, consoleVars, channelVars, evidenceVars, settingsVars>>
     \/ scene = "api" /\ ApiNext
        /\ UNCHANGED <<chainVars, sapVars, figureVars, channelVars, evidenceVars, settingsVars>>
     \/ scene = "live" /\ LiveNext
        /\ UNCHANGED <<chainVars, sapVars, figureVars, channelVars, evidenceVars, settingsVars>>
     \/ scene = "intake" /\ IntakeNext
        /\ UNCHANGED <<chainVars, sapVars, figureVars, consoleVars, evidenceVars, settingsVars>>
     \/ scene = "notice" /\ NoticeNext
        /\ UNCHANGED <<chainVars, sapVars, figureVars, consoleVars, evidenceVars, settingsVars>>
     \/ scene = "lab" /\ LabNext
        /\ UNCHANGED <<chainVars, sapVars, figureVars, consoleVars, evidenceVars, settingsVars>>

Spec == Init /\ [][Next]_vars
=============================================================================
