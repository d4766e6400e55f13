------------------------------- MODULE MCPrefs -------------------------------
(* Instances of Prefs: words of four values, the limit's of 16, a negative number that is      *)
(* typed and one beyond a port that is sent.                                                   *)
EXTENDS Prefs

MCTyped == {-1}
MCSent == {6}
MCFactory == [s \in Setting |-> IF s \in {"EncryptionMode", "RandomPort", "CheckDownload",
                                          "BlocklistEnabled"} THEN 0 ELSE 1]
=============================================================================
