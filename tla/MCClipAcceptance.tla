------------------------- MODULE MCClipAcceptance -------------------------
(* Two clips of one edit, whose sealed rules name the codes in two orders.  *)
EXTENDS ClipAcceptance, TLC

CONSTANTS c1, c2, theCampaign, theAccount, theSignature

SessionSymmetry == Permutations(Sessions)

MCClauses == [c \in Clips |->
  IF c = c1 THEN <<"UNIQUE_PER_CAMPAIGN", "UNIQUE_PER_ACCOUNT">>
            ELSE <<"UNIQUE_PER_ACCOUNT", "UNIQUE_PER_CAMPAIGN">>]
MCCampaign == [c \in Clips |-> theCampaign]
MCAccount == [c \in Clips |-> theAccount]
MCSignature == [c \in Clips |-> theSignature]
=============================================================================
