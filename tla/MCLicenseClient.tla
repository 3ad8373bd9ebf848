--------------------------- MODULE MCLicenseClient ---------------------------
(***************************************************************************)
(* Instances of LicenseClient for TLC.                                     *)
(***************************************************************************)
EXTENDS LicenseClientProperties

BadDoc(check) ==
  [check |-> check, id |-> 0, created |-> 0, updated |-> NoTime, trialEnd |-> NoTime,
   expires |-> NoTime, sstatus |-> "Valid", code |-> NoCode, receiptEnd |-> NoTime]

(* A document that does not verify and one that is another computer's.     *)
BadDocs == {BadDoc("E_SIGNATURE"), BadDoc("E_COMPUTER_MISMATCH")}
OneBadDoc == {BadDoc("E_SIGNATURE")}

Desktop  == {"timesync", "http", "read", "write"}
Device   == {"http", "read", "write"}
AirGap   == {"read", "write"}
Diskless == {"timesync", "http"}

AllConfigs   == {Desktop, Device, AirGap, Diskless}
OnlyDesktop  == {Desktop}
OnlyDiskless == {Diskless}
OnlyDevice   == {Device}
==============================================================================
