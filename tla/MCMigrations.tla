---------------------------- MODULE MCMigrations ----------------------------
(* Four releases on one database: the first one, its successor, one in which *)
(* an applied file and its successor have been edited, and one in which a    *)
(* file does not validate.  Releases only append files.                      *)
EXTENDS Migrations

CONSTANTS old, new, edited, broken,            \* runners
          frozen, second, edit, third, later, invalid  \* checksums

File1 == [version |-> 1, checksum |-> frozen]
File2 == [version |-> 2, checksum |-> second]
File3 == [version |-> 3, checksum |-> third]
Edited2 == [version |-> 2, checksum |-> edit]
Edited3 == [version |-> 3, checksum |-> later]

MCRepository ==
  [r \in Runners |->
     CASE r = old -> <<File1, File2>>
       [] r = new -> <<File1, File2, File3>>
       [] r = edited -> <<File1, Edited2, Edited3>>
       [] r = broken -> <<File1, File2, [version |-> 3, checksum |-> invalid]>>]

ASSUME AppendOnlyAssumption == AppendOnly
=============================================================================
