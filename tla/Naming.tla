------------------------------- MODULE Naming -------------------------------
(***************************************************************************)
(* The names of releases and of their records.  A record is the object      *)
(* "<name>-v<revision>", and the object of a rollback event is named the    *)
(* same way: prepareRollback takes such a name apart again.                 *)
(*                                                                         *)
(* A name is the sequence of its parts between dashes, and a part is a text *)
(* and the decimal number it ends in; "none" stands for no text.  Parts     *)
(* with leading zeros are left out: the storage never writes one.           *)
(***************************************************************************)
EXTENDS Integers, Sequences

CONSTANTS
  Texts,   \* what a part says before its number; "none": nothing
  Half,    \* 2^31: an int32 runs from -Half to Half - 1
  MaxInt   \* the largest int, what Atoi returns for a number out of range

ASSUME NamingAssumption ==
  /\ {"none", "v"} \subseteq Texts
  /\ Half \in Nat \ {0}
  /\ MaxInt \in Nat
  /\ (MaxInt + 1) % (2 * Half) = 0

NoNumber == -1

Parts == [text : Texts, num : Nat \cup {NoNumber}]

Empty == [text |-> "none", num |-> NoNumber]

(* The name of something: strings.Split returns at least one part.           *)
Named == Seq(Parts) \ {<<>>}

(* ValidName, of a name whose characters are those of object names.          *)
ValidName(n) == n # <<>> /\ n[1] # Empty /\ n[Len(n)] # Empty

MakeKey(name, version) == Append(name, [text |-> "v", num |-> version])

(* GetReleaseNameFromReleaseVersion: all but the last part, whatever it is.  *)
NameOf(object) == SubSeq(object, 1, Len(object) - 1)

(* strconv.Atoi of a part without its leading "v", the error ignored: zero   *)
(* for what is not a number, the largest int for one that is too large.      *)
Atoi(part) ==
  IF part.num = NoNumber \/ part.text \notin {"none", "v"} THEN 0
  ELSE IF part.num > MaxInt THEN MaxInt ELSE part.num

Int32(n) == ((n + Half) % (2 * Half)) - Half

VersionOf(object) == Int32(Atoi(object[Len(object)]))
=============================================================================
