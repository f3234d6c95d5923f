------------------------------- MODULE PTree -------------------------------
(***************************************************************************)
(* The XML file behind boost::property_tree as parameter.h uses it.  A    *)
(* value is the text written for it: Dec(n) is the decimal text ptree     *)
(* writes for an int, and for a uint8_t, which its stream_translator       *)
(* widens to an unsigned before writing; Str(s) is a string, kept opaque; *)
(* Absent is a missing key.  NoFile and Corrupt are the files read_xml    *)
(* throws on.                                                              *)
(***************************************************************************)
EXTENDS Integers

NoFile  == [read |-> "absent"]
Corrupt == [read |-> "corrupt"]

Absent == [t |-> "none"]
Dec(n) == [t |-> "dec", v |-> n]
Str(s) == [t |-> "str", s |-> s]

\* ptree::get<int>(key, d): the text parsed as an int, d when it is missing
\* or does not parse; whitespace around it is trimmed by read_xml.
GetInt(x, d) ==
  IF x.t = "dec" THEN x.v ELSE d

GetStr(x, d) == IF x.t = "str" THEN x.s ELSE d
=============================================================================
