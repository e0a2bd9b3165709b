---------------------------- MODULE MCDartSearch ----------------------------
(* Five days and two queries; the first query finds a filing in its body    *)
(* and in an attachment, on different pages of the longer windows, and the  *)
(* second has rows with neither tag, first and later ones of their filing.  *)
EXTENDS DartSearch

Row(receipt, day, part) == [receipt |-> receipt, day |-> day, part |-> part]

MCListed ==
  << <<Row("e", 5, "attachment"), Row("a", 3, "body"), Row("b", 2, "body"),
       Row("c", 2, "attachment"), Row("b", 2, "attachment")>>,
     <<Row("e", 5, "body"), Row("f", 5, "body"), Row("e", 5, "attachment"),
       Row("c", 2, "mixed"), Row("d", 1, "mixed")>> >>

MCLate == {Row("x", 5, "body"), Row("x", 5, "attachment")}
=============================================================================
