----------------------------- MODULE MC_DoxyXml -----------------------------
(* "7" is a number and an ordinary text, "<" neither.                      *)
EXTENDS DoxyXml
MCWords   == {"7", "<"}
MCSpecial == {"<"}
MCNumbers == {"7"}
=============================================================================
