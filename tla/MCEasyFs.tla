------------------------------- MODULE MCEasyFs -------------------------------
(* Instances of EasyFs: blocks of two words and one direct block, so a file of *)
(* three words uses the first index and one of seven words the second.         *)
EXTENDS EasyFs

SomeFlags == {{}, {"CREATE", "RDWR"}, {"TRUNC", "WRONLY"}}
SomeWrites == {<<<<1>>>>, <<<<2, 2>>, <<2, 2, 2, 2, 2>>>>}
SomeReads == {<<2, 1>>}
====
