---------------------------- MODULE MCDownload ----------------------------
(* TLC instances of Download: lists of files to download one after another, *)
(* of as many blocks as the window holds or more, and of fewer.             *)
EXTENDS Download

LongThenShort == <<4, 3, 1>>
ShortOnes == <<1, 1>>
=============================================================================
