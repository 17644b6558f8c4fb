---------------------------- MODULE MCReviewRun ----------------------------
(* ReviewRun with three files, of which the budget takes two at a time. *)
EXTENDS ReviewRun

MCNumBlocks == <<2, 1, 1>>
MCCommentOnly == {<<1, 1>>, <<3, 1>>}
MCWeight == <<1, 2, 1>>
============================================================================
