------------------------------ MODULE MCFat16 ------------------------------
(* TLC instance of Fat16: three cards of at most 18 sectors. *)
EXTENDS Fat16

File(name, cluster, size) ==
  [Free EXCEPT !.kind = "file", !.name = <<name>>, !.cluster = cluster, !.size = size]
Dir(name, cluster) == [File(name, cluster, 0) EXCEPT !.dir = TRUE]
Piece(name, last) == [Free EXCEPT !.kind = "long", !.name = <<name>>, !.last = last]
Erased(name) == [Piece(name, TRUE) EXCEPT !.kind = "erased"]
Deleted == [Free EXCEPT !.kind = "deleted"]
Label == [Free EXCEPT !.kind = "label"]

\* Clusters of two sectors, a FAT of two sectors; the long names x y and p q r
\* of directory d begin in another sector and in another cluster; a is in
\* three clusters, and the chain of bad is broken.
Tidy ==
  [fat16 |-> TRUE, sectors_per_cluster |-> 2, fat_sectors |-> 2, root_sectors |-> 2,
   fat |-> (2 :> 6 @@ 3 :> 5 @@ 4 :> EndOfChain @@ 5 :> 4 @@ 6 :> EndOfChain @@ 7 :> 0),
   directory |->
     (4 :> <<Label, Dir("d", 2), File("a", 3, 9)>> @@
      5 :> <<Deleted, File("bad", 7, 7), Free>> @@
      6 :> <<Deleted, File("c", 7, 2), Piece("y", TRUE)>> @@
      7 :> <<Piece("x", FALSE), File("s", 5, 5), Piece("r", TRUE)>> @@
      14 :> <<Piece("q", FALSE), Piece("p", FALSE), File("t", 4, 3)>> @@
      15 :> <<File("e", 0, 0), Free, Free>>)]

\* Clusters of one sector, a full root directory of one sector, a long name
\* whose file begins a sector, an erased one before a file.
Crowded ==
  [fat16 |-> TRUE, sectors_per_cluster |-> 1, fat_sectors |-> 1, root_sectors |-> 1,
   fat |-> (2 :> 4 @@ 3 :> EndOfChain @@ 4 :> EndOfChain),
   directory |->
     (3 :> <<File("a", 3, 1), Dir("d", 2), File("c", 3, 4)>> @@
      4 :> <<Erased("z"), File("s", 3, 1), Piece("x", TRUE)>> @@
      6 :> <<File("t", 3, 1), File("e", 3, 2), Free>>)]

Unformatted == [Crowded EXCEPT !.fat16 = FALSE]

MCCards == ("tidy" :> Tidy @@ "crowded" :> Crowded @@ "unformatted" :> Unformatted)
MCPaths ==
  {<<<<"a">>>>, <<<<"bad">>>>, <<<<"a">>, <<"c">>>>, <<<<"d">>>>, <<<<"d">>, <<"x", "y">>>>,
   <<<<"d">>, <<"p", "q", "r">>>>, <<<<"d">>, <<"e">>>>, <<<<"d">>, <<"s">>>>, <<<<"missing">>>>}
=============================================================================
