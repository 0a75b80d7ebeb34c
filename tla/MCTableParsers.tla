-------------------------- MODULE MCTableParsers -----------------------------
(***************************************************************************)
(* The two per-table nodetool block parsers of plot_cachestat.py, checked *)
(* in one model: main hands each --nodetool-tablehistograms-files and     *)
(* --nodetool-tablestats-files entry to its parser.  A behaviour is one    *)
(* filtered log parsed by one parser; the other stays at its start on an  *)
(* empty log and takes no step.                                            *)
(* The parsers share no state, so each one's reachable states are those  *)
(* it reaches alone, and each refines its own block-level contract.       *)
(***************************************************************************)
EXTENDS BlockScan

VARIABLES
    source,
    hLines, hI, hPc, hBlk, hVals, hRecords, hErr,
    tLines, tI, tPc, tBlk, tSeenOther, tInExpected, tFound, tRecords, tErr

hVars == <<hLines, hI, hPc, hBlk, hVals, hRecords, hErr>>
tVars == <<tLines, tI, tPc, tBlk, tSeenOther, tInExpected, tFound, tRecords, tErr>>
allVars == <<source, hVars, tVars>>

(* tablehistograms: headers of the expected table; banners may name       *)
(* another table; a label repeated with two values.                        *)
HistogramLine ==
    { Line("hdr", "ycsb.usertable", 0), Line("blank", "-", 0),
      Line("noise", "-", 0), Line("fail", "-", 0),
      Line("banner", "ycsb.usertable", 0), Line("banner", "ycsb.other", 0),
      Line("units", "-", 0), Line("row", "50%", 1), Line("row", "50%", 2),
      Line("row", "Max", 1) }

(* tablestats: headers naming no, the expected or another keyspace,       *)
(* keyspace and table lines of both, two levels values.                    *)
TableStatsLine ==
    { Line("hdr", "none", 0), Line("hdr", "ycsb", 0), Line("hdr", "other", 0),
      Line("blank", "-", 0), Line("fail", "-", 0), Line("sep", "-", 0),
      Line("other", "-", 0), Line("ks", "ycsb", 0), Line("ks", "other", 0),
      Line("tbl", "usertable", 0), Line("tbl", "t2", 0),
      Line("levels", "-", 1), Line("levels", "-", 2) }

H == INSTANCE TableHistograms
       WITH RawLine <- HistogramLine, MaxLines <- 5, Expected <- "ycsb.usertable",
            lines <- hLines, i <- hI, pc <- hPc, blk <- hBlk, vals <- hVals,
            records <- hRecords, err <- hErr

T == INSTANCE TableStats
       WITH RawLine <- TableStatsLine, MaxLines <- 4, ExpectedKeyspace <- "ycsb",
            ExpectedTable <- "usertable", NoKeyspace <- "none",
            lines <- tLines, i <- tI, pc <- tPc, blk <- tBlk, seenOther <- tSeenOther,
            inExpected <- tInExpected, found <- tFound, records <- tRecords, err <- tErr

Sources == {"tablehistograms", "tablestats"}

(* The start state of each parser on an empty log: its Init with lines    *)
(* fixed to << >>.                                                         *)
HIdle == /\ hLines = << >> /\ hI = 1 /\ hPc = "scan" /\ hBlk = 0 /\ hVals = << >>
         /\ hRecords = << >> /\ hErr = "none"
TIdle == /\ tLines = << >> /\ tI = 1 /\ tPc = "scan" /\ tBlk = 0
         /\ tSeenOther = FALSE /\ tInExpected = FALSE /\ tFound = 0
         /\ tRecords = << >> /\ tErr = "none"

Init ==
    /\ source \in Sources
    /\ IF source = "tablehistograms" THEN H!Init ELSE HIdle
    /\ IF source = "tablestats" THEN T!Init ELSE TIdle

Next ==
    \/ source = "tablehistograms" /\ H!Next /\ UNCHANGED <<source, tVars>>
    \/ source = "tablestats" /\ T!Next /\ UNCHANGED <<source, hVars>>

(* Each parser is one sequential loop: while it has neither returned nor  *)
(* raised, its next iteration is enabled and is taken.                     *)
Spec == Init /\ [][Next]_allVars /\ WF_allVars(Next)

-----------------------------------------------------------------------------
(* tablehistograms: the types of the parser's locals.                     *)
HistogramsTypeOK == H!TypeOK

(* tablehistograms: for logs whose headers name the expected table the   *)
(* parser implements the contract (banner checks, last value per label,   *)
(* empty blocks skipped).                                                  *)
HistogramsRefinement == H!Refinement

(* tablehistograms: the collect loop always advances.                     *)
HistogramsTermination == source = "tablehistograms" => H!Termination

(* tablestats: the types of the parser's locals.                          *)
TableStatsTypeOK == T!TypeOK

(* tablestats: the Keyspace/Table flag loop yields the last levels value  *)
(* of the expected table's section, with the keyspace checks of the        *)
(* contract.                                                               *)
TableStatsRefinement == T!Refinement

(* tablestats: the body loop always advances.                             *)
TableStatsTermination == source = "tablestats" => T!Termination

=============================================================================
