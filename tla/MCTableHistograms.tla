------------------------- MODULE MCTableHistograms -------------------------
EXTENDS TableHistograms

MCExpected == "ycsb.usertable"

(* Headers of the expected table only; banners may name another table.    *)
MCRawLine == {
    Line("hdr",    MCExpected,   0),
    Line("blank",  "-",          0),
    Line("noise",  "-",          0),
    Line("fail",   "-",          0),
    Line("banner", MCExpected,   0),
    Line("banner", "ycsb.other", 0),
    Line("units",  "-",          0),
    Line("row",    "50%",        1),
    Line("row",    "50%",        2),
    Line("row",    "Max",        1)
}

(* Headers may name another table.                                        *)
MCRawLineAnyTable == {
    Line("hdr",    MCExpected,   0),
    Line("hdr",    "ycsb.other", 0),
    Line("blank",  "-",          0),
    Line("fail",   "-",          0),
    Line("banner", MCExpected,   0),
    Line("row",    "50%",        1)
}

=============================================================================
