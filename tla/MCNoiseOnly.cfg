\* Captures of up to two lines: an empty file, noise or blank lines alone,
\* and each with a header or a row, for each of the three parsers.
SPECIFICATION Spec
INVARIANT NoiseOnlyFileIsEmptyTable
\* Every parser returns or raises and then stops.
CHECK_DEADLOCK FALSE
