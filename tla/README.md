# TLA+ models of the SpeedyIO monitoring and benchmark log parsers

This directory holds TLA+ models of the log-parsing code under `src/`, with the
TLC configurations that check them. The code is all sequential Python. It turns
text captures (nodetool, bcc tools, vmstat, YCSB output) into tables, and later
into plots. Its hard parts are therefore not concurrency. They are:

- the index-walking loops that cut a log into blocks;
- the order in which each parser classifies, validates and skips a block;
- the state that one loop iteration leaves for the next (flags, accumulators,
  the "previous" reading);
- numeric edges: day rollover, sums checked against totals, division by a
  runtime or a count that may be zero.

TLC explores *every* log of a bounded length over a small line vocabulary. That
reaches orders of lines that nobody writes a unit test for.

## 1. Inventory of the system

| Part (source) | State | Operations | Hard behaviour | Needed properties |
|---|---|---|---|---|
| Line filter (`plot_cachestat.py` 80-135: `_ignore_common_noise`, `_read_filtered_lines`, `FAIL_LINE_RE`, `_block_has_failure`) | none (pure) | filter noise lines, test a block for failure markers | noise removed before block cutting; failure markers anywhere in a block | skippable blocks are skipped wherever the marker sits |
| compactionstats parser (`parse_compactionstats_file`, 249-357) | `i`, `pending_total`, `ycsb_sum`, `other_seen`, `active_count`, `records` | header scan, header-only / failure skip, pending line, sublist loop, validation, active-row count to sentinel | pending read at `i`, not after blanks; sum check; sentinel vs next header | refinement of the block contract; termination |
| tablestats parser (`parse_tablestats_file`, 360-472) | `i`, `seen_other_keyspaces`, `in_expected_table`, `found_levels`, `records` | header scan, skip, header keyspace check, body loop over Keyspace/Table/levels lines, end-of-block checks | flag reset by `Keyspace :` lines; last levels line wins | refinement; termination |
| tablehistograms parser (`parse_tablehistograms_file`, 475-581) | `i`, `vals`, `records` | header scan, header table check, skip, banner checks, units skip, row collection | header check placed *before* classification; last row per label wins | refinement; skippable logs never raise |
| cachestat parser (`parse_cachestat_file`, 174-231) | `header_line`, `data_lines`, `prev`, `cum_offset`, `elapsed` | line collection, header checks, day-rollover loop | time-of-day only; equal readings; empty frame | elapsed equals true elapsed; noise-only file gives an empty table |
| vmstat parser (`parse_vmstat_command_file`, 769-859) | header columns, rows | header search, repeated-header skip, truncated-line skip, `st` synthesis, CPU-sum check | repeated headers as long as a row; all timestamps NaT; tolerance [99,101] | the returned rows are the capture's data rows, all within tolerance |
| kswapd trace parser (`parse_kswapd_wake_trace_file`, 607-671) | rows | per-line parse, time-of-day token error, trailing sort | wrong capture flag detection; sort | output sorted by elapsed; time-of-day token raises |
| CSV parsers (`parse_timestamped_file` 234-246, `parse_file_values_logger_file` 583-605) | filtered lines, the frame | line filter, `read_csv`, timestamp check, `to_datetime`, elapsed, numeric coercion | two different noise filters; blank lines kept past the empty check; text left uncoerced by one parser | the frame is the capture's data rows; a noise-only file is an empty table; text is coerced to missing |
| system-monitoring loader (`plot_system_monitoring.py` `load_data`, 65-101) | `timestamps`, `values` | per-entry value collection, length validation | validation compares lengths only | values stay aligned with timestamps |
| YCSB aggregation (`parse_ycsb.py` `process_out_file`, `is_gc_storm_detected`, `parse_throughput_from_out_file`) | per-experiment groups, prefixes seen | group files, merge, throughput, gc-storm check | division by a zero runtime or throughput sum; global prefix dedupe; verdict over several results | the storm verdict; every experiment reported |
| syscount parser (`syscount_parser.py` 6-89) | `tracing_started`, the `syscalls` defaultdict | per-line skips and accumulation, sort by count | lines before tracing starts; the header check | totals are the sums after tracing started; the header is enforced |
| filetop aggregation (`parse_filetop.py` 13-109) | `file_metrics`, the TOTAL row | suffix split, per-row filter, accumulate by filter type, sort, totals | empty suffix pieces | table and TOTAL are the sums of the kept rows; the suffix filter holds |
| Summary tables (`plot_cachestat.py` 676-740: `compute_summary_stats`, `create_summary_tables`, `subtract_initial`, `subtract_all_data_sources`) | the dict of frames, `sample_df`, `numeric_metrics`, `rows`, `combined` | subtract the first reading, pick the sample frame, one table per metric with a row per file | text columns; an empty first frame; metrics discovered on one frame only | each row summarises its capture's deltas; every numeric column summarised |
| Levels page (`_format_levels_trim_zeros` 743-766, `add_tablestats_levels_table` 1006-1057) | `per_exp_maps`, `all_elapsed` | per-file second map, trim trailing zeros, rows over sorted seconds | unstable sort with one sample kept per second; all-zero strings | one row per sampled second, each cell a trimmed sample |
| Rendering, PDF, CLI (`plot_cachestat.py` 866-1458, `plot_results`, `main`s) | matplotlib figures | plotting | none a model checker reaches | not modelled |

The nodetool parsers share one pattern, which spec.md sections 3, 4.2 and 7
state once:

- A header line opens a block.
- A block whose body is blank is *header-only*. A block with a failure marker
  anywhere in its body is a *failure* block. Both are skipped silently, and this
  classification takes precedence over extraction.
- A data block yields one record, nothing, or a fatal error that ends the file.

## 2. Modules

- **`BlockScan`**: the line vocabulary and the shared primitives. A line is a
  record `[kind, name, n]`. `kind` is what the regular expressions recognise in
  it, `name` the keyspace or table it names, `n` the number it carries. The
  module also holds the noise filter, the failure test, skip-blanks,
  next-header, and the block ordinal, which stands for a block's timestamp.
- **`BlockLogSpec`**: the abstract block-level contract. It is parameterised
  by the format's extractor `Extract(b, header, body)` and its `Errors`. Each
  step consumes one whole block.
- **`CompactionStatsSpec`, `TableStatsSpec`, `TableHistogramsSpec`**: each
  format's extractor, written declaratively from the spec's description
  (slices and "last row with this label", not loops), instantiated into
  `BlockLogSpec`.
- **`CompactionStats`, `TableStats`, `TableHistograms`**: the detailed models.
  Each has one action per loop iteration of the Python function:
  - `pc` names the loop that is running, and `i` is the code's index (plus 1).
  - The variables are the function's locals.
  - `Raise` is the `ValueError`, and `Finish` is the return.
  - `Init` is every filtered log obtainable from a raw log of up to `MaxLines`
    lines.
  - Each module instantiates its `*Spec` with the refinement mapping:
    `done` is the headers already passed, minus one while a block is being
    parsed; `table` is `records`; `status` is `pc`/`err`.
- **`Cachestat`**: `parse_cachestat_file`, with the collection loop, the two
  header checks, `times[0]` and the rollover loop.
  - A data row carries the absolute time at which cachestat printed it. The
    parser only sees `ToD(n) = n % Day`, which is the `HH:MM:SS` formatting
    and the `h*3600+m*60+s` parsing.
  - A capture's rows are in time order; that is what `CaptureFiles` encodes.
- **`Vmstat`**: `parse_vmstat_command_file`. A line is classified the way the
  parser tests it: a `procs` group header, an `r ...` column header (with or
  without `swpd`), a truncated line, or a data row. A row's CPU columns are
  `ok` (sum in [99,101]), `off` or `nan`, and its timestamp parses or is NaT.
  The actions are the header search, one row-loop iteration, the
  `dropna`/`iloc[0]` frame step and one validation iteration.
- **`KswapdTrace`**: `parse_kswapd_wake_trace_file`. A line is blank, a
  `TIME`/`#` header, noise, without the function, without the payload, or an
  event whose first token is a float, a time-of-day or unparseable. The
  trailing `sort_values` is a choice among the sorted permutations, because
  pandas' default sort is not stable.
- **`SystemMonitoring`**: `LogFileProcessor.load_data` for one plotted
  property. A value appended to a series is the number of the timestamp it
  was read with, so the series of a correct load is 1, 2, 3, ... An entry's
  timestamp may fail `strptime`, and a plotted value may make `parse_value`
  raise; both end the load with an error.
- **`YcsbAggregate`**: `parse_ycsb.py`'s `main` loop over `--ycsb-files`, with
  `process_out_file` split into its steps (dedupe and key grouping, the
  `MergeHdrStats` merges, the `.out` throughputs) and the GC-storm loop.
  - A file is `[directory, prefix]`.
  - What the code reads from outside is chosen when it is read: the keys of
    the `.hdr` files a glob finds, the merger's exit status and throughput
    (`None` when its runtime is 0), and each `.out` file's RunTime line.
  - `None` is `-1`, and the 5% test is the integer form
    `100*|h-o| > 5*o`, which agrees with the float code on the values used.
- **`StableSort`**: Python's `sorted(..., key, reverse=True)` as an
  insertion sort (`SortDesc`, a `FoldLeft` of `InsertDesc`), and the
  reference definition `IsStableSortDesc`, which filetop's table property
  uses to say the table is the sorted totals.
- **`Syscount`**: `parse_syscount_output` and the sort of
  `print_syscall_stats`. A line is classified as the parser tests it (blank,
  `Tracing syscalls`, `[HH:MM:SS]`, the exact `-L` header, the two-column
  header of a capture without `-L`, under three tokens, non-numeric, data).
  `syscalls` is the defaultdict as a sequence in insertion order; `ReadLine`
  is one loop iteration, `Finish` the return and the sort.
- **`Filetop`**: `parse_filetop_output` and `main`'s TOTAL row. A line
  either matches the eight-token row pattern or not. A file name and the
  `--suffixes` text are sequences of atoms (a name, an extension, a comma),
  so `split(",")` and `endswith` are modelled by what they do
  (`SplitSuffixes`, `EndsWithAny`).
- **`SummaryTables`**: `main`'s `subtract_all_data_sources` for one source
  followed by `create_summary_tables`. A frame is `[n, cols, dtype, vals]`:
  its row count, its metric columns, each column's dtype (numeric or
  object) and its values after `pd.to_numeric(errors="coerce")`, with
  `Missing` for NaN. `captures` keeps the frames as parsed, `data` the dict
  `main` transforms. The statistics of `compute_summary_stats` are all
  functions of the series of non-missing values, so a row records that
  series (`Series`); the empty series is the `N/A` row. The actions are one
  file of the subtract loop, its end, one step of the sample search, one
  file of the inner loop, the end of a metric (`if rows:`) and the return.
- **`LevelsTable`**: `add_tablestats_levels_table` over the frames
  `parse_tablestats_file` returned. A sample is its whole-second header
  timestamp and its levels string, a sequence of parts (`zero`, `num`,
  `ratio`). `TrimZeros` is `_format_levels_trim_zeros` as a RECURSIVE
  operator; `Trimmed` is the reference it is checked against. Because
  `sort_values("timestamp")` is not stable, `AddExperiment` lets any of the
  samples of one second be the one `drop_duplicates(keep="last")` keeps.
- **`CsvCapture`**: `parse_timestamped_file` and
  `parse_file_values_logger_file`, with `parser` chosen in `Init`. A line is
  a header with or without `timestamp`, a data row (its timestamp, `Bad`
  when it does not parse, and a numeric or text value), a `Terminated`
  line, another noise banner, or blank. `Filter` is each function's line
  filter (with the file-values `if not lines` return); `ReadCsv` is
  `pd.read_csv` (blank lines skipped, the first line left is the header,
  `EmptyDataError` when none is left) and the timestamp-column check;
  `ToFrame` is `to_datetime(errors="raise")`, elapsed from `iloc[0]` and
  the file-values coercion. A banner or header in row position has an
  unparseable timestamp field.
- **`MCNoiseOnly`**: `Cachestat` and `CsvCapture` in one model, for the
  spec's noise-only property.
- **`MCCaptureParsers`**: the five single-capture parsers (cachestat,
  command vmstat, kswapd trace, syscount, filetop), the CSV parsers, the two report
  builders (`SummaryTables`, `LevelsTable`) and `parse_ycsb.py`'s
  aggregation (`YcsbAggregate`) in one model. `source` is
  chosen in `Init`, as `main` hands each file to its category's parser;
  that component gets any input of the bound, the others stay at their start
  on an empty input and take no step. They share no state, so the reachable
  states are the union of the states each component reaches alone.
- **`MCTableParsers`**: `TableHistograms` and `TableStats` in one model,
  the same way, each with its refinement and termination properties.
- **Other `MC*` modules**: the line vocabularies for TLC.

## 3. Runs

| Run | Checks | Shows |
|---|---|---|
| `compaction_refinement` | `TypeOK`, `Refinement`, `Termination` | every filtered compactionstats log of up to 5 raw lines parses as the contract says, and the parser stops |
| `tableparsers_refinement` | `HistogramsTypeOK`, `TableStatsTypeOK`, `HistogramsRefinement`, `HistogramsTermination`, `TableStatsRefinement`, `TableStatsTermination` | for logs whose headers name the expected table, the histogram parser implements the contract; the tablestats Keyspace/Table flag loop yields exactly the last levels value of the expected table's section; both stop (555,522 states) |
| `histograms_skippable_raises` (violation) | `SkippableLogNeverRaises` | a header-only block for another table raises (finding 1) |
| `capture_parsers` | `ElapsedIsTrueElapsed`, `VmstatTypeOK`, `RowsMatchCapture`, `KswapdTypeOK`, `TableIsSortedEvents`, `SyscallTotals`, `TableMatchesCapture`, `SummaryOfInitialDeltas`, `LevelsCellsAreSamples`, `CsvTypeOK`, `CsvFrameIsCaptureRows`, `GcStormVerdict`, `GcCrashOnFirstDegenerate` | cachestat elapsed equals the true elapsed time whenever samples are under a day apart; vmstat returns exactly the timestamped data rows after the column header, all within tolerance, and raises a CPU error only for a data row at fault; a `-T` kswapd trace gives its events sorted by elapsed, and a bad trace raises the error of its first bad event; syscount's totals are the sums of the data lines after `Tracing syscalls`; filetop's table and TOTAL row are the sums of the kept rows by filter type, sorted by R_Kb and W_Kb; the cover page lists the numeric columns of the first non-empty capture, one row per capture holding the column, each summarising that capture's readings less its first one (whatever NaNs and empty frames surround it); the levels page has one row per sampled second, ascending, each cell the trimmed levels string of one of the file's samples in that second; a CSV capture that parses gives exactly its data rows in order, elapsed from the first data row, text turned to NaN by the file-values parser only; `parse_ycsb.py` stops on a GC storm exactly when trimming is off and some completed experiment deviates by more than 5%; without trimming it crashes at the first completed experiment with no merged throughput (`TypeError`, even if its `.out` sum is also 0) or a zero `.out` sum (`ZeroDivisionError`), whatever earlier verdicts were, and writes the CSV only when there is none (1,914,196 states, 80 s) |
| `noise_only_files` (violation) | `NoiseOnlyFileIsEmptyTable` | an empty or noise-only capture raises in `parse_cachestat_file` (finding 2) and in the CSV parsers (finding 9); TLC reports the first counterexample it meets, and restricting `source` to either component shows its own |
| `vmstat_nat` (violation) | `UnparseableTimestampsAreDropped` | a capture whose timestamps are all unparseable raises `IndexError` (finding 3) |
| `sysmon_alignment` (violation) | `SeriesAlignedWithTimestamps` | the length-only validation passes a series whose values are paired with the wrong timestamps (finding 4) |
| `ycsb_dedupe` (violation) | `EveryExperimentReported` | an experiment with the same file name in a second directory is dropped from the CSV (finding 5) |
| `syscount_header` (violation) | `HeaderColumnsEnforced` | a capture without `-L` parses to an empty table with no error (finding 6) |
| `filetop_suffixes` (violation) | `SuffixFilterHolds` | `--suffixes ".log,"` keeps a `.db` file (finding 7) |
| `summary_columns` (violation) | `EveryNumericColumnSummarized` | a numeric column of a later capture that the first non-empty capture lacks is never summarised (finding 8) |
| `csv_text_values` (violation) | `NonNumericValueIsMissing` | a text cell in a meminfo or proc_vmstat capture survives `parse_timestamped_file` instead of becoming missing (finding 10) |

Why the refinement is checked as a safety property:

- `Refinement` is `Abs!SafetySpec`, meaning `Init /\ [][Next]_vars` of the
  contract under the mapping. Every concrete step is either a stutter of the
  contract (a line inside a block) or exactly one contract step (the line that
  finishes, skips or fails a block).
- The parser stopping is checked separately as `Termination`,
  `<>(pc \in {"done","error"})`, under `WF_vars(Next)`.
- Weak fairness is justified because each parser is a single sequential loop:
  while it has neither returned nor raised, its next iteration is enabled and
  is taken.
- Deadlock checking is off in every cfg, because the parsers really do stop.
- The other modules check safety only (`Spec == Init /\ [][Next]_vars`): their
  loops advance a position on every step, so they stop by construction.

Why the bounds are enough:

- Five raw lines (four for tablestats, whose vocabulary is larger) hold the
  following:
  - a data block with every optional part;
  - a data block followed by a header-only or failure block;
  - two data blocks;
  - noise interleaved anywhere.
- Every action and every branch of every CASE fires, including each error.
- The vocabularies hold two values of each name (the expected one and another)
  and two numbers where a sum or a "last one wins" is at stake.
- Cachestat uses `Day = 4` and absolute times `0..9`, so a 4-row capture crosses
  midnight more than once, repeats a second, and can skip a whole day.
- Vmstat uses 5 lines: a header, a repeated header and three rows of different
  classes, or both header forms.
- KswapdTrace uses 4 lines and two times, so two events arrive out of order or
  with equal times, next to a skipped line.
- YcsbAggregate uses up to 3 files over two prefixes and up to 2 `.out` files
  each. This covers a repeated file, a storm followed by a clean experiment,
  and merged throughputs 19 and 21 against a sum of 20, exactly at the 5%
  boundary. The dedupe run adds a second directory.
- Syscount uses 4 lines over two syscall names and two counts: the tracing
  line, a line before it, and two data lines of the same or different
  names with equal or different counts (a tie in the sort).
- Filetop uses 3 lines over two files (`a.db`, `b.log`) and R_Kb/W_Kb in
  {0, 4}, every filter type, and every `--suffixes` text of up to two atoms
  over `.db`, `.log` and `,` (so `.db,`, `,.log` and `,,` occur).
- SummaryTables uses up to 2 files of up to 2 rows over a subtracted column
  `m1` and a plain column `m2`, each numeric or text, with readings 1, 3 or
  NaN. So an empty frame before a full one, a NaN first reading, a text
  subtracted column, and files with different columns all occur.
- CsvCapture uses 4 lines over both headers, both noise kinds, blank lines
  and rows at seconds 1 and 2 or unparseable, numeric or text, for both
  parsers: noise before the header, a banner between rows, a blank-only
  rest, a header-only capture and out-of-order rows all occur. The
  noise-only run uses 2 lines, enough for an empty file and for noise with a
  blank line. The text-value run uses 3 lines: a header and two rows, one
  numeric and one text.
- LevelsTable uses up to 2 files of up to 2 samples at seconds 5 and 6, over
  the levels strings `0`, `N, 0, 0`, `X/Y, 0` and `0, N`. So two samples in the
  same second, a first sample later than the second one (negative elapsed),
  an all-zero string and a zero before a non-zero part all occur.

### Mutants

Every property of a passing run is also checked against a mutant: a plausible
bug in the definition it is about, defined just before that definition. Each
mutant below must make TLC report its property violated:

- the header-only skip one line too far (`HeaderSkipPastNext`);
- no failure check (`HeaderNoFailureCheck`);
- a loop branch without `i += 1` (`CountRowNoAdvanceOnBlank`,
  `ConsumeSepNoAdvance`, `CollectAdvanceOnlyOnRow`);
- the first histogram row winning (`CollectFirstWins`);
- a levels line taken outside the expected table (`ConsumeAnyLevels`);
- the missing-levels check dropped (`BlockEndNoMissingCheck`);
- equal times taken for a rollover (`RolloverOnEqual`);
- repeated vmstat headers taken as rows (`RowNoHeaderSkip`);
- the CPU-sum check dropped (`ValidateNoSumCheck`);
- kswapd lines without a payload taken (`LineNoPayloadCheck`);
- the trace returned unsorted (`FinishUnsorted`);
- the GC verdict overwritten by each result (`GcCheckLastWins`);
- syscount lines counted before `Tracing syscalls` (`ReadLineNoGate`);
- filetop's suffix test without `suffixes and`, which drops every row when
  no suffix is given (`ParseLineNoEmptyCheck`);
- the zero `.out` sum tested before the missing throughput
  (`GcCheckDivideFirst`);
- the summary sample taken even when empty (`SelectSampleAnyFrame`);
- `while` replaced by `if` in the zero trim (`TrimOneZero`);
- the CSV value coercion left out (`ToFrameNoCoerce`) and timestamps
  coerced to NaT instead of raising (`ToFrameCoerceTimes`).

The mutants of `Cachestat`, `Vmstat`, `KswapdTrace`, `Syscount`,
`Filetop`, `SummaryTables`, `LevelsTable`, `CsvCapture` and `YcsbAggregate` are checked under
`capture_parsers`, those of `TableHistograms` and `TableStats` under
`tableparsers_refinement`.

## 4. Findings

1. `parse_tablehistograms_file` checks the header's keyspace.table
   (`plot_cachestat.py:503`) *before* it classifies the block as header-only or
   failure. A capture for another table that was killed mid-poll therefore
   raises, while spec §4.2 and §8 say it is skipped. The other two nodetool
   parsers classify first.
2. `parse_cachestat_file` raises on an empty or noise-only file, because the
   header is missing (line 199). With a header and no rows it fails with
   `IndexError` at `times[0]` (line 222). Spec §8 says the pipeline yields an
   empty table.
3. `parse_vmstat_command_file` drops rows with unparseable timestamps, then
   reads `df["timestamp"].iloc[0]` (`plot_cachestat.py:835`). When every row
   was dropped, this raises `IndexError`. Spec §7 says an unparseable value
   drops its record and the parse goes on.
4. `load_data` appends one timestamp per entry but one value per matching
   element of the entry's values. The check at `plot_system_monitoring.py:98`
   compares lengths only. So an identifier missing from one entry and listed
   twice in another passes, and later values are plotted against earlier
   timestamps. For example, `df` lists one source for two mount points.
5. `process_out_file` dedupes on a global set of file-name prefixes
   (`parse_ycsb.py:253`), but it finds the experiment's files in the `.out`
   file's own directory. Two experiments with the same file names in
   different directories give one CSV row.
6. `parse_syscount_output`'s docstring says it ensures the column headers
   are SYSCALL, COUNT and TIME (ms). The assert (`syscount_parser.py:50`)
   sits inside `if line.strip() == "<that exact header>"` (line 48), so it
   can never fail. A capture taken without `-L` has the header
   `SYSCALL COUNT` and two-token rows; every row is skipped as malformed and
   the script prints an empty table with no error.
7. `suffixes.split(",")` (`parse_filetop.py:15`) keeps empty pieces, so
   `--suffixes ".log,"` gives the suffix `""`. Every file name ends with it
   (line 29), and the filter keeps every file.
8. `create_summary_tables`' docstring says it builds tables "for all
   numeric columns in data". It takes `numeric_metrics` from the first
   non-empty frame only (`plot_cachestat.py:697-710`). A numeric column that
   only a later capture has, or that the first capture holds as text, gets
   no table, although the inner loop would summarise it for every file.
9. Spec §8 says a noise-only file yields an empty table. `parse_timestamped_file`
   drops only lines containing `Terminated` (`plot_cachestat.py:239`) before
   `pd.read_csv`. So an empty or `Terminated`-only file raises `EmptyDataError`,
   and a `Connection refused` banner becomes the header and raises the
   missing-timestamp error. `parse_file_values_logger_file` returns an empty
   frame for noise alone, but it tests `if not lines` (line 591) before
   `read_csv` drops blank lines. Noise plus one blank line therefore raises
   `EmptyDataError`.
10. Spec §7 says a non-numeric value in an otherwise-numeric column is
   coerced to missing rather than aborting. `parse_timestamped_file` returns
   `pd.read_csv`'s frame (`plot_cachestat.py:240`) with no `pd.to_numeric`,
   unlike the file-values parser (602-603). One text cell leaves a whole
   meminfo or proc_vmstat column of object dtype. `create_summary_tables`
   then leaves the column out. For a proc_vmstat column in
   `SUBTRACT_FROM_START`, `subtract_initial` (731) raises `TypeError` and
   aborts the whole report.

## 5. Plan

Done:

1. `BlockScan`, `BlockLogSpec`, `CompactionStats`.
2. `TableHistograms`.
3. `TableStats`.
4. `Cachestat`.
5. `Vmstat`.
6. `KswapdTrace`.
7. `SystemMonitoring`.
8. `YcsbAggregate`.
9. `StableSort`, `Syscount`, `Filetop`, and `MCCaptureParsers`, which
    checks the five single-capture parsers in one run.
10. `SummaryTables`, `LevelsTable` (added to `MCCaptureParsers`),
    `MCTableParsers`, and the GC loop's crash property.
11. `CsvCapture`, with `MCNoiseOnly` taking over the noise-only run.
12. Review: type invariants that held by construction, and properties that
    restated a single guard or Python's sort stability, were removed. The
    YCSB GC run joined `MCCaptureParsers`, and the freed run checks spec §7
    (finding 10).

Left:

13. A composition of the line filter with every parser, and liveness for the
    modules checked for safety only.
14. The YCSB zero-runtime `.out` and `type=bool` edges (hazards in
    `PROJECT.json`), once there is a stated intent to check them against.

## 6. Not modelled

- **The statistics and formatting of the summary tables**: sums, means,
  percentiles, `fmt` and `tabulate` are functions of the series each row
  records, so the model stops at the series.
- **Plotting and PDF layout** (`plot_cachestat.py` 866-1458,
  `plot_results`, `plot_data`): these are calls into matplotlib with no control
  a property would distinguish.
- **Argument parsing and the `main` functions**: I/O glue.
- **The external `MergeHdrStats` JAR**: it is outside this repository. Its
  result is a nondeterministic choice in `YcsbAggregate`.
- **`emit_csv`, `plot_results`, the per-interval series**: output formatting.
- **Rows with a space in COMM or FILE** (`parse_filetop.py:21`): they do
  not match the row pattern and are dropped. The model has them as unmatched
  lines; the script states no intent for them to check against.
- **The printed tables of `print_syscall_stats` and filetop's `main`**:
  column choice, truncation to 50 characters and `format_size` are
  formatting. Only the TOTAL sums are modelled.
- **pandas' CSV reading and datetime conversion**: these are taken as given.
  Where they decide control (a missing column, an empty frame), the model has
  the branch.
- **A header-only CSV capture** (`plot_cachestat.py:599`): a logger killed
  before its first sample leaves a header and no row, and `iloc[0]` raises
  `IndexError`. `CsvCapture` reaches this (`ToFrame`'s `index_error` branch),
  but neither the spec nor a comment says what such a capture should give.
  Spec §8 speaks only of noise-only files, so no property states an outcome.
