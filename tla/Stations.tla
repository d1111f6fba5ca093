-------------------------------- MODULE Stations --------------------------------
(***************************************************************************)
(* Hard Disk and File IO/q1.c: the temperatures of up to MAX_STATIONS      *)
(* stations, read line by line from a file that is mapped into memory, and *)
(* again by fgets.  Lines are taken to fit the buffer.  A name that fills  *)
(* the array it is stored in is left without an end: what it is compared   *)
(* with later depends on bytes nobody has written.                         *)
(***************************************************************************)
EXTENDS Integers, Sequences, FiniteSetsExt

CONSTANTS MAX_STATIONS,
          Name, LongName,   \* names, and those of at least 99 characters
          Temperature,
          MAX_LINES         \* bound of the model: the length of the file

ASSUME StationsAssumption ==
  /\ MAX_STATIONS \in Nat \ {0} /\ MAX_LINES \in Nat
  /\ LongName \subseteq Name /\ "other" \notin Name
  /\ Temperature \subseteq -999 .. 999

NoSemicolon == <<>>
Other       == <<"other">>   \* a long name, not as it was read
DBL_MAX     == 1000

VARIABLES st_way,       \* "mmap" or "fread"
          st_lines,     \* the lines read so far
          st_stations

st_vars == <<st_way, st_lines, st_stations>>

STInit == st_way \in {"mmap", "fread"} /\ st_lines = <<>> /\ st_stations = <<>>

\* What may be found where a name has been stored.
strncpy(name) == IF name \in LongName THEN {<<name>>, Other} ELSE {<<name>>}

new_station(name) ==
  [name |-> name, min_temp |-> DBL_MAX, max_temp |-> -DBL_MAX, total_temp |-> 0, count |-> 0]

Updated(s, t) ==
  [s EXCEPT !.min_temp = IF t < @ THEN t ELSE @, !.max_temp = IF t > @ THEN t ELSE @,
            !.total_temp = @ + t, !.count = @ + 1]

\* Faulty variant: the limit is looked at first.
FoundBelowLimit(i, name) == Len(st_stations) < MAX_STATIONS /\ st_stations[i].name = <<name>>

Found(i, name) == st_stations[i].name = <<name>>

\* find_or_add_station, and the update of what it returns, unless that is NULL.
Record(name, t) ==
  \/ \E i \in 1 .. Len(st_stations) :
       /\ Found(i, name) /\ \A j \in 1 .. i - 1 : ~Found(j, name)
       /\ st_stations' = [st_stations EXCEPT ![i] = Updated(@, t)]
  \/ /\ \A i \in 1 .. Len(st_stations) : ~Found(i, name)
     /\ IF Len(st_stations) < MAX_STATIONS
          THEN \E stored \in strncpy(name) :
                 st_stations' = Append(st_stations, Updated(new_station(stored), t))
          ELSE UNCHANGED st_stations

ProcessLine(line) ==
  /\ Len(st_lines) < MAX_LINES
  /\ st_lines' = Append(st_lines, line)
  /\ IF line = NoSemicolon THEN UNCHANGED st_stations ELSE Record(line[1], line[2])
  /\ UNCHANGED st_way

Lines == {NoSemicolon} \cup (Name \X Temperature)

process_file_mmap  == st_way = "mmap"  /\ \E line \in Lines : ProcessLine(line)
process_file_fread == st_way = "fread" /\ \E line \in Lines : ProcessLine(line)

STNext == process_file_mmap \/ process_file_fread

----------------------------------------------------------------------------
(* Properties                                                              *)

\* The lines that name a station, and the sum of the temperatures in them.
LinesOf(lines, name) == {k \in 1 .. Len(lines) : lines[k] # NoSemicolon /\ lines[k][1] = name}

TotalOf(lines, name) ==
  LET total[k \in 0 .. Len(lines)] ==
        IF k = 0 THEN 0 ELSE total[k - 1] + IF k \in LinesOf(lines, name) THEN lines[k][2] ELSE 0
  IN  total[Len(lines)]

\* Either way, a station whose name fits is in the table once, with the figures
\* of all its lines; or, if the table was full before it came, not at all.
AllLinesOrNone ==
  \A name \in Name \ LongName :
    LET its     == LinesOf(st_lines, name)
        temps   == {st_lines[k][2] : k \in its}
        figures == [name |-> <<name>>, min_temp |-> Min(temps), max_temp |-> Max(temps),
                    total_temp |-> TotalOf(st_lines, name), count |-> Cardinality(its)]
        entries == {i \in 1 .. Len(st_stations) : st_stations[i].name = <<name>>}
    IN  \/ Cardinality(entries) = 1 /\ \A i \in entries : st_stations[i] = figures
        \/ entries = {} /\ (its = {} \/ Len(st_stations) = MAX_STATIONS)
=============================================================================
