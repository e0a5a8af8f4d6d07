----------------------------- MODULE HubReport -----------------------------
(***************************************************************************)
(* get_hub_config in app/routers/hub.py: what neon.yaml may hold, and what *)
(* GET /hub/config reports of it.  The file is read anew for every request *)
(* and nothing is kept, so the report is an operator on the file.          *)
(***************************************************************************)
CONSTANTS
    Engines,        \* names of plugin modules
    DefaultTts,     \* _DEFAULT_TTS_MODULE
    DefaultStt,     \* _DEFAULT_STT_MODULE
    Null            \* None in Python

\* A section that is missing; that is null or empty; a mapping without module,
\* or with a module that is null or no string; or no mapping at all.
Nameless == {"absent", "empty", "no_module", "bad_module", "not_mapping"}

\* What the model writes for other things than engines names no engine.
ASSUME EngineAssumption ==
    (Engines \union {DefaultTts, DefaultStt})
        \intersect (Nameless \union {"crash", Null}) = {}

\* A section may also be a mapping that names a module.
Sections == Nameless \union Engines

\* A file that is not there; that is a directory, forbidden or malformed; that
\* is not UTF-8; that the system fails to open or read in any other way; a list
\* or a scalar; or a mapping, the empty one for an empty file.
Files == [kind: {"missing", "unreadable", "not_utf8", "io_error", "not_mapping",
                 "mapping"},
          tts: Sections, stt: Sections]

\* Mutant of Engine: an empty section is looked into.
EmptyIsNone(section, default) ==
    CASE section \in {"absent", "no_module"} -> default
      [] section \in {"empty", "bad_module", "not_mapping"} -> "crash"
      [] OTHER -> section

\* (neon_config.get(...) or {}).get("module", default), as a str field takes it.
Engine(section, default) ==
    CASE section \in {"absent", "empty", "no_module"} -> default
      [] section \in {"bad_module", "not_mapping"} -> "crash"
      [] OTHER -> section

\* _read_neon_yaml; a file that is not UTF-8, and every OSError but the three
\* it names, raises what it does not catch.
ReadNeonYaml(file) ==
    CASE file.kind \in {"missing", "unreadable", "not_mapping"} -> "none"
      [] file.kind \in {"not_utf8", "io_error"} -> "crash"
      [] OTHER -> "data"

Report(status, tts, stt) == [status |-> status, tts |-> tts, stt |-> stt]

\* get_hub_config.
HubConfig(file) ==
    LET data == ReadNeonYaml(file)
        tts == Engine(file.tts, DefaultTts)
        stt == Engine(file.stt, DefaultStt)
    IN CASE data = "none" -> Report(200, Null, Null)
         [] data = "crash" -> Report(500, Null, Null)
         [] data = "data" /\ "crash" \in {tts, stt} -> Report(500, Null, Null)
         [] OTHER -> Report(200, tts, stt)

\* A report is without engines only when there is no mapping to read them from,
\* and never without one of them alone; an engine the file names is reported as
\* it is; and a Hub that configures no engine, or leaves out or empties either
\* section, is still reported.
FilesAreReported ==
    \A file \in Files :
        LET r == HubConfig(file)
        IN /\ r.tts = Null <=> r.stt = Null
           /\ r.status = 200 /\ file.kind = "mapping" =>
                /\ r.tts # Null
                /\ file.tts \in Engines => r.tts = file.tts
                /\ file.stt \in Engines => r.stt = file.stt
           /\ r.status = 500 =>
                \/ file.kind \in {"not_utf8", "io_error"}
                \/ {file.tts, file.stt} \intersect {"bad_module", "not_mapping"} # {}
=============================================================================
