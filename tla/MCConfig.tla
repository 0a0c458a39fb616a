------------------------------ MODULE MCConfig ------------------------------
\* The instance of Config TLC checks: the keys of the file that a command reads,
\* one of them also above every header, and a header nothing is read from.
EXTENDS Config

CONSTANTS Mirror, OtherStore, TildeStore

Header(s) == [kind |-> "header", name |-> s]
Set(k, v) == [kind |-> "set", name |-> k, value |-> v]
MCLines == {Header("ieee"), Header("store"),
            Set("ttl_minutes", 0), Set("ttl_minutes", 2), Set("ttl_minutes", NaN),
            Set("path", TildeStore), Set("auto_update", "no"),
            Set("auto_update", "odd"), Set("base_url", Mirror), Set("base_url", None),
            [kind |-> "broken"]}
NoLayer == [url |-> None, store |-> None, ttl |-> None, auto |-> None]
MCEnvs == {NoLayer,
           [NoLayer EXCEPT !.ttl = 4, !.auto = "yes"],
           [NoLayer EXCEPT !.ttl = 3, !.auto = "no"],
           [NoLayer EXCEPT !.store = OtherStore, !.auto = "odd"],
           [NoLayer EXCEPT !.ttl = PosInf], [NoLayer EXCEPT !.ttl = -1],
           [NoLayer EXCEPT !.ttl = Words]}
Command(name, url, store, no) ==
    [command |-> name, url |-> url, store |-> store, ttl |-> None, auto |-> None,
     noUpdate |-> no]
MCFlags == {Command("lookup", None, None, FALSE),
            Command("lookup", None, TildeStore, FALSE),
            Command("lookup", None, None, TRUE),
            Command("update", Mirror, None, FALSE)}
MCHome == [p \in {TildeStore} |-> OtherStore]
=============================================================================
