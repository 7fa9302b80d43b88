-------------------------------- MODULE MCScan --------------------------------
(* Instances of Scan for TLC. *)
EXTENDS Scan

CONSTANTS a, b, c

Of(key, epsg, finite) == [key |-> key, epsg |-> epsg, finite |-> finite]

\* Two source CRSs; one of them alone, for other COGs, of which one has no code.
MCContents == {
    {Of(a, 1, TRUE), Of(b, 2, TRUE)},
    {Of(b, 2, TRUE), Of(c, None, TRUE)}}

\* One CRS; a COG without a finite footprint; no code at all.
MCDropped == {
    {Of(a, 1, TRUE), Of(b, 1, TRUE)},
    {Of(a, 1, TRUE), Of(b, 1, FALSE)},
    {Of(a, None, TRUE)}}

AllSteps == {"spawn", "stream", "survey", "write", "load", "upsert", "render", "sync",
             "restart", "stop", "rows", "catalog", "files"}
=============================================================================
