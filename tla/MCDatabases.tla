---------------------------- MODULE MCDatabases ----------------------------
EXTENDS Databases

Flag(key, value) == [key |-> key, value |-> value]
Call(p, options, families) == [path |-> p, options |-> options, families |-> families]

Create   == Flag("create_if_missing", "true")
NoCreate == Flag("create_if_missing", "false")
Missings == Flag("create_missing_column_families", "true")

MCOpens ==
    {Call("db", <<Flag("error_if_exists", "true"), Create>>, <<>>),
     Call("db", <<Create, NoCreate, Flag("error_if_exists", "yes")>>, <<>>),
     Call("db", <<Create, Missings, Flag("total_threads", "4")>>, <<"default", "users">>)}
=============================================================================
