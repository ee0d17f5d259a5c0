----------------------------- MODULE MCBenchTools -----------------------------
EXTENDS BenchTools

MCVariants == <<"a", "b">>
MCModes == <<"ghostty", "gui">>
MCTokens == <<<<"z", "q">>, <<"q", "z">>>>
MCPayloads == <<"ascii", "ansi">>

================================================================================
