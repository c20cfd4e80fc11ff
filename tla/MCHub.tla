-------------------------------- MODULE MCHub --------------------------------
\* Hub for TLC: two programs, one of them a logger.
EXTENDS Hub

MCProgram == {"daq", "log"}
MCLogger == {"log"}

\* Two of the same name may meet, with a browser; or a program with a logger.
MCVisitor == {"daq", "WebBrowser"}
MCLogVisitor == {"daq", "log"}

=============================================================================
