\* Reloads of the simul_efun object among programs that each define at
\* least one function: the name table stays sorted, the binary search
\* agrees with a linear scan, the compiler's and the run time's views agree
\* with the loaded program, and no name loses its index.
CONSTANTS
  Names <- MC_Names
  Programs <- MC_Programs
  NoFunc = NoFunc
SPECIFICATION Spec
INVARIANT TypeOK
INVARIANT SortedTable
INVARIANT FindMatchesLinear
INVARIANT CompileRuntimeAgree
PROPERTY IndexStable
