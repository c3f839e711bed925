SPECIFICATION Spec
CONSTANT Consoles = {c1, c2}
INVARIANT SessionCovers
SYMMETRY Sym
