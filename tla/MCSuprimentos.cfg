\* Orders, transfers and imports that overlap and fail.
SPECIFICATION Spec
CONSTANTS
    c1 = c1  c2 = c2  p1 = p1  p2 = p2  loja = loja  d1 = d1  k1 = k1  n1 = n1  n2 = n2  i1 = i1
    Nada = Nada
    Central = central
    Produtos = {p1, p2}
    Filiais = {loja}
    Pedidos = {d1}
    Chaves = {k1}
    Envios = {n1, n2}
    Clientes = {i1}
    Chamadas = {c1, c2}
    SaldoInicial <- MCSaldoInicial
    MaxItem = 1
    MaxManual = 1
SYMMETRY Simetria
INVARIANTS EstoqueExplicado ChaveReservada NinguemDuasVezes
