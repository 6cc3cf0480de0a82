\* Deactivation of a service against a call that was validated before it.
SPECIFICATION Spec
CONSTANTS
    c1 = c1  c2 = c2  s1 = s1  f1 = f1
    Qualquer = Qualquer  Livre = Livre  Nenhum = Nenhum
    Profissionais <- MCProfissionais
    Servicos = {s1}
    Chamadas = {c1, c2}
    Pedidos <- MCPedidos
    Telefones = {f1}
    Duracoes = {1, 2}
    Expedientes <- MCExpedientes
    MaxQuantidade = 2
    Horizonte = 2
INVARIANTS SemFuturoDeServicoInativo
SYMMETRY Simetria
CHECK_DEADLOCK FALSE
